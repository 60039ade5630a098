---------------------------- MODULE StoresProofs ----------------------------
(***************************************************************************)
(* What several processes keep on disk, for any number of them: the lock   *)
(* file and the socket of a bus, the file that a download in parts is      *)
(* written to, and the audit log.  What the flock buys: the serving bus is *)
(* the reachable one, Discover fails for a reason, and Stop says "stopped" *)
(* of a bus that is; all rest on who may hold it, and what its holder may  *)
(* rely on.                                                                *)
(***************************************************************************)
EXTENDS BusSingleton, DriveDownload, AuditChain, FiniteSetTheorems, TLAPS

Live    == Starting \cup Ending \cup {"serving"}
Holding == {"locked", "cleared", "owner", "serving", "closing", "blanking", "releasing"}

\* A bus that runs has the PID it was given, and a PID that is a bus's is that bus's own.
RunsUnderPid ==
  /\ \A b \in Buses : bus[b] \in Live => pid[b] \in Pids /\ who[pid[b]] = b
  /\ \A p \in Pids : who[p] \in Buses => bus[who[p]] \in Live /\ pid[who[p]] = p

\* The flock is held exactly from the lock to the release, by a bus or by a probe.
FlockIsHeld ==
  /\ \A b \in Buses : flock = b <=> bus[b] \in Holding
  /\ \A s \in Stoppers : flock = s <=> stopper[s] \in {"probe", "release"}

\* From the write to the blanking the file names its writer.
FileNamesOwner ==
  \A b \in Buses : bus[b] \in {"owner", "serving", "closing", "blanking"} => body = pid[b]

\* The path leads to whoever serves.
PathLeadsToBus == \A b \in Buses : bus[b] = "serving" => socket = b

\* A Stop past its first check has read a PID; the process it holds a handle of, when that
\* is a bus, was started under that PID.
HandleWasTarget ==
  \A s \in Stoppers :
    /\ stopper[s] \notin {"read", "alive", "notRunning"} => target[s] \in Pids
    /\ handle[s] \in Buses
         => target[s] \in Pids /\ bus[handle[s]] # "unborn" /\ pid[handle[s]] = target[s]
    /\ stopper[s] \in {"read", "alive", "find"} => handle[s] = None

\* A Discover that nothing excuses runs while no bus shuts down, and once it has spawned a
\* bus there is one that starts or serves.
Waiting(d) == client[d] \in {"dial", "spawn", "await", "redial"} /\ d \notin excused
SomeBusComes ==
  \A d \in Clients : Waiting(d) =>
    /\ \A b \in Buses : bus[b] \notin Ending
    /\ client[d] \in {"await", "redial"} => \E b \in Buses : bus[b] \in Starting \cup {"serving"}

SingletonInv ==
  /\ TypeOK /\ RunsUnderPid /\ FlockIsHeld /\ FileNamesOwner /\ PathLeadsToBus
  /\ HandleWasTarget /\ SomeBusComes /\ StopMeansGone /\ DiscoverConnects
LEMMA TypeStep == SingletonAssumption /\ SingletonInv /\ Next => TypeOK'
<1> SUFFICES ASSUME SingletonAssumption, SingletonInv, Next PROVE TypeOK'
  OBVIOUS
<1> USE DEF SingletonInv, TypeOK, files, procs, disc, stop, Ends, Step, Starting, Ending,
            Alive, Free, SingletonAssumption
<1>40. ASSUME NEW p \in Pids, StrangerStarts(p) \/ StrangerExits(p) PROVE TypeOK'
  BY <1>40 DEF StrangerStarts, StrangerExits
<1>1. ASSUME NEW b \in Buses, TryLock(b) PROVE TypeOK'
  BY <1>1 DEF TryLock
<1>2. ASSUME NEW b \in Buses, Refuse(b) PROVE TypeOK'
  BY <1>2 DEF Refuse
<1>3. ASSUME NEW b \in Buses, Clear(b) PROVE TypeOK'
  BY <1>3 DEF Clear
<1>4. ASSUME NEW b \in Buses, WritePid(b) PROVE TypeOK'
  BY <1>4 DEF WritePid
<1>5. ASSUME NEW b \in Buses, StartFails(b) PROVE TypeOK'
  BY <1>5 DEF StartFails
<1>6. ASSUME NEW b \in Buses, Listen(b) PROVE TypeOK'
  BY <1>6 DEF Listen
<1>7. ASSUME NEW b \in Buses, CloseListener(b) PROVE TypeOK'
  BY <1>7 DEF CloseListener
<1>8. ASSUME NEW b \in Buses, CloseListenerAgain(b) PROVE TypeOK'
  BY <1>8 DEF CloseListenerAgain
<1>9. ASSUME NEW b \in Buses, Blank(b) PROVE TypeOK'
  BY <1>9 DEF Blank
<1>10. ASSUME NEW b \in Buses, Release(b) PROVE TypeOK'
  BY <1>10 DEF Release
<1>11. ASSUME NEW b \in Buses, Exit(b) PROVE TypeOK'
  BY <1>11 DEF Exit
<1>12. ASSUME NEW b \in Buses, Crash(b) PROVE TypeOK'
  <2>1. bus' \in [Buses -> {"gone"} \cup Starting \cup Ending
                         \cup {"unborn", "serving", "busy", "refused", "failed"}]
    BY <1>12 DEF Crash
  <2>2. /\ who' \in [Pids -> Buses \cup {Stranger, None}]
        /\ flock' \in Buses \cup Stoppers \cup {None}
    BY <1>12 DEF Crash
  <2>3. faults' \in Nat /\ excused' = Clients
    BY <1>12 DEF Crash
  <2>4. UNCHANGED <<seen, pid, asked, body, socket, client, child, stop>>
    BY <1>12 DEF Crash
  <2> QED BY <2>1, <2>2, <2>3, <2>4
<1>13. ASSUME NEW d \in Clients, Begin(d) PROVE TypeOK'
  BY <1>13 DEF Begin
<1>14. ASSUME NEW d \in Clients, Dial(d) PROVE TypeOK'
  BY <1>14 DEF Dial
<1>15. ASSUME NEW d \in Clients, AwaitReady(d) PROVE TypeOK'
  BY <1>15 DEF AwaitReady
<1>16. ASSUME NEW d \in Clients, ReadyTimeout(d) PROVE TypeOK'
  BY <1>16 DEF ReadyTimeout
<1>17. ASSUME NEW d \in Clients, Redial(d) PROVE TypeOK'
  BY <1>17 DEF Redial
<1>18. ASSUME NEW d \in Clients, GiveUp(d) PROVE TypeOK'
  BY <1>18 DEF GiveUp
<1>41. ASSUME NEW d \in Clients, NEW b \in Buses, NEW p \in Pids, Spawn(d, b, p) PROVE TypeOK'
  BY <1>41 DEF Spawn
<1>19. ASSUME NEW s \in Stoppers, ReadPid(s) PROVE TypeOK'
  BY <1>19 DEF ReadPid
<1>20. ASSUME NEW s \in Stoppers, CheckAlive(s) PROVE TypeOK'
  BY <1>20 DEF CheckAlive
<1>21. ASSUME NEW s \in Stoppers, FindProcess(s) PROVE TypeOK'
  <2>1. target[s] \in Pids
    BY <1>21 DEF FindProcess, HandleWasTarget
  <2> QED BY <1>21, <2>1 DEF FindProcess
<1>22. ASSUME NEW s \in Stoppers, RequestStop(s) PROVE TypeOK'
  BY <1>22 DEF RequestStop, Up
<1>23. ASSUME NEW s \in Stoppers, WaitExit(s) PROVE TypeOK'
  BY <1>23 DEF WaitExit
<1>24. ASSUME NEW s \in Stoppers, WaitTimeout(s) PROVE TypeOK'
  BY <1>24 DEF WaitTimeout
<1>25. ASSUME NEW s \in Stoppers, Recheck(s) PROVE TypeOK'
  BY <1>25 DEF Recheck
<1>26. ASSUME NEW s \in Stoppers, ValidateRead(s) PROVE TypeOK'
  BY <1>26 DEF ValidateRead
<1>27. ASSUME NEW s \in Stoppers, ValidateTry(s) PROVE TypeOK'
  BY <1>27 DEF ValidateTry
<1>28. ASSUME NEW s \in Stoppers, ValidateReread(s) PROVE TypeOK'
  BY <1>28 DEF ValidateReread
<1>29. ASSUME NEW s \in Stoppers, ValidateClear(s) PROVE TypeOK'
  BY <1>29 DEF ValidateClear
<1>30. ASSUME NEW s \in Stoppers, ValidateRelease(s) PROVE TypeOK'
  BY <1>30 DEF ValidateRelease
<1>31. ASSUME NEW s \in Stoppers, SignalGone(s) PROVE TypeOK'
  BY <1>31 DEF SignalGone
<1>32. ASSUME NEW s \in Stoppers, Signal(s) PROVE TypeOK'
  BY <1>32 DEF Signal
<1> QED BY <1>1, <1>2, <1>3, <1>4, <1>5, <1>6, <1>7, <1>8, <1>9, <1>10, <1>11, <1>12, <1>13,
        <1>14, <1>15, <1>16, <1>17, <1>18, <1>19, <1>20, <1>21, <1>22, <1>23, <1>24, <1>25,
        <1>26, <1>27, <1>28, <1>29, <1>30, <1>31, <1>32, <1>40, <1>41 DEF Next, Daemon,
        Discover, Stop

\* The steps of Stop that only look: at the files, at the process table, at a request's answer.
Looks(s) ==
  \/ ReadPid(s) \/ CheckAlive(s) \/ FindProcess(s) \/ RequestStop(s) \/ WaitExit(s)
  \/ WaitTimeout(s) \/ Recheck(s) \/ ValidateRead(s) \/ ValidateReread(s)
  \/ SignalGone(s) \/ Signal(s)

LEMMA LooksOnly ==
  ASSUME SingletonInv, NEW s \in Stoppers, Looks(s)
  PROVE  /\ UNCHANGED <<files, who, seen, bus, pid, client, child, excused, faults>>
         /\ \A r \in Stoppers : stopper'[r] \in {"probe", "release"}
                               <=> stopper[r] \in {"probe", "release"}
BY DEF Looks, ReadPid, CheckAlive, FindProcess, RequestStop, WaitExit, WaitTimeout, Recheck,
       ValidateRead, ValidateReread, SignalGone, Signal, Step, SingletonInv, TypeOK, procs, disc

\* Of all Discover does, only a spawn touches more than the client.
Awaits(d) ==
  Begin(d) \/ Dial(d) \/ AwaitReady(d) \/ ReadyTimeout(d) \/ Redial(d) \/ GiveUp(d)

LEMMA AwaitsOnly ==
  ASSUME NEW d \in Clients, Awaits(d)
  PROVE  UNCHANGED <<files, procs, child, stop>>
BY DEF Awaits, Begin, Dial, AwaitReady, ReadyTimeout, Redial, GiveUp

\* What a step may do to the processes.
NoneMoves    == UNCHANGED <<who, bus, pid>>
Outsider(p)  == who[p] \notin Buses /\ who'[p] \notin Buses /\ UNCHANGED <<bus, pid>>
                /\ who' = [who EXCEPT ![p] = who'[p]]
Dies(b, how) == bus[b] \in Live /\ Ends(b, how)
Moves(b, to) == /\ bus[b] \in Live /\ bus' = [bus EXCEPT ![b] = to]
                /\ UNCHANGED <<who, pid>>

LEMMA ProcessStep ==
  ASSUME SingletonAssumption, SingletonInv, Next
  PROVE  \/ NoneMoves
         \/ \E p \in Pids : Outsider(p)
         \/ \E b \in Buses, how \in {"busy", "refused", "gone"} : Dies(b, how)
         \/ \E b \in Buses, to \in Live : Moves(b, to)
         \/ \E d \in Clients, b \in Buses, p \in Pids : Spawn(d, b, p)
<1>1. ASSUME NEW p \in Pids, StrangerStarts(p) \/ StrangerExits(p) PROVE Outsider(p)
  BY <1>1 DEF StrangerStarts, StrangerExits, Outsider, SingletonInv, TypeOK, SingletonAssumption
<1>2. ASSUME NEW b \in Buses, Crash(b) \/ Refuse(b) \/ Exit(b)
      PROVE  \E how \in {"busy", "refused", "gone"} : Dies(b, how)
  BY <1>2 DEF Crash, Refuse, Exit, Dies, Live, Starting, Ending
<1>3. ASSUME NEW b \in Buses, TryLock(b) PROVE Dies(b, "busy") \/ Moves(b, "locked")
  BY <1>3 DEF TryLock, Dies, Moves, Live, Starting
<1>4. ASSUME NEW b \in Buses,
             \/ Clear(b) \/ WritePid(b) \/ StartFails(b) \/ Listen(b)
             \/ CloseListener(b) \/ CloseListenerAgain(b) \/ Blank(b) \/ Release(b)
      PROVE  \E to \in Live : Moves(b, to)
  BY <1>4 DEF Clear, WritePid, StartFails, Listen, CloseListener, CloseListenerAgain, Blank,
              Release, Moves, Live, Starting, Ending
<1>5. ASSUME NEW d \in Clients, Awaits(d) PROVE NoneMoves
  BY <1>5, AwaitsOnly DEF procs, NoneMoves
<1>6. ASSUME NEW s \in Stoppers, Stop(s) PROVE NoneMoves
  BY <1>6, LooksOnly DEF Stop, Looks, ValidateTry, ValidateClear, ValidateRelease, procs, NoneMoves
<1> QED BY <1>1, <1>2, <1>3, <1>4, <1>5, <1>6 DEF Next, Daemon, Discover, Awaits, Live, Starting

LEMMA PidStep == SingletonAssumption /\ SingletonInv /\ Next => RunsUnderPid'
<1> SUFFICES ASSUME SingletonAssumption, SingletonInv, Next PROVE RunsUnderPid'
  OBVIOUS
<1> USE DEF SingletonInv, RunsUnderPid
<1>1. CASE NoneMoves
  BY <1>1 DEF NoneMoves
<1>2. ASSUME NEW p \in Pids, Outsider(p) PROVE RunsUnderPid'
  BY <1>2 DEF Outsider, TypeOK
<1>3. ASSUME NEW b \in Buses, NEW how \in {"busy", "refused", "gone"}, Dies(b, how)
      PROVE  RunsUnderPid'
  BY <1>3 DEF Dies, Ends, TypeOK, Live, Starting, Ending, SingletonAssumption
<1>4. ASSUME NEW b \in Buses, NEW to \in Live, Moves(b, to) PROVE RunsUnderPid'
  BY <1>4 DEF Moves, TypeOK
<1>5. ASSUME NEW d \in Clients, NEW b \in Buses, NEW p \in Pids, Spawn(d, b, p)
      PROVE  RunsUnderPid'
  BY <1>5 DEF Spawn, Free, TypeOK, Live, Starting, Ending, SingletonAssumption
<1> QED BY <1>1, <1>2, <1>3, <1>4, <1>5, ProcessStep

\* The flock has one holder: a process takes it when nobody has it, and only its holder
\* lets go of it.
LEMMA FlockStep == SingletonAssumption /\ SingletonInv /\ Next => FlockIsHeld'
<1> SUFFICES ASSUME SingletonAssumption, SingletonInv, Next PROVE FlockIsHeld'
  OBVIOUS
<1> USE DEF SingletonInv, FlockIsHeld, Holding, SingletonAssumption
<1>1. ASSUME NEW p \in Pids, StrangerStarts(p) \/ StrangerExits(p) PROVE FlockIsHeld'
  BY <1>1 DEF StrangerStarts, StrangerExits, files, stop
<1>2. ASSUME NEW b \in Buses, TryLock(b) PROVE FlockIsHeld'
  BY <1>2 DEF TryLock, TypeOK, files, stop, Ends
<1>3. ASSUME NEW b \in Buses, Refuse(b) PROVE FlockIsHeld'
  BY <1>3 DEF Refuse, TypeOK, files, stop, Ends
<1>4. ASSUME NEW b \in Buses, Clear(b) PROVE FlockIsHeld'
  BY <1>4 DEF Clear, TypeOK, files, stop
<1>5. ASSUME NEW b \in Buses, WritePid(b) PROVE FlockIsHeld'
  BY <1>5 DEF WritePid, TypeOK, files, stop
<1>6. ASSUME NEW b \in Buses, StartFails(b) PROVE FlockIsHeld'
  BY <1>6 DEF StartFails, TypeOK, files, stop
<1>7. ASSUME NEW b \in Buses, Listen(b) PROVE FlockIsHeld'
  BY <1>7 DEF Listen, TypeOK, files, stop
<1>8. ASSUME NEW b \in Buses, CloseListener(b) PROVE FlockIsHeld'
  BY <1>8 DEF CloseListener, TypeOK, files, stop
<1>9. ASSUME NEW b \in Buses, CloseListenerAgain(b) PROVE FlockIsHeld'
  BY <1>9 DEF CloseListenerAgain, TypeOK, files, stop
<1>10. ASSUME NEW b \in Buses, Blank(b) PROVE FlockIsHeld'
  BY <1>10 DEF Blank, TypeOK, files, stop
<1>11. ASSUME NEW b \in Buses, Release(b) PROVE FlockIsHeld'
  BY <1>11 DEF Release, TypeOK, files, stop
<1>12. ASSUME NEW b \in Buses, Exit(b) PROVE FlockIsHeld'
  BY <1>12 DEF Exit, TypeOK, files, stop, Ends
<1>13. ASSUME NEW b \in Buses, Crash(b) PROVE FlockIsHeld'
  BY <1>13 DEF Crash, TypeOK, files, stop, Ends
<1>14. ASSUME NEW d \in Clients, Discover(d) PROVE FlockIsHeld'
  <2>1. CASE Awaits(d)
    BY <2>1, AwaitsOnly DEF files, procs, stop
  <2>2. ASSUME NEW b \in Buses, NEW p \in Pids, Spawn(d, b, p) PROVE FlockIsHeld'
    BY <2>2 DEF Spawn, TypeOK, files, stop
  <2> QED BY <1>14, <2>1, <2>2 DEF Discover, Awaits
<1>15. ASSUME NEW s \in Stoppers, ValidateTry(s) \/ ValidateClear(s) \/ ValidateRelease(s)
      PROVE  FlockIsHeld'
  BY <1>15 DEF ValidateTry, ValidateClear, ValidateRelease, Step, TypeOK, procs
<1>16. ASSUME NEW s \in Stoppers, Looks(s) PROVE FlockIsHeld'
  BY <1>16, LooksOnly DEF files
<1> QED BY <1>1, <1>2, <1>3, <1>4, <1>5, <1>6, <1>7, <1>8, <1>9, <1>10, <1>11, <1>12, <1>13,
        <1>14, <1>15, <1>16 DEF Next, Daemon, Stop, Looks

\* The file and the path belong to the holder of the flock: a step that writes either is a
\* step of a bus or a probe that holds it.
LEMMA FilesStep ==
  SingletonAssumption /\ SingletonInv /\ Next => FileNamesOwner' /\ PathLeadsToBus'
<1> SUFFICES ASSUME SingletonAssumption, SingletonInv, Next
             PROVE  FileNamesOwner' /\ PathLeadsToBus'
  OBVIOUS
<1> USE DEF SingletonInv, FlockIsHeld, FileNamesOwner, PathLeadsToBus, Holding,
            SingletonAssumption
<1>1. ASSUME NEW b \in Buses, TryLock(b) \/ Refuse(b) \/ Exit(b) \/ Crash(b)
      PROVE  FileNamesOwner' /\ PathLeadsToBus'
  BY <1>1 DEF TryLock, Refuse, Exit, Crash, Ends, TypeOK
<1>2. ASSUME NEW b \in Buses, Clear(b) \/ WritePid(b) \/ Blank(b)
      PROVE  FileNamesOwner' /\ PathLeadsToBus'
  BY <1>2 DEF Clear, WritePid, Blank, TypeOK
<1>3. ASSUME NEW b \in Buses,
             StartFails(b) \/ Listen(b) \/ CloseListener(b) \/ CloseListenerAgain(b) \/ Release(b)
      PROVE  FileNamesOwner' /\ PathLeadsToBus'
  BY <1>3 DEF StartFails, Listen, CloseListener, CloseListenerAgain, Release, TypeOK, files
<1>4. ASSUME NEW p \in Pids, StrangerStarts(p) \/ StrangerExits(p)
      PROVE  FileNamesOwner' /\ PathLeadsToBus'
  BY <1>4 DEF StrangerStarts, StrangerExits, files
<1>5. ASSUME NEW d \in Clients, Awaits(d) PROVE FileNamesOwner' /\ PathLeadsToBus'
  BY <1>5, AwaitsOnly DEF files, procs
<1>6. ASSUME NEW d \in Clients, NEW b \in Buses, NEW p \in Pids, Spawn(d, b, p)
      PROVE  FileNamesOwner' /\ PathLeadsToBus'
  BY <1>6 DEF Spawn, TypeOK, files
<1>7. ASSUME NEW s \in Stoppers, ValidateTry(s) \/ ValidateClear(s) \/ ValidateRelease(s)
      PROVE  FileNamesOwner' /\ PathLeadsToBus'
  BY <1>7 DEF ValidateTry, ValidateClear, ValidateRelease, Step, procs
<1>8. ASSUME NEW s \in Stoppers, Looks(s) PROVE FileNamesOwner' /\ PathLeadsToBus'
  BY <1>8, LooksOnly DEF files
<1> QED BY <1>1, <1>2, <1>3, <1>4, <1>5, <1>6, <1>7, <1>8
        DEF Next, Daemon, Discover, Awaits, Stop, Looks

\* A bus that was started once is not started again, so the process a Stop looked up is
\* not the one that gets its PID later.
LEMMA HandleStep ==
  SingletonAssumption /\ SingletonInv /\ Next => HandleWasTarget' /\ StopMeansGone'
<1> SUFFICES ASSUME SingletonAssumption, SingletonInv, Next
             PROVE  HandleWasTarget' /\ StopMeansGone'
  OBVIOUS
<1> USE DEF SingletonInv, HandleWasTarget, StopMeansGone, SingletonAssumption
<1>1. CASE UNCHANGED <<stopper, target, handle>>
  <2>1. \A b \in Buses : bus[b] # "unborn" => bus'[b] # "unborn" /\ pid'[b] = pid[b]
    BY ProcessStep DEF NoneMoves, Outsider, Dies, Ends, Moves, Spawn, TypeOK, Live, Starting, Ending
  <2>2. \A p \in Pids, b \in Buses : who'[p] = b /\ bus[b] # "unborn" => who[p] = b
    BY ProcessStep DEF NoneMoves, Outsider, Dies, Ends, Moves, Spawn, TypeOK
  <2> QED BY <1>1, <2>1, <2>2 DEF TypeOK
<1>2. ASSUME NEW s \in Stoppers, ReadPid(s) \/ CheckAlive(s)
      PROVE  HandleWasTarget' /\ StopMeansGone'
  BY <1>2 DEF ReadPid, CheckAlive, Step, Alive, TypeOK, procs
<1>3. ASSUME NEW s \in Stoppers, FindProcess(s) PROVE HandleWasTarget' /\ StopMeansGone'
  <2>1. target[s] \in Pids
    BY <1>3 DEF FindProcess, Step
  <2> QED BY <1>3, <2>1 DEF FindProcess, Step, TypeOK, procs, RunsUnderPid, Live, Starting, Ending
<1>4. ASSUME NEW s \in Stoppers,
             \/ RequestStop(s) \/ WaitExit(s) \/ WaitTimeout(s) \/ Recheck(s)
             \/ SignalGone(s) \/ Signal(s)
      PROVE  HandleWasTarget' /\ StopMeansGone'
  BY <1>4 DEF RequestStop, WaitExit, WaitTimeout, Recheck, SignalGone, Signal, Step, Alive, TypeOK,
              procs
<1>5. ASSUME NEW s \in Stoppers,
             \/ ValidateRead(s) \/ ValidateTry(s) \/ ValidateReread(s) \/ ValidateClear(s)
             \/ ValidateRelease(s)
      PROVE  HandleWasTarget' /\ StopMeansGone'
  BY <1>5 DEF ValidateRead, ValidateTry, ValidateReread, ValidateClear, ValidateRelease, Step,
              TypeOK, procs
<1>6. ASSUME NEW d \in Clients, Discover(d) PROVE UNCHANGED <<stopper, target, handle>>
  BY <1>6, AwaitsOnly DEF Discover, Awaits, Spawn, stop
<1>7. ASSUME NEW b \in Buses, Daemon(b) \/ Crash(b) PROVE UNCHANGED <<stopper, target, handle>>
  BY <1>7 DEF Daemon, TryLock, Refuse, Clear, WritePid, StartFails, Listen, CloseListener,
              CloseListenerAgain, Blank, Release, Exit, Crash, stop
<1>8. ASSUME NEW p \in Pids, StrangerStarts(p) \/ StrangerExits(p)
      PROVE  UNCHANGED <<stopper, target, handle>>
  BY <1>8 DEF StrangerStarts, StrangerExits, stop
<1> QED BY <1>1, <1>2, <1>3, <1>4, <1>5, <1>6, <1>7, <1>8 DEF Next, Stop

\* What excuses one Discover excuses every one that is under way: only a new Begin forgets it.
LEMMA ExcusesStay ==
  ASSUME SingletonAssumption, SingletonInv, Next, NEW d \in Clients, client[d] # "begin"
  PROVE  d \in excused => d \in excused'
<1>1. ASSUME NEW c \in Clients, Begin(c) PROVE d \in excused => d \in excused'
  BY <1>1 DEF Begin
<1>2. ASSUME NEW c \in Clients,
             \/ Dial(c) \/ AwaitReady(c) \/ ReadyTimeout(c) \/ Redial(c) \/ GiveUp(c)
             \/ \E b \in Buses, p \in Pids : Spawn(c, b, p)
      PROVE  d \in excused => d \in excused'
  BY <1>2 DEF Dial, AwaitReady, ReadyTimeout, Redial, GiveUp, Spawn
<1>3. ASSUME NEW b \in Buses, Daemon(b) \/ Crash(b) PROVE d \in excused => d \in excused'
  BY <1>3 DEF Daemon, TryLock, Refuse, Clear, WritePid, StartFails, Listen, CloseListener,
              CloseListenerAgain, Blank, Release, Exit, Crash, disc
<1>4. ASSUME NEW p \in Pids, StrangerStarts(p) \/ StrangerExits(p)
      PROVE  d \in excused => d \in excused'
  BY <1>4 DEF StrangerStarts, StrangerExits, disc
<1>5. ASSUME NEW s \in Stoppers, Stop(s) PROVE d \in excused => d \in excused'
  BY <1>5, LooksOnly DEF Stop, Looks, ValidateTry, ValidateClear, ValidateRelease, disc
<1> QED BY <1>1, <1>2, <1>3, <1>4, <1>5 DEF Next, Discover

\* A bus that gives way while a Discover waits leaves another one on its way: the flock it
\* found taken is held by a bus that starts or serves, the process it found alive is one.
Coming == \E b \in Buses : bus[b] \in Starting \cup {"serving"}
Steady == \A b \in Buses : bus[b] \notin Ending

LEMMA DaemonKeepsComing ==
  ASSUME SingletonAssumption, SingletonInv, NEW b \in Buses, Daemon(b) \/ Crash(b),
         NEW d \in Clients, d \notin excused', Steady
  PROVE  Steady' /\ (Coming => Coming')
<1> USE DEF SingletonInv, Steady, Coming, Starting, Ending, SingletonAssumption
<1>1. CASE TryLock(b)
  <2>1. CASE flock = None
    BY <1>1, <2>1 DEF TryLock, TypeOK
  <2>2. CASE flock # None
    <3>1. PICK h \in Buses : flock = h /\ h # b /\ bus[h] \in Starting \cup {"serving"}
      BY <1>1, <2>2 DEF TryLock, TypeOK, FlockIsHeld, Holding
    <3>2. bus'[h] = bus[h] /\ Steady'
      BY <1>1, <2>2, <3>1 DEF TryLock, Ends, TypeOK
    <3> QED BY <3>1, <3>2
  <2> QED BY <2>1, <2>2
<1>2. CASE Refuse(b)
  <2>1. PICK h \in Buses : h # b /\ who[body] = h
    BY <1>2 DEF Refuse
  <2>2. bus[h] \in Starting \cup {"serving"}
    BY <1>2, <2>1 DEF Refuse, Alive, RunsUnderPid, Live, TypeOK
  <2>3. bus'[h] = bus[h] /\ Steady'
    BY <1>2, <2>1 DEF Refuse, Ends, TypeOK
  <2> QED BY <2>2, <2>3
<1>3. CASE Clear(b) \/ WritePid(b) \/ Listen(b)
  BY <1>3 DEF Clear, WritePid, Listen, TypeOK
<1>4. CASE StartFails(b) \/ CloseListener(b) \/ Crash(b)
  BY <1>4 DEF StartFails, CloseListener, Crash
<1>5. CASE CloseListenerAgain(b) \/ Blank(b) \/ Release(b) \/ Exit(b)
  BY <1>5 DEF CloseListenerAgain, Blank, Release, Exit
<1> QED BY <1>1, <1>2, <1>3, <1>4, <1>5 DEF Daemon

LEMMA WaitingStep ==
  SingletonAssumption /\ SingletonInv /\ Next => SomeBusComes' /\ DiscoverConnects'
<1> SUFFICES ASSUME SingletonAssumption, SingletonInv, Next
             PROVE  SomeBusComes' /\ DiscoverConnects'
  OBVIOUS
<1> USE DEF SingletonInv, SomeBusComes, DiscoverConnects, Waiting
<1>1. ASSUME NEW b \in Buses, Daemon(b) \/ Crash(b) PROVE SomeBusComes' /\ DiscoverConnects'
  <2>1. client' = client
    BY <1>1 DEF Daemon, TryLock, Refuse, Clear, WritePid, StartFails, Listen, CloseListener,
                CloseListenerAgain, Blank, Release, Exit, Crash, disc
  <2> QED BY <1>1, <2>1, ExcusesStay, DaemonKeepsComing DEF Steady, Coming
<1>2. CASE UNCHANGED <<bus, client, excused>>
  BY <1>2
<1>3. ASSUME NEW c \in Clients, Awaits(c) PROVE SomeBusComes' /\ DiscoverConnects'
  <2>1. bus' = bus
    BY <1>3, AwaitsOnly DEF procs
  <2>2. ASSUME Begin(c) PROVE SomeBusComes' /\ DiscoverConnects'
    BY <2>1, <2>2 DEF Begin, TypeOK
  <2>3. ASSUME Dial(c) \/ AwaitReady(c) \/ Redial(c) PROVE SomeBusComes' /\ DiscoverConnects'
    BY <2>1, <2>3 DEF Dial, AwaitReady, Redial, TypeOK
  <2>4. ASSUME ReadyTimeout(c) PROVE SomeBusComes' /\ DiscoverConnects'
    BY <2>1, <2>4 DEF ReadyTimeout, TypeOK
  <2>5. ASSUME GiveUp(c) PROVE SomeBusComes' /\ DiscoverConnects'
    <3>1. c \in excused
      BY <2>5 DEF GiveUp, Up, PathLeadsToBus
    <3> QED BY <2>1, <2>5, <3>1 DEF GiveUp, TypeOK
  <2> QED BY <1>3, <2>2, <2>3, <2>4, <2>5 DEF Awaits
<1>4. ASSUME NEW c \in Clients, NEW b \in Buses, NEW p \in Pids, Spawn(c, b, p)
      PROVE  SomeBusComes' /\ DiscoverConnects'
  BY <1>4 DEF Spawn, TypeOK, Starting, Ending
<1>5. ASSUME NEW p \in Pids, StrangerStarts(p) \/ StrangerExits(p)
      PROVE  UNCHANGED <<bus, client, excused>>
  BY <1>5 DEF StrangerStarts, StrangerExits, disc
<1>6. ASSUME NEW s \in Stoppers, Stop(s) PROVE UNCHANGED <<bus, client, excused>>
  BY <1>6, LooksOnly DEF Stop, Looks, ValidateTry, ValidateClear, ValidateRelease, procs, disc
<1> QED BY <1>1, <1>2, <1>3, <1>4, <1>5, <1>6 DEF Next, Discover, Awaits

LEMMA SingletonStep == SingletonAssumption /\ SingletonInv /\ [Next]_vars => SingletonInv'
<1>1. CASE Next
  BY <1>1, TypeStep, PidStep, FlockStep, FilesStep, HandleStep, WaitingStep DEF SingletonInv
<1>2. CASE UNCHANGED vars
  BY <1>2 DEF vars, files, procs, disc, stop, SingletonInv, TypeOK, RunsUnderPid, FlockIsHeld,
              FileNamesOwner, PathLeadsToBus, HandleWasTarget, SomeBusComes, Waiting,
              StopMeansGone, DiscoverConnects
<1> QED BY <1>1, <1>2

LEMMA SingletonInit == SingletonAssumption /\ Init => SingletonInv
<1> SUFFICES ASSUME SingletonAssumption, Init PROVE SingletonInv
  OBVIOUS
<1> USE DEF SingletonAssumption, Init
<1>1. TypeOK
  BY DEF TypeOK, Starting
<1>2. RunsUnderPid /\ FlockIsHeld /\ FileNamesOwner /\ PathLeadsToBus
  BY DEF RunsUnderPid, FlockIsHeld, FileNamesOwner, PathLeadsToBus, Live, Holding, Starting, Ending
<1>3. HandleWasTarget /\ SomeBusComes /\ StopMeansGone /\ DiscoverConnects
  BY DEF HandleWasTarget, SomeBusComes, Waiting, StopMeansGone, DiscoverConnects
<1> QED BY <1>1, <1>2, <1>3 DEF SingletonInv

\* One bus per identity: the lock file, the socket path, the process table and the clients'
\* views of them agree, after any run of starts, stops, crashes and reused PIDs
\* (lockfile.go, discover.go, spawn.go, stop.go).
THEOREM SingletonInvariant == Spec => []SingletonInv
<1>1. SingletonAssumption
  BY SingletonAssumption
<1> QED BY <1>1, SingletonInit, SingletonStep, PTL DEF Spec

\* The serving bus holds the flock, is the one the file names and the one the path leads to:
\* two buses never serve one identity (lockfile.go:158-172, transport_unix.go:152-158).
THEOREM ServingIsReachableAlways == Spec => []ServingIsReachable
<1>1. SingletonInv => ServingIsReachable
  BY DEF SingletonInv, ServingIsReachable, FlockIsHeld, Holding, FileNamesOwner, PathLeadsToBus
<1> QED BY <1>1, SingletonInvariant, PTL

\* A Stop that reports success is right, though PIDs are reused: the bus it looked up has
\* exited (stop.go:67-69).
THEOREM StopMeansGoneAlways == Spec => []StopMeansGone
<1>1. SingletonInv => StopMeansGone
  BY DEF SingletonInv
<1> QED BY <1>1, SingletonInvariant, PTL

\* A Discover fails only over what excuses it, however many of them race to start the bus
\* (discover.go:66).
THEOREM DiscoverConnectsAlways == Spec => []DiscoverConnects
<1>1. SingletonInv => DiscoverConnects
  BY DEF SingletonInv
<1> QED BY <1>1, SingletonInvariant, PTL

-----------------------------------------------------------------------------
(* The download.  Content is of the version that the current credential    *)
(* leads to: a credential fetched later is taken only when it is of the    *)
(* version the command was told, so nothing that a worker has loaded or is *)
(* about to load is of another one, and neither is what a checkpoint of    *)
(* that version speaks of.                                                 *)

\* The commands are not interrupted: no Ctrl+C, and no kill between the two steps of
\* --no-resume or of the publication.
Uninterrupted == Faults \cap {"cancel", "kill_drop", "kill_publish"} = {}

Active == {"check", "creds", "fetch", "refresh", "mark"}

WorkerState == [pc: {"gone", "ready"} \cup Active, job: 0..N, cred: Nat, tries: Nat]

\* The types that DownloadTypeOK leaves open.
RestOfTypes ==
  /\ urls \in Seq(1..MaxVersion) /\ expired \in Nat
  /\ opts \in [overwrite: BOOLEAN, resume: BOOLEAN, version: 0..MaxVersion]
  /\ meta \in [fp: 0..MaxVersion, done: SUBSET Parts]
  /\ worker \in [Workers -> WorkerState] /\ todo \cap done = {}
  /\ \A w \in Workers :
       /\ worker[w].pc = "gone" => worker[w] = Gone
       /\ worker[w].pc \in Active => worker[w].job \in Parts
       /\ worker[w].pc \in {"fetch", "refresh"} => worker[w].cred \in 1..Len(urls)

\* Two workers never have one part.
JobsDiffer ==
  \A v, w \in Workers : worker[v].pc \in Active /\ worker[w].pc \in Active /\ worker[v].job = worker[w].job => v = w

\* Credentials of one command lead to the version it was told.
ToldVersion ==
  /\ at # "idle" => urls # <<>>
  /\ at = "idle" => opts = NoOpts
  /\ Reported /\ at # "idle" => opts.version \in 1..server /\ \A k \in DOMAIN urls : urls[k] = opts.version
  /\ ~Reported => opts.version = 0 /\ meta.fp = 0

\* The checkpoint speaks of no later version, nor of a file that is not there, and what it
\* says of the version at hand is true.
Newest == IF at = "idle" THEN server ELSE opts.version

CheckpointHolds ==
  /\ meta.fp # 0 => meta.fp <= Newest
  /\ part = Absent => meta.fp = 0 \/ at \in {"drop", "unlink", "clean"}
  /\ meta.fp # 0 /\ meta.fp = Newest /\ part # Absent => \A i \in meta.done : part[i] = meta.fp
  /\ Running /\ meta.fp # 0 /\ meta.fp = opts.version => meta.done \subseteq done
  /\ at \in {"open", "run", "wait", "publish"} /\ ~opts.resume => meta.fp = 0
  /\ at = "drop" => ~opts.resume

PartIsThere ==
  /\ Running \/ at = "publish" => part # Absent
  /\ linked => at = "unlink"

\* What is loaded is of the version that the current credential leads to, until that may
\* have changed.
Trusted == err = "none" \/ Reported

LoadedIsCurrent ==
  LET v == urls[Current]
  IN  /\ (Running /\ Trusted) \/ at = "publish" => \A i \in done : part[i] = v
      /\ Running /\ Trusted =>
           \A w \in Workers : /\ worker[w].pc = "mark" => part[worker[w].job] = v
                              /\ worker[w].pc = "fetch" => urls[worker[w].cred] = v

\* Until something has failed every part is loaded, waits, or is in somebody's hands.
NothingIsLost ==
  /\ Running /\ cancelled => err # "none"
  /\ Running /\ err = "none" =>
       \A i \in Parts \ (done \cup todo) : \E w \in Workers : worker[w].pc \in Active /\ worker[w].job = i
  /\ at = "wait" /\ err = "none" => todo = {}
  /\ at = "publish" => done = Parts
  /\ at = "run" /\ ~cancelled => \A w \in Workers : worker[w].pc # "gone"

DestinationIsWhole ==
  dest # Absent => \E v \in (1..MaxVersion) \cup {-1} : \A i \in Parts : dest[i] = v

DownloadInv ==
  /\ DownloadTypeOK /\ RestOfTypes /\ JobsDiffer /\ ToldVersion /\ CheckpointHolds /\ PartIsThere
  /\ LoadedIsCurrent /\ NothingIsLost /\ DestinationIsWhole /\ PublishedIsWhole

Context == DownloadAssumption /\ Uninterrupted /\ DownloadInv

LEMMA ContentFacts ==
  ASSUME DownloadAssumption
  PROVE  /\ 1 \in Parts /\ Parts # {}
         /\ Absent \notin [Parts -> -1..MaxVersion]
         /\ Empty \in [Parts -> -1..MaxVersion] /\ Foreign \in [Parts -> -1..MaxVersion]
         /\ \A i \in Parts : Empty[i] = 0 /\ Foreign[i] = -1
         /\ 1..MaxVersion \subseteq Nat /\ 1 \in 1..MaxVersion
<1> USE DEF DownloadAssumption, Parts
<1>1. 1 \in Parts
  OBVIOUS
<1>2. ASSUME Absent \in [Parts -> -1..MaxVersion] PROVE FALSE
  <2>1. DOMAIN Absent = Parts
    BY <1>2
  <2>2. DOMAIN Absent = {}
    BY DEF Absent
  <2> QED BY <1>1, <2>1, <2>2
<1>3. Empty \in [Parts -> -1..MaxVersion] /\ Foreign \in [Parts -> -1..MaxVersion]
  BY DEF Empty, Foreign, Hole
<1>4. \A i \in Parts : Empty[i] = 0 /\ Foreign[i] = -1
  BY DEF Empty, Foreign, Hole
<1>5. 1..MaxVersion \subseteq Nat /\ 1 \in 1..MaxVersion
  OBVIOUS
<1> QED BY <1>1, <1>2, <1>3, <1>4, <1>5

\* The states that a worker is moved to.
LEMMA WorkerStates ==
  ASSUME DownloadAssumption
  PROVE
  /\ Gone \in WorkerState /\ Ready \in WorkerState
  /\ Gone.pc = "gone" /\ Ready.pc = "ready"
<1> USE DEF WorkerState, Active, DownloadAssumption
<1>1. Gone \in WorkerState /\ Gone.pc = "gone"
  BY DEF Gone
<1>2. Ready = [pc |-> "ready", job |-> 0, cred |-> 0, tries |-> 0]
  BY DEF Gone, Ready
<1> QED BY <1>1, <1>2

Content == [Parts -> -1..MaxVersion]

\* What a write to the part file does, while the workers run.
LEMMA WriteIsLocal ==
  ASSUME Context, Running, NEW i \in Parts, NEW c \in -1..MaxVersion, Write(i, c)
  PROVE  /\ part' \in Content /\ part' # Absent
         /\ part'[i] = c /\ \A j \in Parts \ {i} : part'[j] = part[j]
         /\ dest' = dest
<1>1. part \in Content
  BY DEF Context, DownloadInv, PartIsThere, DownloadTypeOK, Contents, Content
<1>2. ~linked
  BY DEF Context, DownloadInv, PartIsThere, Running
<1>3. part' = [part EXCEPT ![i] = c] /\ dest' = dest
  BY <1>2 DEF Write
<1>4. part' \in Content
  BY <1>1, <1>3 DEF Content
<1>5. part' # Absent
  BY <1>4, ContentFacts DEF Context, Content
<1> QED BY <1>1, <1>3, <1>4, <1>5 DEF Content

\* What a move does.
LEMMA MoveIsLocal ==
  ASSUME Context, NEW w \in Workers, NEW s \in WorkerState, Move(w, s)
  PROVE  /\ worker' \in [Workers -> WorkerState] /\ worker'[w] = s
         /\ \A v \in Workers \ {w} : worker'[v] = worker[v]
  BY DEF Context, DownloadInv, RestOfTypes, Move

\* A worker that has a part and goes on with it.
GoesOn(w, pc) ==
  /\ worker[w].pc \in Active /\ worker'[w].pc = pc /\ worker'[w].job = worker[w].job

\* What becomes of a worker.
WorkerAction(w) ==
  \/ Dispatch(w) \/ Check(w) \/ TakeCreds(w) \/ Fetched(w) \/ FetchFails(w)
  \/ AskAgain(w) \/ Refresh(w) \/ Mark(w) \/ Leave(w)

Becomes(w) ==
  \/ worker'[w] = Gone
  \/ worker[w].pc = "mark" /\ worker'[w] = Ready
  \/ worker[w].pc = "ready" /\ worker'[w].pc = "check" /\ worker'[w].job \in todo
  \/ \E pc \in Active : GoesOn(w, pc)

LEMMA WorkerSteps ==
  ASSUME Context, NEW w \in Workers, WorkerAction(w)
  PROVE  /\ worker' \in [Workers -> WorkerState]
         /\ \A v \in Workers \ {w} : worker'[v] = worker[v]
         /\ Running /\ Becomes(w)
         /\ worker'[w].pc = "fetch" => worker'[w].cred = Current
         /\ worker'[w].pc = "refresh" => worker[w].pc = "fetch" /\ worker'[w].cred = worker[w].cred
         /\ worker'[w].pc = "mark" => Fetched(w)
<1> DEFINE x == worker[w]
<1>t. x \in WorkerState /\ worker \in [Workers -> WorkerState]
  BY DEF Context, DownloadInv, RestOfTypes
<1>c. Current \in Nat
  BY DEF Context, DownloadInv, RestOfTypes, Current
<1>s. /\ Gone \in WorkerState /\ Ready \in WorkerState
      /\ Gone.pc = "gone" /\ Ready.pc = "ready"
  BY WorkerStates DEF Context
<1>g. ASSUME NEW pc \in Active
      PROVE /\ [x EXCEPT !.pc = pc] \in WorkerState
            /\ [x EXCEPT !.pc = pc].pc = pc /\ [x EXCEPT !.pc = pc].job = x.job
            /\ [x EXCEPT !.pc = pc].cred = x.cred
  BY <1>t DEF WorkerState
<1>m. ASSUME NEW pc \in Active, Move(w, [x EXCEPT !.pc = pc]), x.pc \in Active, Running,
             pc \notin {"fetch", "refresh"}, pc = "mark" => Fetched(w)
      PROVE /\ worker' \in [Workers -> WorkerState]
            /\ \A v \in Workers \ {w} : worker'[v] = worker[v]
            /\ Running /\ Becomes(w)
            /\ worker'[w].pc = pc
  <2>1. worker' = [worker EXCEPT ![w] = [x EXCEPT !.pc = pc]]
    BY <1>m DEF Move
  <2>2. worker'[w] = [x EXCEPT !.pc = pc]
    BY <2>1, <1>t
  <2>3. GoesOn(w, pc)
    BY <2>2, <1>g, <1>m DEF GoesOn
  <2>4. worker' \in [Workers -> WorkerState]
    BY <2>1, <1>t, <1>g
  <2>5. \A v \in Workers \ {w} : worker'[v] = worker[v]
    BY <2>1, <1>t
  <2> QED BY <2>2, <2>3, <2>4, <2>5, <1>g, <1>m DEF Becomes
<1>n. ASSUME NEW s \in {Gone, Ready}, Move(w, s), Running, s = Ready => x.pc = "mark"
      PROVE /\ worker' \in [Workers -> WorkerState]
            /\ \A v \in Workers \ {w} : worker'[v] = worker[v]
            /\ Running /\ Becomes(w)
            /\ worker'[w].pc \notin {"fetch", "refresh", "mark"}
  <2>1. worker' = [worker EXCEPT ![w] = s]
    BY <1>n DEF Move
  <2>2. worker'[w] = s /\ s \in WorkerState
    BY <2>1, <1>t, <1>s, <1>n
  <2>4. worker' \in [Workers -> WorkerState]
    BY <2>1, <2>2, <1>t
  <2>5. \A v \in Workers \ {w} : worker'[v] = worker[v]
    BY <2>1, <1>t
  <2> QED BY <2>2, <2>4, <2>5, <1>n, <1>s DEF Becomes
<1>1. CASE Dispatch(w)
  <2>1. PICK i \in todo : worker' = [worker EXCEPT ![w] = [Ready EXCEPT !.pc = "check", !.job = i]]
    BY <1>1 DEF Dispatch
  <2>2. i \in Parts
    BY DEF Context, DownloadInv, DownloadTypeOK
  <2> DEFINE y == [Ready EXCEPT !.pc = "check"]
             z == [y EXCEPT !.job = i]
  <2>a. y \in WorkerState /\ y.pc = "check"
    BY <1>s DEF WorkerState, Active
  <2>b. i \in 0..N
    BY <2>2 DEF Parts, Context, DownloadAssumption
  <2>3. [Ready EXCEPT !.pc = "check", !.job = i] = z
    BY <1>s DEF WorkerState
  <2> HIDE DEF y
  <2>4. z \in WorkerState /\ z.pc = "check" /\ z.job = i
    BY <2>a, <2>b DEF WorkerState
  <2> HIDE DEF z
  <2>5. worker'[w] = z
    BY <2>1, <2>3, <1>t
  <2>6. worker'[w].pc = "check" /\ worker'[w].job = i
    BY <2>5, <2>4
  <2>7. worker' \in [Workers -> WorkerState] /\ \A v \in Workers \ {w} : worker'[v] = worker[v]
    BY <2>1, <2>3, <2>4, <1>t
  <2>8. Running /\ x.pc = "ready"
    BY <1>1 DEF Dispatch, Running
  <2> QED BY <2>6, <2>7, <2>8 DEF Becomes
<1>2. CASE Check(w)
  <2>1. Running /\ x.pc \in Active /\ (Move(w, Gone) \/ Move(w, [x EXCEPT !.pc = "creds"]))
    BY <1>2 DEF Check, In, Active
  <2> QED BY <2>1, <1>m, <1>n, <1>s DEF Active
<1>3. CASE TakeCreds(w)
  <2> DEFINE y == [x EXCEPT !.pc = "fetch"]
             z == [y EXCEPT !.cred = Current]
  <2>1. y \in WorkerState /\ y.pc = "fetch" /\ y.job = x.job
    BY <1>g DEF Active
  <2>2. [x EXCEPT !.pc = "fetch", !.cred = Current] = z
    BY <1>t DEF WorkerState
  <2> HIDE DEF y
  <2>3. z \in WorkerState /\ z.pc = "fetch" /\ z.job = x.job /\ z.cred = Current
    BY <2>1, <1>c DEF WorkerState
  <2>4. worker' = [worker EXCEPT ![w] = z] /\ Running /\ x.pc = "creds"
    BY <1>3, <2>2 DEF TakeCreds, Move, In
  <2> HIDE DEF z
  <2>5. worker'[w] = z /\ worker' \in [Workers -> WorkerState]
    BY <2>3, <2>4, <1>t
  <2>6. \A v \in Workers \ {w} : worker'[v] = worker[v]
    BY <2>4, <1>t
  <2>7. GoesOn(w, "fetch")
    BY <2>3, <2>4, <2>5 DEF GoesOn, Active
  <2> QED BY <2>3, <2>4, <2>5, <2>6, <2>7 DEF Becomes, Active
<1>4. CASE Fetched(w)
  <2>1. Running /\ x.pc \in Active /\ Move(w, [x EXCEPT !.pc = "mark"])
    BY <1>4 DEF Fetched, In, Active
  <2> QED BY <2>1, <1>m, <1>4 DEF Active
<1>5. CASE FetchFails(w)
  <2>1. Running /\ x.pc \in Active /\ (Move(w, Gone) \/ Move(w, [x EXCEPT !.pc = "creds"]))
    BY <1>5 DEF FetchFails, Fail, In, Active
  <2> QED BY <2>1, <1>m, <1>n, <1>s DEF Active
<1>6. CASE AskAgain(w)
  <2> DEFINE y == [x EXCEPT !.pc = "refresh"]
             z == [y EXCEPT !.tries = x.tries + 1]
  <2>1. y \in WorkerState /\ y.pc = "refresh" /\ y.job = x.job /\ y.cred = x.cred
    BY <1>g DEF Active
  <2>2. [x EXCEPT !.pc = "refresh", !.tries = @ + 1] = z
    BY <1>t DEF WorkerState
  <2>a. x.tries + 1 \in Nat
    BY <1>t DEF WorkerState
  <2> HIDE DEF y
  <2>3. z \in WorkerState /\ z.pc = "refresh" /\ z.job = x.job /\ z.cred = x.cred
    BY <2>1, <2>a DEF WorkerState
  <2>4. worker' = [worker EXCEPT ![w] = z] /\ Running /\ x.pc = "fetch"
    BY <1>6, <2>2 DEF AskAgain, Move, In
  <2> HIDE DEF z
  <2>5. worker'[w] = z /\ worker' \in [Workers -> WorkerState]
    BY <2>3, <2>4, <1>t
  <2>6. \A v \in Workers \ {w} : worker'[v] = worker[v]
    BY <2>4, <1>t
  <2>7. GoesOn(w, "refresh")
    BY <2>3, <2>4, <2>5 DEF GoesOn, Active
  <2> QED BY <2>3, <2>4, <2>5, <2>6, <2>7 DEF Becomes, Active
<1>7. CASE Refresh(w)
  <2>1. Running /\ x.pc \in Active /\ (Move(w, Gone) \/ Move(w, [x EXCEPT !.pc = "creds"]))
    BY <1>7 DEF Refresh, Fail, In, Active
  <2> QED BY <2>1, <1>m, <1>n, <1>s DEF Active
<1>8. CASE Mark(w)
  <2>1. Running /\ x.pc = "mark" /\ (Move(w, Gone) \/ Move(w, Ready))
    BY <1>8 DEF Mark, Fail, In
  <2> QED BY <2>1, <1>n
<1>9. CASE Leave(w)
  <2>1. Running /\ Move(w, Gone)
    BY <1>9 DEF Leave, Running
  <2> QED BY <2>1, <1>n, <1>s
<1> QED BY <1>1, <1>2, <1>3, <1>4, <1>5, <1>6, <1>7, <1>8, <1>9 DEF WorkerAction

\* The steps by what they do to the workers.
Quiet ==
  /\ UNCHANGED <<worker, done, todo>>
  /\ Running' => Running
  /\ Running => urls' = urls
  /\ Running /\ ~Running' => Joined

LEMMA StepKinds ==
  ASSUME Context, DownloadNext
  PROVE  (\E w \in Workers : WorkerAction(w)) \/ Open \/ EndCommand \/ Quiet
<1> USE DEF Goto, Quiet, Running, onDisk, command
<1>1. CASE BeginCommand \/ Probed \/ ProbeAgain \/ TakeLock \/ DropPart \/ DropMeta
  BY <1>1 DEF BeginCommand, Probed, ProbeAgain, TakeLock, DropPart, DropMeta
<1>2. CASE ProbeFails \/ IsLocked \/ ReleaseLock \/ Kill
  BY <1>2 DEF ProbeFails, IsLocked, ReleaseLock, Kill
<1>3. CASE CloseJobs \/ Finish \/ Abandon
  BY <1>3 DEF CloseJobs, Finish, Abandon
<1>4. CASE Publish \/ Unlink \/ CleanUp
  BY <1>4 DEF Publish, Unlink, CleanUp
<1>5. CASE Interrupt \/ RemoveLock \/ Overwritten \/ Expire \/ Others
  BY <1>5 DEF Interrupt, RemoveLock, Overwritten, Expire, Others
<1>6. CASE \E w \in Workers : WorkerAction(w)
  BY <1>6
<1> QED BY <1>1, <1>2, <1>3, <1>4, <1>5, <1>6 DEF DownloadNext, WorkerAction

\* Of a running command the credentials only grow, and everything but the workers' own
\* variables stays.
LEMMA WorkerFrame ==
  ASSUME Context, NEW w \in Workers, WorkerAction(w)
  PROVE  /\ UNCHANGED <<server, linked, locked, at, opts, expired, runs>>
         /\ urls' = urls \/ (worker[w].pc = "refresh" /\ worker'[w].pc # "mark" /\ urls' = Append(urls, server))
         /\ done' = done \/ (worker[w].pc = "mark" /\ worker'[w].pc \notin Active /\ done' = done \cup {worker[w].job})
         /\ IF worker[w].pc = "ready" /\ worker'[w].pc = "check"
            THEN worker'[w].job \in todo /\ todo' = todo \ {worker'[w].job}
            ELSE todo' = todo
         /\ dest' = dest
         /\ part' = part \/ (part' \in Content /\ worker[w].pc = "fetch" /\ \A j \in Parts \ {worker[w].job} : part'[j] = part[j])
         /\ meta' = meta \/ (worker[w].pc = "mark" /\ opts.resume /\ meta' = [fp |-> opts.version, done |-> done'])
<1> USE DEF WorkerAction, In, onDisk
<1> DEFINE x == worker[w]
<1>t. x \in WorkerState /\ Running /\ (x.pc \in Active => x.job \in Parts)
  BY WorkerSteps DEF Context, DownloadInv, RestOfTypes
<1>w. ASSUME NEW c \in -1..MaxVersion, x.pc = "fetch", Write(x.job, c)
      PROVE /\ dest' = dest /\ part' \in Content
            /\ \A j \in Parts \ {x.job} : part'[j] = part[j]
  BY <1>t, <1>w, WriteIsLocal DEF Active
<1>0. 0 \in -1..MaxVersion
  BY DEF Context, DownloadAssumption
<1>1. CASE Dispatch(w)
  <2>1. PICK i \in todo : /\ todo' = todo \ {i}
                          /\ worker' = [worker EXCEPT ![w] = [Ready EXCEPT !.pc = "check", !.job = i]]
    BY <1>1 DEF Dispatch
  <2>2. x.pc = "ready" /\ UNCHANGED <<server, onDisk, at, opts, urls, expired, done, cancelled, err, runs>>
    BY <1>1 DEF Dispatch
  <2>3. worker'[w] = [Ready EXCEPT !.pc = "check", !.job = i]
    BY <2>1 DEF Context, DownloadInv, RestOfTypes
  <2>4. Ready \in WorkerState
    BY WorkerStates DEF Context
  <2>5. worker'[w].job = i /\ worker'[w].pc = "check"
    BY <2>3, <2>4 DEF WorkerState
  <2> QED BY <2>1, <2>2, <2>5
<1>2. CASE Check(w) \/ TakeCreds(w) \/ AskAgain(w)
  BY <1>2 DEF Check, TakeCreds, AskAgain
<1>3. CASE Leave(w)
  <2>1. worker'[w].pc = "gone"
    BY <1>3, WorkerStates DEF Leave, Move, Context, DownloadInv, RestOfTypes
  <2> QED BY <1>3, <2>1 DEF Leave
<1>4. CASE Fetched(w)
  <2>1. x.pc = "fetch" /\ x.cred \in 1..Len(urls)
    BY <1>4 DEF Fetched, Context, DownloadInv, RestOfTypes
  <2>2. urls[x.cred] \in -1..MaxVersion
    BY <2>1 DEF Context, DownloadInv, RestOfTypes, DownloadAssumption
  <2>3. Write(x.job, urls[x.cred])
    BY <1>4 DEF Fetched
  <2> QED BY <1>4, <2>1, <2>2, <2>3, <1>w DEF Fetched
<1>5. CASE FetchFails(w)
  <2>1. x.pc = "fetch" /\ (Untouched \/ Write(x.job, 0))
    BY <1>5 DEF FetchFails, Hole
  <2>2. UNCHANGED <<server, linked, meta, locked, at, opts, urls, expired, done, todo, runs>>
    BY <1>5 DEF FetchFails
  <2> QED BY <2>1, <2>2, <1>w, <1>0 DEF Untouched
<1>7. CASE Refresh(w)
  <2>1. x.pc = "refresh" /\ (urls' = urls \/ urls' = Append(urls, server))
    BY <1>7 DEF Refresh
  <2>2. worker'[w].pc # "mark"
    BY <1>7, WorkerSteps DEF Refresh, Fetched
  <2> QED BY <1>7, <2>1, <2>2 DEF Refresh
<1>8. CASE Mark(w)
  <2>1. worker'[w] \in {Gone, Ready}
    BY <1>8 DEF Mark, Fail, Move, Context, DownloadInv, RestOfTypes
  <2>2. worker'[w].pc \notin Active
    BY <2>1, WorkerStates DEF Active, Context
  <2> QED BY <1>8, <2>2 DEF Mark
<1>9. QED BY <1>1, <1>2, <1>3, <1>4, <1>5, <1>7, <1>8

LEMMA OneMore ==
  ASSUME Context
  PROVE  /\ Append(urls, server) \in Seq(1..MaxVersion)
         /\ Len(Append(urls, server)) = Len(urls) + 1 /\ Len(urls) \in Nat
         /\ \A k \in 1..Len(urls) : Append(urls, server)[k] = urls[k]
         /\ Append(urls, server)[Len(urls) + 1] = server
         /\ urls # <<>> => Len(urls) \in 1..Len(urls)
  BY DEF Context, DownloadInv, RestOfTypes, DownloadTypeOK

\* The types of the workers.
WorkersOK ==
  /\ worker \in [Workers -> WorkerState] /\ todo \cap done = {} /\ todo \subseteq Parts
  /\ \A w \in Workers :
       /\ worker[w].pc = "gone" => worker[w] = Gone
       /\ worker[w].pc \in Active => worker[w].job \in Parts /\ worker[w].job \notin todo \cup done
       /\ worker[w].pc \in {"fetch", "refresh"} => worker[w].cred \in 1..Len(urls)
       /\ ~Running => worker[w] = Gone
  /\ JobsDiffer

LEMMA WorkersStep ==
  ASSUME Context, DownloadNext
  PROVE  WorkersOK'
<1>i. WorkersOK
  BY DEF Context, DownloadInv, DownloadTypeOK, RestOfTypes, WorkersOK, Running, Active
<1>g. /\ Gone \in WorkerState /\ Ready \in WorkerState
      /\ Gone.pc = "gone" /\ Ready.pc = "ready"
  BY WorkerStates DEF Context
<1>1. ASSUME NEW w \in Workers, WorkerAction(w) PROVE WorkersOK'
  <2>1. /\ worker' \in [Workers -> WorkerState]
        /\ \A v \in Workers \ {w} : worker'[v] = worker[v]
        /\ Running /\ Becomes(w)
        /\ worker'[w].pc = "fetch" => worker'[w].cred = Current
        /\ worker'[w].pc = "refresh" => worker[w].pc = "fetch" /\ worker'[w].cred = worker[w].cred
    BY <1>1, WorkerSteps
  <2>2. /\ Running'
        /\ urls' = urls \/ urls' = Append(urls, server)
        /\ done' = done \/ (worker[w].pc = "mark" /\ worker'[w].pc \notin Active /\ done' = done \cup {worker[w].job})
        /\ IF worker[w].pc = "ready" /\ worker'[w].pc = "check"
            THEN worker'[w].job \in todo /\ todo' = todo \ {worker'[w].job}
            ELSE todo' = todo
    BY <1>1, <2>1, WorkerFrame DEF Running
  <2>3. /\ \A k \in 1..Len(urls) : k \in 1..Len(urls')
        /\ todo' \subseteq todo
    BY <2>2, OneMore
  <2>4. worker[w].pc \in Active => worker[w].job \in Parts /\ worker[w].job \notin todo \cup done
    BY <1>i DEF WorkersOK
  <2>5. todo' \cap done' = {} /\ todo' \subseteq Parts
    BY <2>2, <2>3, <2>4, <1>i DEF WorkersOK, Active
  <2>6. ASSUME NEW v \in Workers
        PROVE  /\ worker'[v].pc = "gone" => worker'[v] = Gone
               /\ worker'[v].pc \in Active => worker'[v].job \in Parts /\ worker'[v].job \notin todo' \cup done'
               /\ worker'[v].pc \in {"fetch", "refresh"} => worker'[v].cred \in 1..Len(urls')
    <3>1. CASE v # w
      <4>1. worker'[v] = worker[v]
        BY <2>1, <3>1
      <4>2. worker[v].pc \in Active => worker[v].job \notin todo' \cup done'
        BY <2>2, <2>3, <3>1, <1>i DEF WorkersOK, JobsDiffer, Active
      <4> QED BY <4>1, <4>2, <2>3, <1>i DEF WorkersOK
    <3>2. CASE v = w
      <4>1. worker'[w].pc = "gone" => worker'[w] = Gone
        BY <2>1, <1>g DEF Becomes, GoesOn, Active
      <4>2. worker'[w].pc \in Active => worker'[w].job \in Parts /\ worker'[w].job \notin todo' \cup done'
        <5>1. CASE worker[w].pc = "ready" /\ worker'[w].pc = "check"
          BY <5>1, <2>2, <1>i DEF WorkersOK
        <5>2. CASE \E pc \in Active : GoesOn(w, pc)
          BY <5>2, <2>2, <2>3, <2>4 DEF GoesOn
        <5> QED BY <5>1, <5>2, <2>1, <1>g DEF Becomes, Active
      <4>3. worker'[w].pc = "fetch" => worker'[w].cred \in 1..Len(urls')
        <5>1. CASE worker'[w].pc = "fetch"
          <6>1. Current \in 1..Len(urls)
            <7>1. urls # <<>>
              BY <2>1 DEF Context, DownloadInv, ToldVersion, Running
            <7> QED BY <7>1, OneMore DEF Current
          <6> QED BY <6>1, <2>1, <2>3
        <5> QED BY <5>1
      <4>4. worker'[w].pc = "refresh" => worker'[w].cred \in 1..Len(urls')
        BY <2>1, <2>3, <1>i DEF WorkersOK
      <4> QED BY <3>2, <4>1, <4>2, <4>3, <4>4
    <3> QED BY <3>1, <3>2
  <2>7. JobsDiffer'
    <3>1. worker'[w].pc \in Active =>
            (worker'[w].job \in todo \/ (worker[w].pc \in Active /\ worker'[w].job = worker[w].job))
      BY <2>1, <1>g DEF Becomes, GoesOn, Active
    <3>2. \A v \in Workers \ {w} : worker'[v].pc \in Active /\ worker'[w].pc \in Active => worker'[v].job # worker'[w].job
      BY <3>1, <2>1, <1>i DEF WorkersOK, JobsDiffer
    <3> QED BY <3>2, <2>1, <1>i DEF WorkersOK, JobsDiffer
  <2> QED BY <2>1, <2>2, <2>5, <2>6, <2>7 DEF WorkersOK
<1>2. CASE Open
  <2>1. worker' = [w \in Workers |-> Ready]
    BY <1>2 DEF Open
  <2>2. Running'
    BY <1>2 DEF Open, Goto, Running
  <2>3. todo' \cap done' = {} /\ todo' \subseteq Parts
    BY <1>2 DEF Open
  <2> QED BY <2>1, <2>2, <2>3, <1>g DEF WorkersOK, JobsDiffer, Active
<1>3. CASE EndCommand
  <2>1. worker' = [w \in Workers |-> Gone]
    BY <1>3 DEF EndCommand, AllGone
  <2>2. todo' \cap done' = {} /\ todo' \subseteq Parts
    BY <1>3 DEF EndCommand
  <2> QED BY <2>1, <2>2, <1>g DEF WorkersOK, JobsDiffer, Active
<1>4. CASE Quiet
  <2>1. \A w \in Workers : ~Running' => worker[w] = Gone
    BY <1>4, <1>i DEF Quiet, WorkersOK, Joined
  <2>2. \A w \in Workers : worker[w].pc # "gone" => urls' = urls
    BY <1>4, <1>i, <1>g DEF Quiet, WorkersOK
  <2> QED BY <1>4, <1>i, <2>1, <2>2, <1>g DEF Quiet, WorkersOK, JobsDiffer, Active
<1> QED BY <1>1, <1>2, <1>3, <1>4, StepKinds

\* The types of the rest.
Basics ==
  /\ server \in 1..MaxVersion
  /\ dest \in Contents /\ part \in Contents /\ (linked \in BOOLEAN /\ (linked => dest = part))
  /\ meta \in [fp: 0..MaxVersion, done: SUBSET Parts]
  /\ locked \in BOOLEAN
  /\ at \in {"idle", "probe", "lock", "drop", "open", "run", "wait", "publish", "unlink", "clean", "release"}
  /\ opts \in [overwrite: BOOLEAN, resume: BOOLEAN, version: 0..MaxVersion]
  /\ urls \in Seq(1..MaxVersion) /\ expired \in 0..Len(urls)
  /\ done \subseteq Parts /\ todo \subseteq Parts
  /\ cancelled \in BOOLEAN /\ err \in {"none", "failed", "unknown"}

LEMMA BasicsStep ==
  ASSUME Context, DownloadNext
  PROVE  Basics'
<1>i. Basics
  BY DEF Context, DownloadInv, DownloadTypeOK, RestOfTypes, Basics
<1>c. /\ Absent \in Contents /\ Foreign \in Contents /\ Empty \in Contents
      /\ \A c \in Content : c \in Contents
  BY ContentFacts DEF Contents, Content, Context
<1>u. /\ urls \in Seq(1..MaxVersion) /\ Len(urls) \in Nat /\ expired \in 0..Len(urls)
      /\ Append(urls, server) \in Seq(1..MaxVersion)
      /\ Len(Append(urls, server)) = Len(urls) + 1
  BY <1>i, OneMore DEF Basics
<1>p. linked => at = "unlink"
  BY DEF Context, DownloadInv, PartIsThere
<1>e. ASSUME EndCommand, UNCHANGED <<server, linked, meta>>, locked' \in BOOLEAN,
             dest' \in Contents, part' \in Contents, linked => dest' = part'
      PROVE Basics'
  <2>1. 0 \in 0..MaxVersion /\ <<>> \in Seq(1..MaxVersion) /\ Len(<<>>) = 0
    BY DEF Context, DownloadAssumption
  <2>2. opts' = NoOpts /\ NoOpts \in [overwrite: BOOLEAN, resume: BOOLEAN, version: 0..MaxVersion]
    BY <1>e, <2>1 DEF EndCommand, NoOpts
  <2>3. urls' = <<>> /\ expired' = 0 /\ done' = {} /\ todo' = {} /\ cancelled' = FALSE /\ err' = "none" /\ at' = "idle"
    BY <1>e DEF EndCommand
  <2>4. expired' \in 0..Len(urls')
    BY <2>1, <2>3
  <2> QED BY <1>i, <1>e, <2>1, <2>2, <2>3, <2>4 DEF Basics
<1>1. ASSUME NEW w \in Workers, WorkerAction(w) PROVE Basics'
  <2>1. /\ UNCHANGED <<server, linked, locked, at, opts, expired, runs>>
        /\ urls' = urls \/ urls' = Append(urls, server)
        /\ done' = done \/ (worker[w].pc = "mark" /\ done' = done \cup {worker[w].job})
        /\ todo' \subseteq todo
        /\ dest' = dest
        /\ part' = part \/ part' \in Content
        /\ meta' = meta \/ meta' = [fp |-> opts.version, done |-> done']
    BY <1>1, WorkerFrame
  <2>2. worker[w].pc = "mark" => worker[w].job \in Parts
    BY DEF Context, DownloadInv, RestOfTypes, Active
  <2>3. done' \subseteq Parts /\ todo' \subseteq Parts
    BY <2>1, <2>2, <1>i DEF Basics
  <2>4. meta' \in [fp: 0..MaxVersion, done: SUBSET Parts]
    BY <2>1, <2>3, <1>i DEF Basics
  <2>5. urls' \in Seq(1..MaxVersion) /\ expired' \in 0..Len(urls')
    <3>1. expired \in 0..Len(urls) /\ expired \in 0..(Len(urls) + 1)
      BY <1>u
    <3> QED BY <2>1, <3>1, <1>u
  <2>6. cancelled' \in BOOLEAN /\ err' \in {"none", "failed", "unknown"}
    BY <1>1, <1>i DEF WorkerAction, Dispatch, Check, TakeCreds, Fetched, FetchFails, Fail, AskAgain,
          Refresh, Mark, Leave, Basics
  <2>7. part' \in Contents /\ ~linked'
    BY <1>1, <2>1, <1>i, <1>c, <1>p, WorkerSteps DEF Basics, Running
  <2> QED BY <2>1, <2>3, <2>4, <2>5, <2>6, <2>7, <1>i DEF Basics
<1>2. CASE BeginCommand
  <2>1. server \in 0..MaxVersion /\ 0 \in 0..MaxVersion
    BY <1>i DEF Basics, Context, DownloadAssumption
  <2>2. opts' \in [overwrite: BOOLEAN, resume: BOOLEAN, version: 0..MaxVersion]
    BY <1>2, <2>1 DEF BeginCommand
  <2>3. urls' = <<server>> /\ expired' = 0 /\ <<server>> \in Seq(1..MaxVersion) /\ Len(<<server>>) = 1
    BY <1>2, <1>i DEF BeginCommand, Basics
  <2>4. expired' \in 0..Len(urls')
    BY <2>3
  <2> QED BY <1>2, <1>i, <2>2, <2>3, <2>4 DEF BeginCommand, Goto, onDisk, Basics
<1>3. CASE Probed
  BY <1>3, <1>i DEF Probed, Goto, onDisk, command, Basics
<1>4. CASE ProbeAgain
  <2>1. expired \in 0..(Len(urls) + 1)
    BY <1>u
  <2> QED BY <1>4, <1>i, <1>u, <2>1 DEF ProbeAgain, onDisk, Basics
<1>5. CASE ProbeFails \/ IsLocked \/ ReleaseLock
  BY <1>5, <1>e, <1>i DEF ProbeFails, IsLocked, ReleaseLock, onDisk, Basics
<1>6. CASE TakeLock
  BY <1>6, <1>i DEF TakeLock, Goto, command, Basics
<1>7. CASE DropPart
  BY <1>7, <1>i, <1>c DEF DropPart, command, Basics
<1>8. CASE DropMeta
  BY <1>8, <1>i DEF DropMeta, Goto, command, Basics, NoMeta, Context, DownloadAssumption
<1>9. CASE Open
  <2>1. done' \subseteq Parts /\ todo' \subseteq Parts
    BY <1>9, <1>i DEF Open, Basics
  <2>2. part' \in Contents /\ (linked => dest = part')
    BY <1>9, <1>i, <1>c, <1>p DEF Open, Goto, Basics
  <2> QED BY <1>9, <1>i, <2>1, <2>2 DEF Open, Goto, Basics
<1>10. CASE CloseJobs \/ Finish
  BY <1>10, <1>i DEF CloseJobs, Finish, Goto, onDisk, command, Basics
<1>11. CASE Abandon
  <2>1. NoMeta \in [fp: 0..MaxVersion, done: SUBSET Parts]
    BY DEF NoMeta, Context, DownloadAssumption
  <2>2. meta' \in [fp: 0..MaxVersion, done: SUBSET Parts]
    BY <1>11, <2>1, <1>i DEF Abandon, Basics
  <2>3. part' \in Contents /\ (linked' \in BOOLEAN /\ (linked' => dest' = part'))
    BY <1>11, <1>i, <1>c DEF Abandon, Basics
  <2> QED BY <1>11, <1>i, <2>2, <2>3 DEF Abandon, Goto, command, Basics
<1>12. CASE Publish
  <2>1. dest' \in Contents /\ part' \in Contents /\ (linked' \in BOOLEAN /\ (linked' => dest' = part'))
    <3>1. linked = FALSE /\ part \in Contents /\ dest \in Contents
      BY <1>12, <1>i, <1>p DEF Publish, Basics
    <3>2. CASE dest' = part /\ part' = Absent /\ UNCHANGED linked
      BY <3>1, <3>2, <1>c
    <3>3. CASE dest' = part /\ linked' = TRUE /\ UNCHANGED part
      BY <3>1, <3>3, <1>c
    <3>4. CASE UNCHANGED <<dest, part, linked>>
      BY <3>1, <3>4
    <3> QED BY <1>12, <3>1, <3>2, <3>3, <3>4 DEF Publish
  <2>2. at' \in {"clean", "unlink", "release"} /\ UNCHANGED <<server, meta, locked, command>>
    BY <1>12 DEF Publish
  <2> QED BY <1>i, <2>1, <2>2 DEF command, Basics
<1>13. CASE Unlink
  BY <1>13, <1>i, <1>c DEF Unlink, Goto, command, Basics
<1>14. CASE CleanUp
  BY <1>14, <1>i DEF CleanUp, Goto, command, Basics, NoMeta, Context, DownloadAssumption
<1>15. CASE Interrupt
  BY <1>15, <1>i DEF Interrupt, onDisk, Basics
<1>16. CASE Kill
  <2>1. CASE Untouched
    BY <2>1, <1>16, <1>e, <1>i DEF Kill, Untouched, Basics
  <2>2. CASE \E w \in Workers : worker[w].pc = "fetch" /\ Write(worker[w].job, Hole)
    <3>1. PICK w \in Workers : worker[w].pc = "fetch" /\ Write(worker[w].job, Hole)
      BY <2>2
    <3>2. Running /\ worker[w].job \in Parts
      BY <3>1, WorkerStates DEF Context, DownloadInv, DownloadTypeOK, RestOfTypes, Running, Active
    <3>3. Hole \in -1..MaxVersion
      BY DEF Hole, Context, DownloadAssumption
    <3>4. part' \in Content /\ dest' = dest
      BY <3>1, <3>2, <3>3, WriteIsLocal
    <3>5. ~linked
      BY <3>2, <1>p DEF Running
    <3> QED BY <3>4, <3>5, <1>16, <1>e, <1>i, <1>c DEF Kill, Basics
  <2> QED BY <2>1, <2>2, <1>16 DEF Kill
<1>17. CASE RemoveLock
  BY <1>17, <1>i DEF RemoveLock, command, Basics
<1>18. CASE Overwritten
  <2>1. server' \in 1..MaxVersion
    BY <1>18, <1>i DEF Overwritten, Basics, Context, DownloadAssumption
  <2> QED BY <1>18, <1>i, <2>1 DEF Overwritten, onDisk, command, Basics
<1>19. CASE Expire
  <2>1. expired' \in 0..Len(urls)
    BY <1>19, <1>u DEF Expire, Current
  <2> QED BY <1>19, <1>i, <2>1 DEF Expire, onDisk, Basics
<1>20. CASE Others
  BY <1>20, <1>i, <1>c DEF Others, command, Basics
<1> QED BY <1>1, <1>2, <1>3, <1>4, <1>5, <1>6, <1>7, <1>8, <1>9, <1>10, <1>11, <1>12, <1>13,
           <1>14, <1>15, <1>16, <1>17, <1>18, <1>19, <1>20 DEF DownloadNext, WorkerAction

\* What a worker says of the end of its work.
LEMMA WorkerTells ==
  ASSUME Context, NEW w \in Workers, WorkerAction(w)
  PROVE  /\ (err' = "none" => err = "none") /\ (cancelled => cancelled')
         /\ cancelled' /\ ~cancelled => err' # "none"
         /\ urls' # urls => IF Reported THEN server = opts.version ELSE err' # "none"
         /\ worker'[w].pc = "gone" => cancelled' \/ (at = "wait" /\ worker[w].pc = "ready")
         /\ worker[w].pc \in Active /\ worker'[w].pc \notin Active =>
              cancelled \/ err' # "none" \/ done' = done \cup {worker[w].job}
         /\ worker[w].pc = "ready" /\ worker'[w].pc = "check" => at = "run"
<1> USE DEF WorkerAction
<1> DEFINE x == worker[w]
<1>t. x \in WorkerState /\ worker \in [Workers -> WorkerState] /\ err \in {"none", "failed", "unknown"}
      /\ cancelled \in BOOLEAN
  BY DEF Context, DownloadInv, RestOfTypes, DownloadTypeOK
<1>s. /\ Gone \in WorkerState /\ Ready \in WorkerState
      /\ Gone.pc = "gone" /\ Ready.pc = "ready"
  BY WorkerStates DEF Context
<1>a. /\ "gone" \notin Active /\ "ready" \notin Active /\ "check" \in Active
      /\ "creds" \in Active /\ "refresh" \in Active /\ "mark" \in Active
  BY DEF Active
<1>m. ASSUME NEW pc \in Active, Move(w, [x EXCEPT !.pc = pc]) PROVE worker'[w].pc = pc
  BY <1>m, <1>t DEF Move, WorkerState
<1>n. ASSUME NEW s, Move(w, s) PROVE worker'[w] = s
  BY <1>n, <1>t DEF Move
<1>f. ASSUME NEW why \in {"failed", "unknown"}, Fail(w, why)
      PROVE  err' # "none" /\ cancelled' = TRUE
  BY <1>f, <1>t DEF Fail
<1>1. CASE Dispatch(w)
  <2>1. worker'[w].pc # "gone" /\ x.pc = "ready"
    <3>1. PICK i \in todo : worker' = [worker EXCEPT ![w] = [Ready EXCEPT !.pc = "check", !.job = i]]
      BY <1>1 DEF Dispatch
    <3>2. worker'[w] = [Ready EXCEPT !.pc = "check", !.job = i]
      BY <3>1, <1>t
    <3>3. worker'[w].pc = "check"
      BY <3>2, <1>s DEF WorkerState
    <3> QED BY <3>3, <1>1 DEF Dispatch
  <2> QED BY <1>1, <2>1, <1>a DEF Dispatch
<1>2. CASE Check(w)
  <2>1. x.pc = "check" /\ UNCHANGED <<err, cancelled, urls>>
    BY <1>2 DEF Check, In
  <2>2. ~cancelled => worker'[w].pc = "creds"
    BY <1>2, <1>m, <1>a DEF Check
  <2> QED BY <2>1, <2>2, <1>a, <1>t
<1>3. CASE TakeCreds(w) \/ AskAgain(w) \/ Fetched(w)
  <2>1. x.pc \in Active /\ UNCHANGED <<err, cancelled, urls>>
    BY <1>3 DEF TakeCreds, AskAgain, Fetched, In, Active
  <2>2. worker'[w].pc \in Active
    <3>1. \/ worker' = [worker EXCEPT ![w] = [x EXCEPT !.pc = "fetch", !.cred = Current]]
          \/ worker' = [worker EXCEPT ![w] = [x EXCEPT !.pc = "refresh", !.tries = @ + 1]]
          \/ worker' = [worker EXCEPT ![w] = [x EXCEPT !.pc = "mark"]]
      BY <1>3 DEF TakeCreds, AskAgain, Fetched, Move
    <3>2. \/ worker'[w] = [x EXCEPT !.pc = "fetch", !.cred = Current]
          \/ worker'[w] = [x EXCEPT !.pc = "refresh", !.tries = @ + 1]
          \/ worker'[w] = [x EXCEPT !.pc = "mark"]
      BY <3>1, <1>t
    <3>3. worker'[w].pc \in {"fetch", "refresh", "mark"}
      BY <3>2, <1>t DEF WorkerState
    <3> QED BY <3>3 DEF Active
  <2> QED BY <2>1, <2>2, <1>a
<1>4. CASE FetchFails(w)
  <2>1. x.pc = "fetch" /\ UNCHANGED urls
    BY <1>4 DEF FetchFails, In
  <2>2. CASE Fail(w, "failed")
    BY <2>1, <2>2, <1>f
  <2>3. CASE Move(w, [x EXCEPT !.pc = "creds"]) /\ UNCHANGED <<err, cancelled>>
    BY <2>1, <2>3, <1>m, <1>a
  <2> QED BY <1>4, <2>2, <2>3 DEF FetchFails
<1>5. CASE Refresh(w)
  <2>1. x.pc = "refresh"
    BY <1>5 DEF Refresh, In
  <2>2. CASE (Fail(w, "unknown") /\ ~Reported) \/ (Fail(w, "failed") /\ UNCHANGED urls)
    BY <2>1, <2>2, <1>f
  <2>3. CASE Move(w, [x EXCEPT !.pc = "creds"]) /\ UNCHANGED <<err, cancelled>> /\ (urls' = urls \/ (Reported /\ Agrees))
    BY <2>1, <2>3, <1>m, <1>a DEF Agrees
  <2> QED BY <1>5, <2>2, <2>3 DEF Refresh
<1>6. CASE Mark(w)
  <2>1. x.pc = "mark" /\ UNCHANGED urls /\ done' = done \cup {x.job}
    BY <1>6 DEF Mark, In
  <2>2. CASE Fail(w, "failed")
    BY <2>1, <2>2, <1>f
  <2>3. CASE Move(w, Ready) /\ UNCHANGED <<err, cancelled>>
    BY <2>1, <2>3, <1>n, <1>s
  <2> QED BY <1>6, <2>2, <2>3 DEF Mark
<1>7. CASE Leave(w)
  <2>1. x.pc = "ready" /\ at = "wait" /\ UNCHANGED <<urls, err, cancelled>> /\ worker'[w] = Gone
    BY <1>7, <1>n DEF Leave
  <2> QED BY <2>1, <1>a, <1>s
<1> QED BY <1>1, <1>2, <1>3, <1>4, <1>5, <1>6, <1>7

LEMMA FetchedHolds ==
  ASSUME Context, NEW w \in Workers, Fetched(w)
  PROVE  part'[worker[w].job] = urls[worker[w].cred] /\ worker[w].cred \in 1..Len(urls)
<1>1. worker[w].pc = "fetch" /\ Running /\ Write(worker[w].job, urls[worker[w].cred])
  BY DEF Fetched, In
<1>2. worker[w].job \in Parts /\ worker[w].cred \in 1..Len(urls)
  BY <1>1 DEF Context, DownloadInv, RestOfTypes, Active
<1>3. urls[worker[w].cred] \in -1..MaxVersion
  BY <1>2 DEF Context, DownloadInv, RestOfTypes, DownloadAssumption
<1> QED BY <1>1, <1>2, <1>3, WriteIsLocal

LEMMA KillFrame ==
  ASSUME Context, Kill
  PROVE  /\ EndCommand /\ UNCHANGED <<server, linked, meta, locked, runs>> /\ dest' = dest
         /\ at \notin {"drop", "unlink", "clean", "idle"}
         /\ \/ part' = part
            \/ Running /\ part' # Absent /\ \A j \in done : part'[j] = part[j]
<1>1. EndCommand /\ UNCHANGED <<server, linked, meta, locked, runs>> /\ at \notin {"drop", "unlink", "clean", "idle"}
  BY DEF Kill, Context, Uninterrupted
<1>2. CASE Untouched
  BY <1>1, <1>2 DEF Untouched
<1>3. ASSUME NEW w \in Workers, worker[w].pc = "fetch", Write(worker[w].job, Hole)
      PROVE  dest' = dest /\ Running /\ part' # Absent /\ \A j \in done : part'[j] = part[j]
  <2>1. Running
    BY <1>3, WorkerStates DEF Context, DownloadInv, DownloadTypeOK, Running
  <2>2. worker[w].job \in Parts /\ worker[w].job \notin done /\ done \subseteq Parts
    BY <1>3 DEF Context, DownloadInv, DownloadTypeOK, RestOfTypes, Active
  <2>3. Hole \in -1..MaxVersion
    BY DEF Hole, Context, DownloadAssumption
  <2> QED BY <1>3, <2>1, <2>2, <2>3, WriteIsLocal
<1> QED BY <1>1, <1>2, <1>3 DEF Kill

LEMMA ToldVersionStep ==
  ASSUME Context, DownloadNext
  PROVE  ToldVersion'
<1> USE DEF Goto
<1>i. ToldVersion
  BY DEF Context, DownloadInv
<1>t. server \in 1..MaxVersion /\ urls \in Seq(1..MaxVersion) /\ DOMAIN urls = 1..Len(urls)
      /\ MaxVersion \in Nat /\ opts.version \in 0..MaxVersion
  BY DEF Context, DownloadInv, DownloadTypeOK, RestOfTypes, DownloadAssumption
<1>a. /\ DOMAIN Append(urls, server) = 1..(Len(urls) + 1) /\ Len(urls) \in Nat
      /\ \A k \in 1..Len(urls) : Append(urls, server)[k] = urls[k]
      /\ Append(urls, server)[Len(urls) + 1] = server
      /\ Append(urls, server) # <<>>
  BY OneMore, <1>t
<1>b. ASSUME Reported, at # "idle", server = opts.version
      PROVE  \A k \in DOMAIN Append(urls, server) : Append(urls, server)[k] = opts.version
  <2> SUFFICES ASSUME NEW k \in 1..(Len(urls) + 1) PROVE Append(urls, server)[k] = opts.version
    BY <1>a
  <2>1. k \in 1..Len(urls) \/ k = Len(urls) + 1
    BY <1>a
  <2> QED BY <2>1, <1>a, <1>b, <1>i, <1>t DEF ToldVersion
<1>1. ASSUME NEW w \in Workers, WorkerAction(w) PROVE ToldVersion'
  <2>1. /\ UNCHANGED <<server, at, opts>> /\ at # "idle"
        /\ urls' = urls \/ urls' = Append(urls, server)
        /\ meta' = meta \/ meta' = [fp |-> opts.version, done |-> done']
    BY <1>1, WorkerFrame, WorkerSteps DEF Running
  <2>2. urls' # urls => ~Reported \/ server = opts.version
    BY <1>1 DEF WorkerAction, Dispatch, Check, TakeCreds, Fetched, FetchFails, AskAgain, Refresh, Mark, Leave, Agrees
  <2> QED BY <2>1, <2>2, <1>a, <1>b, <1>i DEF ToldVersion
<1>2. CASE BeginCommand
  <2>1. urls' = <<server>> /\ <<server>> # <<>> /\ DOMAIN <<server>> = 1..1 /\ <<server>>[1] = server
    BY <1>2, <1>t DEF BeginCommand
  <2>2. opts'.version = IF Reported THEN server ELSE 0
    BY <1>2 DEF BeginCommand
  <2> QED BY <1>2, <2>1, <2>2, <1>i, <1>t DEF BeginCommand, onDisk, ToldVersion
<1>3. CASE ProbeAgain
  BY <1>3, <1>a, <1>b, <1>i DEF ProbeAgain, Agrees, onDisk, ToldVersion
<1>4. CASE ProbeFails \/ IsLocked \/ ReleaseLock \/ Kill
  <2>1. EndCommand /\ meta' = meta
    BY <1>4 DEF ProbeFails, IsLocked, ReleaseLock, Kill, onDisk
  <2>2. at' = "idle" /\ opts' = NoOpts /\ NoOpts.version = 0
    BY <2>1 DEF EndCommand, NoOpts
  <2> QED BY <2>1, <2>2, <1>i DEF ToldVersion
<1>5. CASE Probed \/ TakeLock \/ DropPart \/ DropMeta \/ Open
  BY <1>5, <1>i DEF Probed, TakeLock, DropPart, DropMeta, Open, onDisk, command, NoMeta, ToldVersion
<1>6. CASE CloseJobs \/ Finish \/ Abandon \/ Publish \/ Unlink \/ CleanUp
  BY <1>6, <1>i DEF CloseJobs, Finish, Abandon, Publish, Unlink, CleanUp, onDisk, command, NoMeta, ToldVersion
<1>7. CASE Interrupt \/ RemoveLock \/ Expire \/ Others
  BY <1>7, <1>i DEF Interrupt, RemoveLock, Expire, Others, onDisk, command, ToldVersion
<1>8. CASE Overwritten
  <2>1. opts.version \in 1..server => opts.version \in 1..(server + 1)
    BY <1>t
  <2> QED BY <1>8, <2>1, <1>i DEF Overwritten, onDisk, command, ToldVersion
<1> QED BY <1>1, <1>2, <1>3, <1>4, <1>5, <1>6, <1>7, <1>8 DEF DownloadNext, WorkerAction

LEMMA PartIsThereStep ==
  ASSUME Context, DownloadNext
  PROVE  PartIsThere'
<1> USE DEF Goto, Running
<1>i. PartIsThere
  BY DEF Context, DownloadInv
<1>1. ASSUME NEW w \in Workers, WorkerAction(w) PROVE PartIsThere'
  <2>1. part' # Absent /\ UNCHANGED <<at, linked>>
    BY <1>1, <1>i, WorkerFrame, WorkerSteps, ContentFacts DEF PartIsThere, Context, Content
  <2> QED BY <2>1, <1>i DEF PartIsThere
<1>2. CASE BeginCommand \/ ProbeAgain \/ Probed \/ TakeLock \/ DropPart \/ DropMeta
  BY <1>2, <1>i DEF BeginCommand, ProbeAgain, Probed, TakeLock, DropPart, DropMeta, onDisk, command, PartIsThere
<1>3. CASE Open
  BY <1>3, <1>i, ContentFacts DEF Open, PartIsThere, Context
<1>4. CASE ProbeFails \/ IsLocked \/ ReleaseLock
  BY <1>4, <1>i DEF ProbeFails, IsLocked, ReleaseLock, EndCommand, onDisk, PartIsThere
<1>5. CASE Kill
  BY <1>5, <1>i, KillFrame DEF EndCommand, PartIsThere
<1>6. CASE CloseJobs \/ Finish \/ Abandon
  BY <1>6, <1>i DEF CloseJobs, Finish, Abandon, onDisk, command, PartIsThere
<1>7. CASE Publish \/ Unlink \/ CleanUp
  BY <1>7, <1>i DEF Publish, Unlink, CleanUp, command, PartIsThere
<1>8. CASE Interrupt \/ RemoveLock \/ Overwritten \/ Expire \/ Others
  BY <1>8, <1>i DEF Interrupt, RemoveLock, Overwritten, Expire, Others, onDisk, command, PartIsThere
<1> QED BY <1>1, <1>2, <1>3, <1>4, <1>5, <1>6, <1>7, <1>8 DEF DownloadNext, WorkerAction

\* What a part holds that somebody counts on is not what a worker writes to.
LEMMA LoadedStays ==
  ASSUME Context, NEW w \in Workers, WorkerAction(w)
  PROVE  /\ \A j \in done : part'[j] = part[j]
         /\ \A v \in Workers \ {w} : worker[v].pc = "mark" => part'[worker[v].job] = part[worker[v].job]
<1>1. part' = part \/ (worker[w].pc = "fetch" /\ \A j \in Parts \ {worker[w].job} : part'[j] = part[j])
  BY WorkerFrame
<1>2. worker[w].pc = "fetch" => worker[w].job \notin done
  BY DEF Context, DownloadInv, DownloadTypeOK
<1>3. done \subseteq Parts /\ \A v \in Workers : worker[v].pc = "mark" => worker[v].job \in Parts
  BY DEF Context, DownloadInv, DownloadTypeOK, RestOfTypes, Active
<1>4. \A v \in Workers \ {w} : worker[v].pc = "mark" /\ worker[w].pc = "fetch" => worker[v].job # worker[w].job
  BY DEF Context, DownloadInv, JobsDiffer, Active
<1> QED BY <1>1, <1>2, <1>3, <1>4

LEMMA LoadedStep ==
  ASSUME Context, DownloadNext
  PROVE  LoadedIsCurrent'
<1> USE DEF Goto, Running, Trusted, Current
<1>i. LoadedIsCurrent /\ CheckpointHolds /\ ToldVersion
  BY DEF Context, DownloadInv
<1>u. /\ Len(urls) \in Nat /\ (at # "idle" => Len(urls) \in 1..Len(urls)) /\ DOMAIN urls = 1..Len(urls)
      /\ \A k \in 1..Len(urls) : Append(urls, server)[k] = urls[k]
      /\ Append(urls, server)[Len(urls) + 1] = server
      /\ Len(Append(urls, server)) = Len(urls) + 1
  BY OneMore, <1>i DEF ToldVersion, Context, DownloadInv, RestOfTypes
<1>1. ASSUME NEW w \in Workers, WorkerAction(w) PROVE LoadedIsCurrent'
  <2>1. Running /\ at' = at /\ at \in {"run", "wait"}
    BY <1>1, WorkerSteps, WorkerFrame
  <2>2. SUFFICES ASSUME Trusted'
                 PROVE  /\ \A i \in done' : part'[i] = urls'[Current']
                        /\ \A v \in Workers : /\ worker'[v].pc = "mark" => part'[worker'[v].job] = urls'[Current']
                                              /\ worker'[v].pc = "fetch" => urls'[worker'[v].cred] = urls'[Current']
    BY <2>1 DEF LoadedIsCurrent
  <2>3. Trusted
    BY <1>1, <2>2, WorkerTells
  <2>4. urls'[Len(urls')] = urls[Len(urls)] /\ (\A k \in 1..Len(urls) : urls'[k] = urls[k])
    <3>1. CASE urls' = urls
      BY <3>1
    <3>2. CASE urls' # urls
      <4>1. urls' = Append(urls, server)
        BY <1>1, <3>2, WorkerFrame
      <4>2. Reported /\ server = opts.version
        BY <1>1, <2>2, <3>2, WorkerTells
      <4>3. urls[Len(urls)] = opts.version
        BY <4>2, <2>1, <1>u, <1>i DEF ToldVersion
      <4> QED BY <4>1, <4>2, <4>3, <1>u
    <3> QED BY <3>1, <3>2
  <2>5. \A i \in done : part'[i] = urls'[Len(urls')]
    BY <1>1, <2>1, <2>3, <2>4, LoadedStays, <1>i DEF LoadedIsCurrent
  <2>6. \A v \in Workers \ {w} : worker[v].pc = "mark" => part'[worker[v].job] = urls'[Len(urls')]
    BY <1>1, <2>1, <2>3, <2>4, LoadedStays, <1>i DEF LoadedIsCurrent
  <2>7. \A v \in Workers : worker[v].pc = "fetch" => urls'[worker[v].cred] = urls'[Len(urls')]
    <3>1. \A v \in Workers : worker[v].pc = "fetch" => worker[v].cred \in 1..Len(urls)
      BY DEF Context, DownloadInv, RestOfTypes
    <3> QED BY <3>1, <2>1, <2>3, <2>4, <1>i DEF LoadedIsCurrent
  <2>8. \A i \in done' : part'[i] = urls'[Len(urls')]
    <3>1. CASE done' = done
      BY <3>1, <2>5
    <3>2. CASE worker[w].pc = "mark" /\ done' = done \cup {worker[w].job}
      <4>1. part' = part
        BY <1>1, <3>2, WorkerFrame
      <4>2. part[worker[w].job] = urls[Len(urls)]
        BY <3>2, <2>1, <2>3, <1>i DEF LoadedIsCurrent
      <4> QED BY <4>1, <4>2, <3>2, <2>4, <2>5
    <3> QED BY <1>1, <3>1, <3>2, WorkerFrame
  <2>9. /\ worker'[w].pc = "mark" => part'[worker'[w].job] = urls'[Len(urls')]
        /\ worker'[w].pc = "fetch" => urls'[worker'[w].cred] = urls'[Len(urls')]
    <3>1. CASE worker'[w].pc = "mark"
      <4>1. Fetched(w)
        BY <1>1, <3>1, WorkerSteps
      <4>2. worker[w].pc = "fetch" /\ urls' = urls
        BY <4>1 DEF Fetched, In
      <4>3. worker'[w].job = worker[w].job
        BY <1>1, <3>1, <4>2, WorkerSteps, WorkerStates DEF Becomes, GoesOn, Active, Context
      <4> QED BY <3>1, <4>1, <4>2, <4>3, <2>7, FetchedHolds
    <3>2. CASE worker'[w].pc = "fetch"
      <4>1. worker'[w].cred = Len(urls)
        BY <1>1, <3>2, WorkerSteps
      <4> QED BY <3>2, <4>1, <2>1, <2>4, <1>u
    <3> QED BY <3>1, <3>2
  <2>10. \A v \in Workers \ {w} : worker'[v] = worker[v]
    BY <1>1, WorkerSteps
  <2> QED BY <2>6, <2>7, <2>8, <2>9, <2>10
<1>2. CASE Open
  <2>1. worker' = [v \in Workers |-> Ready] /\ UNCHANGED urls /\ at = "open" /\ at' = "run"
    BY <1>2 DEF Open
  <2>2. \A v \in Workers : worker'[v].pc = "ready"
    BY <2>1, WorkerStates DEF Context
  <2>3. \A i \in done' : part'[i] = urls[Len(urls)]
    <3>1. CASE Resumes
      <4>1. done' = meta.done /\ part' = part /\ meta.fp = opts.version /\ meta.fp # 0 /\ part # Absent
        BY <1>2, <3>1 DEF Open, Resumes
      <4>2. \A i \in meta.done : part[i] = opts.version
        BY <2>1, <4>1, <1>i DEF CheckpointHolds, Newest
      <4>3. urls[Len(urls)] = opts.version
        BY <4>1, <2>1, <1>u, <1>i DEF ToldVersion, Context, DownloadAssumption
      <4> QED BY <4>1, <4>2, <4>3
    <3>2. CASE ~Resumes
      BY <1>2, <3>2 DEF Open
    <3> QED BY <3>1, <3>2
  <2> QED BY <2>1, <2>2, <2>3 DEF LoadedIsCurrent
<1>3. CASE BeginCommand \/ ProbeAgain \/ Probed \/ TakeLock \/ DropPart \/ DropMeta
  <2>1. at' \in {"probe", "lock", "drop", "open"}
    BY <1>3 DEF BeginCommand, ProbeAgain, Probed, TakeLock, DropPart, DropMeta
  <2> QED BY <2>1 DEF LoadedIsCurrent
<1>4. CASE ProbeFails \/ IsLocked \/ ReleaseLock \/ Kill
  <2>1. at' = "idle"
    BY <1>4 DEF ProbeFails, IsLocked, ReleaseLock, Kill, EndCommand
  <2> QED BY <2>1 DEF LoadedIsCurrent
<1>5. CASE CloseJobs \/ Finish
  <2>1. UNCHANGED <<urls, done, part, worker, err>> /\ (Running' \/ at' = "publish") /\ Running /\ (at' = "publish" => Trusted)
    BY <1>5 DEF CloseJobs, Finish, onDisk, command
  <2> QED BY <2>1, <1>i DEF LoadedIsCurrent
<1>6. CASE Abandon \/ Publish \/ Unlink \/ CleanUp
  <2>1. at' \in {"release", "clean", "unlink"}
    BY <1>6 DEF Abandon, Publish, Unlink, CleanUp
  <2> QED BY <2>1 DEF LoadedIsCurrent
<1>7. CASE Interrupt \/ RemoveLock \/ Overwritten \/ Expire \/ Others
  <2>1. UNCHANGED <<at, urls, done, part, worker, err>>
    BY <1>7 DEF Interrupt, RemoveLock, Overwritten, Expire, Others, onDisk, command
  <2> QED BY <2>1, <1>i DEF LoadedIsCurrent
<1> QED BY <1>1, <1>2, <1>3, <1>4, <1>5, <1>6, <1>7 DEF DownloadNext, WorkerAction

LEMMA CheckpointStep ==
  ASSUME Context, DownloadNext
  PROVE  CheckpointHolds'
<1> USE DEF Goto, Running, Newest
<1>i. LoadedIsCurrent /\ CheckpointHolds /\ ToldVersion /\ PartIsThere
  BY DEF Context, DownloadInv
<1>t. /\ server \in Nat /\ MaxVersion \in Nat /\ opts.version \in Nat /\ meta.fp \in Nat
      /\ opts.resume \in BOOLEAN
      /\ (Reported /\ at # "idle" => opts.version <= server) /\ (~Reported => meta.fp = 0)
  BY <1>i DEF Context, DownloadInv, DownloadTypeOK, RestOfTypes, DownloadAssumption, ToldVersion
<1>n. NoMeta.fp = 0
  BY DEF NoMeta
<1>1. ASSUME NEW w \in Workers, WorkerAction(w) PROVE CheckpointHolds'
  <2>1. Running /\ UNCHANGED <<at, opts>> /\ part # Absent /\ part' # Absent
    BY <1>1, <1>i, WorkerSteps, WorkerFrame, PartIsThereStep DEF PartIsThere, Context, DownloadNext, WorkerAction
  <2>2. done \subseteq done' /\ (meta' = meta \/ (worker[w].pc = "mark" /\ opts.resume /\ meta' = [fp |-> opts.version, done |-> done']))
    BY <1>1, WorkerFrame
  <2>3. \A j \in done : part'[j] = part[j]
    BY <1>1, LoadedStays
  <2>4. CASE meta' = meta
    BY <2>1, <2>2, <2>3, <2>4, <1>i DEF CheckpointHolds
  <2>5. CASE opts.resume /\ meta' = [fp |-> opts.version, done |-> done']
    <3>1. meta'.fp = opts.version /\ meta'.done = done'
      BY <2>5
    <3>2. ASSUME opts.version # 0 PROVE \A i \in done' : part'[i] = opts.version
      <4>1. Reported
        BY <3>2, <1>i DEF ToldVersion
      <4>2. \A i \in done' : part'[i] = urls'[Current']
        BY <1>1, <4>1, <2>1, LoadedStep DEF LoadedIsCurrent, Trusted, DownloadNext, WorkerAction
      <4>3. urls'[Current'] = opts.version
        <5>1. ToldVersion' /\ WorkersOK' /\ Basics'
          BY <1>1, ToldVersionStep, WorkersStep, BasicsStep DEF DownloadNext, WorkerAction
        <5>2. urls' # <<>> /\ \A k \in DOMAIN urls' : urls'[k] = opts.version
          BY <5>1, <4>1, <2>1 DEF ToldVersion
        <5>3. urls' \in Seq(1..MaxVersion)
          BY <5>1 DEF Basics
        <5>4. Len(urls') \in DOMAIN urls'
          BY <5>2, <5>3
        <5> QED BY <5>2, <5>4 DEF Current
      <4> QED BY <4>2, <4>3
    <3> QED BY <2>1, <2>5, <3>1, <3>2, <1>t DEF CheckpointHolds
  <2> QED BY <2>2, <2>4, <2>5
<1>2. CASE Open
  <2>1. /\ at = "open" /\ at' = "run" /\ UNCHANGED <<opts, meta>>
        /\ part' = (IF part # Absent THEN part ELSE Empty)
        /\ done' = (IF Resumes THEN meta.done ELSE {})
    BY <1>2 DEF Open
  <2>2. part' # Absent /\ (part = Absent => meta.fp = 0) /\ (~opts.resume => meta.fp = 0)
    BY <2>1, <1>i, ContentFacts DEF CheckpointHolds, Context
  <2>3. meta.fp # 0 /\ meta.fp = opts.version => Resumes
    BY <2>2 DEF Resumes
  <2> QED BY <2>1, <2>2, <2>3, <1>i DEF CheckpointHolds
<1>3. CASE BeginCommand
  <2>1. /\ at = "idle" /\ at' = "probe" /\ UNCHANGED <<meta, part>>
        /\ opts'.version = IF Reported THEN server ELSE 0
    BY <1>3 DEF BeginCommand, onDisk
  <2> QED BY <2>1, <1>i, <1>t DEF CheckpointHolds
<1>4. CASE ProbeAgain \/ Probed \/ TakeLock
  <2>1. UNCHANGED <<opts, meta, part>> /\ at \in {"probe", "lock"}
    BY <1>4 DEF ProbeAgain, Probed, TakeLock, onDisk, command
  <2>2. at' \in {"probe", "lock"} \/ (opts.resume /\ at' = "open") \/ (~opts.resume /\ at' = "drop")
    BY <1>4, <1>t DEF ProbeAgain, Probed, TakeLock
  <2> QED BY <2>1, <2>2, <1>i DEF CheckpointHolds
<1>5. CASE DropPart \/ DropMeta
  BY <1>5, <1>i, <1>n DEF DropPart, DropMeta, onDisk, command, CheckpointHolds
<1>6. CASE ProbeFails \/ IsLocked \/ ReleaseLock
  <2>1. EndCommand /\ UNCHANGED <<server, meta, part>> /\ at \in {"probe", "lock", "release"}
    BY <1>6 DEF ProbeFails, IsLocked, ReleaseLock, onDisk
  <2>2. at' = "idle"
    BY <2>1 DEF EndCommand
  <2> QED BY <2>1, <2>2, <1>i, <1>t DEF CheckpointHolds
<1>7. CASE Kill
  <2>1. /\ at' = "idle" /\ UNCHANGED <<server, meta>> /\ at \notin {"drop", "unlink", "clean", "idle"}
        /\ \/ part' = part
           \/ Running /\ part' # Absent /\ \A j \in done : part'[j] = part[j]
    BY <1>7, KillFrame DEF EndCommand
  <2>2. CASE part' = part
    BY <2>1, <2>2, <1>i, <1>t DEF CheckpointHolds
  <2>3. CASE Running /\ part' # Absent /\ \A j \in done : part'[j] = part[j]
    BY <2>1, <2>3, <1>i, <1>t DEF CheckpointHolds, PartIsThere
  <2> QED BY <2>1, <2>2, <2>3
<1>8. CASE CloseJobs \/ Finish
  BY <1>8, <1>i DEF CloseJobs, Finish, onDisk, command, CheckpointHolds
<1>9. CASE Abandon
  BY <1>9, <1>i, <1>n DEF Abandon, command, CheckpointHolds
<1>10. CASE Publish
  BY <1>10, <1>i DEF Publish, command, CheckpointHolds, PartIsThere
<1>11. CASE Unlink \/ CleanUp
  BY <1>11, <1>i, <1>n DEF Unlink, CleanUp, command, CheckpointHolds
<1>12. CASE Interrupt \/ RemoveLock \/ Expire \/ Others
  BY <1>12, <1>i DEF Interrupt, RemoveLock, Expire, Others, onDisk, command, CheckpointHolds
<1>13. CASE Overwritten
  <2>1. UNCHANGED <<at, opts, meta, part, done>> /\ server' = server + 1
    BY <1>13 DEF Overwritten, onDisk, command
  <2>2. CASE at = "idle"
    BY <2>1, <2>2, <1>i, <1>t DEF CheckpointHolds
  <2>3. CASE at # "idle"
    BY <2>1, <2>3, <1>i, <1>t DEF CheckpointHolds
  <2> QED BY <2>2, <2>3
<1> QED BY <1>1, <1>2, <1>3, <1>4, <1>5, <1>6, <1>7, <1>8, <1>9, <1>10, <1>11, <1>12, <1>13
        DEF DownloadNext, WorkerAction

LEMMA NothingIsLostStep ==
  ASSUME Context, DownloadNext
  PROVE  NothingIsLost'
<1> USE DEF Goto, Running
<1>i. NothingIsLost /\ done \subseteq Parts /\ todo \subseteq Parts
  BY DEF Context, DownloadInv, DownloadTypeOK
<1>g. Gone.pc = "gone" /\ Ready.pc = "ready" /\ "gone" \notin Active /\ "ready" \notin Active /\ "check" \in Active
  BY WorkerStates DEF Context, Active
<1>1. ASSUME NEW w \in Workers, WorkerAction(w) PROVE NothingIsLost'
  <2>1. Running /\ UNCHANGED at /\ Becomes(w) /\ \A v \in Workers \ {w} : worker'[v] = worker[v]
    BY <1>1, WorkerSteps, WorkerFrame
  <2>2. /\ (err' = "none" => err = "none") /\ (cancelled => cancelled')
        /\ cancelled' /\ ~cancelled => err' # "none"
        /\ worker'[w].pc = "gone" => cancelled' \/ (at = "wait" /\ worker[w].pc = "ready")
        /\ worker[w].pc \in Active /\ worker'[w].pc \notin Active =>
             cancelled \/ err' # "none" \/ done' = done \cup {worker[w].job}
        /\ worker[w].pc = "ready" /\ worker'[w].pc = "check" => at = "run"
    BY <1>1, WorkerTells
  <2>3. /\ done \subseteq done'
        /\ IF worker[w].pc = "ready" /\ worker'[w].pc = "check"
           THEN worker'[w].job \in todo /\ todo' = todo \ {worker'[w].job}
           ELSE todo' = todo
    BY <1>1, WorkerFrame
  <2>4. Running' /\ cancelled' => err' # "none"
    BY <2>1, <2>2, <1>i DEF NothingIsLost
  <2>5. ASSUME err' = "none", NEW i \in Parts \ (done' \cup todo')
        PROVE  \E v \in Workers : worker'[v].pc \in Active /\ worker'[v].job = i
    <3>1. CASE i \in todo
      BY <3>1, <2>3, <2>5, <1>g
    <3>2. CASE i \notin todo
      <4>1. PICK v \in Workers : worker[v].pc \in Active /\ worker[v].job = i
        BY <3>2, <2>1, <2>2, <2>3, <2>5, <1>i DEF NothingIsLost
      <4>2. CASE v # w
        BY <4>1, <4>2, <2>1
      <4>3. CASE v = w
        <5>1. ~cancelled
          BY <2>1, <2>2, <2>5, <1>i DEF NothingIsLost
        <5>2. worker'[w].pc \in Active
          BY <5>1, <4>1, <4>3, <2>2, <2>5
        <5>3. worker'[w].job = worker[w].job
          BY <5>2, <4>1, <4>3, <2>1, <1>g DEF Becomes, GoesOn
        <5> QED BY <5>2, <5>3, <4>1, <4>3
      <4> QED BY <4>2, <4>3
    <3> QED BY <3>1, <3>2
  <2>6. at' = "wait" /\ err' = "none" => todo' = {}
    BY <2>1, <2>2, <2>3, <1>i DEF NothingIsLost
  <2>7. at' = "run" /\ ~cancelled' => \A v \in Workers : worker'[v].pc # "gone"
    <3>1. at' = "run" /\ ~cancelled' => \A v \in Workers : worker[v].pc # "gone"
      BY <2>1, <2>2, <1>i DEF NothingIsLost, Context, DownloadInv, DownloadTypeOK
    <3> QED BY <3>1, <2>1, <2>2
  <2> QED BY <2>1, <2>4, <2>5, <2>6, <2>7 DEF NothingIsLost
<1>2. CASE Open
  <2>1. /\ at' = "run" /\ worker' = [v \in Workers |-> Ready] /\ cancelled' = FALSE /\ todo' = Parts \ done'
    BY <1>2 DEF Open
  <2> QED BY <2>1, <1>g DEF NothingIsLost
<1>3. CASE BeginCommand \/ ProbeAgain \/ Probed \/ TakeLock \/ DropPart \/ DropMeta
  <2>1. at' \in {"probe", "lock", "drop", "open"}
    BY <1>3 DEF BeginCommand, ProbeAgain, Probed, TakeLock, DropPart, DropMeta
  <2> QED BY <2>1 DEF NothingIsLost
<1>4. CASE ProbeFails \/ IsLocked \/ ReleaseLock \/ Kill
  <2>1. at' = "idle"
    BY <1>4 DEF ProbeFails, IsLocked, ReleaseLock, Kill, EndCommand
  <2> QED BY <2>1 DEF NothingIsLost
<1>5. CASE CloseJobs
  BY <1>5, <1>i DEF CloseJobs, onDisk, command, NothingIsLost
<1>6. CASE Finish
  <2>1. at' = "publish" /\ done' = done
    BY <1>6 DEF Finish, command
  <2>2. \A v \in Workers : worker[v].pc = "gone"
    BY <1>6 DEF Finish, Joined
  <2>3. Parts \ (done \cup todo) = {} /\ todo = {}
    BY <1>6, <2>2, <1>i, <1>g DEF Finish, NothingIsLost
  <2>4. done = Parts
    BY <2>3, <1>i
  <2> QED BY <2>1, <2>4 DEF NothingIsLost
<1>7. CASE Abandon \/ Publish \/ Unlink \/ CleanUp
  <2>1. at' \in {"release", "clean", "unlink"}
    BY <1>7 DEF Abandon, Publish, Unlink, CleanUp
  <2> QED BY <2>1 DEF NothingIsLost
<1>8. CASE Interrupt
  BY <1>8 DEF Interrupt, Context, Uninterrupted
<1>9. CASE RemoveLock \/ Overwritten \/ Expire \/ Others
  <2>1. UNCHANGED <<at, done, todo, worker, cancelled, err>>
    BY <1>9 DEF RemoveLock, Overwritten, Expire, Others, onDisk, command
  <2> QED BY <2>1, <1>i DEF NothingIsLost
<1> QED BY <1>1, <1>2, <1>3, <1>4, <1>5, <1>6, <1>7, <1>8, <1>9 DEF DownloadNext, WorkerAction

LEMMA DestinationStep ==
  ASSUME Context, DownloadNext
  PROVE  (DestinationIsWhole /\ PublishedIsWhole)'
<1> USE DEF Goto, Running
<1>i. DestinationIsWhole /\ PublishedIsWhole
  BY DEF Context, DownloadInv
<1>1. CASE UNCHANGED dest /\ at' \notin {"unlink", "clean"}
  BY <1>1, <1>i DEF DestinationIsWhole, PublishedIsWhole
<1>2. ASSUME NEW w \in Workers, WorkerAction(w) PROVE UNCHANGED dest /\ at' \notin {"unlink", "clean"}
  BY <1>2, WorkerFrame, WorkerSteps
<1>3. CASE BeginCommand \/ ProbeAgain \/ Probed \/ TakeLock \/ DropPart \/ DropMeta \/ Open
  BY <1>3, <1>1 DEF BeginCommand, ProbeAgain, Probed, TakeLock, DropPart, DropMeta, Open, onDisk, command
<1>4. CASE ProbeFails \/ IsLocked \/ ReleaseLock \/ CloseJobs \/ Finish \/ Abandon \/ CleanUp
  BY <1>4, <1>1 DEF ProbeFails, IsLocked, ReleaseLock, CloseJobs, Finish, Abandon, CleanUp, EndCommand, onDisk, command
<1>5. CASE Kill
  BY <1>5, <1>1, KillFrame DEF EndCommand
<1>6. CASE Unlink
  <2>1. UNCHANGED <<dest, opts>> /\ at = "unlink" /\ at' = "clean"
    BY <1>6 DEF Unlink, command
  <2> QED BY <2>1, <1>i DEF DestinationIsWhole, PublishedIsWhole
<1>7. CASE Publish
  <2> DEFINE v == urls[Current]
  <2>1. /\ at = "publish" /\ UNCHANGED opts
        /\ (dest' = part \/ (UNCHANGED dest /\ at' = "release"))
    BY <1>7 DEF Publish, command
  <2>2. \A i \in Parts : part[i] = v
    BY <2>1 DEF Context, DownloadInv, LoadedIsCurrent, NothingIsLost
  <2>3. Len(urls) \in 1..Len(urls) /\ urls \in Seq(1..MaxVersion)
    BY <2>1, OneMore DEF Context, DownloadInv, ToldVersion, RestOfTypes
  <2>4. v \in 1..MaxVersion /\ 1 \in Parts /\ MaxVersion \in Nat
    BY <2>3, ContentFacts DEF Current, Context, DownloadAssumption
  <2>5. opts.version # 0 => v = opts.version
    BY <2>1, <2>3 DEF Current, Context, DownloadInv, ToldVersion
  <2>6. CASE dest' = part
    <3>1. DestinationIsWhole'
      BY <2>2, <2>4, <2>6 DEF DestinationIsWhole
    <3>2. \A i, j \in Parts : part[i] = part[j] /\ part[i] # Hole
      BY <2>2, <2>4 DEF Hole
    <3>3. opts'.version # 0 => part[1] = opts'.version
      BY <2>1, <2>2, <2>4, <2>5
    <3> HIDE DEF v
    <3> QED BY <3>1, <3>2, <3>3, <2>6 DEF PublishedIsWhole
  <2> QED BY <2>1, <2>6, <1>1
<1>8. CASE Others
  <2>1. dest' \in {Foreign, Absent}
    BY <1>8 DEF Others
  <2>2. 1 \in Parts /\ \A i \in Parts : Foreign[i] = -1
    BY ContentFacts DEF Context
  <2> QED BY <2>1, <2>2 DEF DestinationIsWhole, PublishedIsWhole, Hole
<1>9. CASE Interrupt \/ RemoveLock \/ Overwritten \/ Expire
  <2>1. UNCHANGED <<dest, at, opts>>
    BY <1>9 DEF Interrupt, RemoveLock, Overwritten, Expire, onDisk, command
  <2> QED BY <2>1, <1>i DEF DestinationIsWhole, PublishedIsWhole
<1> QED BY <1>1, <1>2, <1>3, <1>4, <1>5, <1>6, <1>7, <1>8, <1>9 DEF DownloadNext, WorkerAction

LEMMA DownloadInvHolds ==
  DownloadAssumption /\ Uninterrupted => (DownloadSpec => []DownloadInv)
<1> SUFFICES ASSUME DownloadAssumption, Uninterrupted PROVE DownloadSpec => []DownloadInv
  OBVIOUS
<1>1. DownloadInit => DownloadInv
  <2> SUFFICES ASSUME DownloadInit PROVE DownloadInv
    OBVIOUS
  <2> USE DEF DownloadInit, Running
  <2>1. DownloadTypeOK
    <3>1. \A w \in Workers : worker[w] = Gone /\ Gone.pc = "gone"
      BY WorkerStates DEF AllGone
    <3>2. /\ server \in 1..MaxVersion /\ meta.fp \in 0..MaxVersion /\ meta.done \subseteq Parts
          /\ opts.version \in 0..MaxVersion
      BY DEF NoMeta, NoOpts, DownloadAssumption
    <3>3. expired \in 0..Len(urls)
      OBVIOUS
    <3>4. dest \in Contents /\ part \in Contents
      BY DEF Contents
    <3> QED BY <3>1, <3>2, <3>3, <3>4 DEF DownloadTypeOK
  <2>2. RestOfTypes
    <3>1. worker \in [Workers -> WorkerState] /\ \A w \in Workers : worker[w] = Gone
      BY WorkerStates DEF AllGone
    <3>2. opts \in [overwrite: BOOLEAN, resume: BOOLEAN, version: 0..MaxVersion]
      BY DEF NoOpts, DownloadAssumption
    <3>3. meta \in [fp: 0..MaxVersion, done: SUBSET Parts]
      BY DEF NoMeta, DownloadAssumption
    <3>4. urls \in Seq(1..MaxVersion) /\ expired \in Nat
      OBVIOUS
    <3> QED BY <3>1, <3>2, <3>3, <3>4, WorkerStates DEF RestOfTypes, Active
  <2>3. JobsDiffer
    BY WorkerStates DEF JobsDiffer, AllGone, Active
  <2>4. ToldVersion /\ CheckpointHolds /\ PartIsThere
    BY DEF ToldVersion, CheckpointHolds, PartIsThere, NoMeta, NoOpts
  <2>5. LoadedIsCurrent /\ NothingIsLost /\ DestinationIsWhole /\ PublishedIsWhole
    BY DEF LoadedIsCurrent, NothingIsLost, DestinationIsWhole, PublishedIsWhole
  <2> QED BY <2>1, <2>2, <2>3, <2>4, <2>5 DEF DownloadInv
<1>2. DownloadInv /\ [DownloadNext]_downloadVars => DownloadInv'
  <2> SUFFICES ASSUME DownloadInv, [DownloadNext]_downloadVars PROVE DownloadInv'
    OBVIOUS
  <2>1. CASE DownloadNext
    <3>1. Context
      BY DEF Context
    <3>2. WorkersOK' /\ Basics'
      BY <3>1, <2>1, WorkersStep, BasicsStep
    <3>3. DownloadTypeOK' /\ RestOfTypes' /\ JobsDiffer'
      <4>1. DownloadTypeOK'
        <5>1. \A w \in Workers :
                /\ worker'[w].pc \in {"gone", "ready", "check", "creds", "fetch", "refresh", "mark"}
                /\ worker'[w].pc \in Active => worker'[w].job \notin todo' \cup done'
                /\ at' \notin {"run", "wait"} => worker'[w] = Gone
          BY <3>2 DEF WorkersOK, WorkerState, Active, Running
        <5> QED BY <5>1, <3>2 DEF DownloadTypeOK, Basics, Active
      <4>2. RestOfTypes'
        <5>1. expired' \in Nat
          BY <3>2 DEF Basics
        <5> QED BY <5>1, <3>2 DEF RestOfTypes, Basics, WorkersOK
      <4> QED BY <4>1, <4>2, <3>2 DEF WorkersOK
    <3> QED BY <3>1, <3>3, <2>1, ToldVersionStep, PartIsThereStep, CheckpointStep, LoadedStep,
               NothingIsLostStep, DestinationStep DEF DownloadInv
  <2>2. CASE UNCHANGED downloadVars
    BY <2>2 DEF downloadVars, onDisk, command, DownloadInv, DownloadTypeOK, RestOfTypes, JobsDiffer,
          ToldVersion, CheckpointHolds, Newest, PartIsThere, LoadedIsCurrent, Trusted, Current,
          NothingIsLost, DestinationIsWhole, PublishedIsWhole, Running
  <2> QED BY <2>1, <2>2
<1> QED BY <1>1, <1>2, PTL DEF DownloadSpec

\* Of commands that are not interrupted, the file they publish is whole and of one version,
\* what they count as loaded is there, and the dispatcher never waits for a worker that will
\* not come (drive_transfer.go:587-803) - for any number of parts, workers, versions and
\* commands, any loss of the network, kill during the transfer, and interference with the
\* destination.
THEOREM DownloadsAreSafe ==
  DownloadAssumption /\ Uninterrupted => (DownloadSpec => []DownloadSafe)
<1> SUFFICES ASSUME DownloadAssumption, Uninterrupted PROVE DownloadSpec => []DownloadSafe
  OBVIOUS
<1>1. DownloadInv => DownloadSafe
  <2> SUFFICES ASSUME DownloadInv PROVE DownloadSafe
    OBVIOUS
  <2>1. Running /\ (err = "none" \/ opts.version # 0) => Trusted
    BY DEF DownloadInv, ToldVersion, Trusted
  <2>2. Running \/ at = "publish" => urls[Current] # Hole
    <3>1. SUFFICES ASSUME Running \/ at = "publish" PROVE urls[Current] # Hole
      OBVIOUS
    <3>2. urls # <<>> /\ urls \in Seq(1..MaxVersion)
      BY <3>1 DEF DownloadInv, ToldVersion, Running, RestOfTypes
    <3>3. urls[Len(urls)] \in 1..MaxVersion
      BY <3>2 DEF DownloadAssumption
    <3> QED BY <3>3 DEF Hole, Current, DownloadAssumption
  <2>3. DoneIsThere
    BY <2>1, <2>2 DEF DoneIsThere, DownloadInv, LoadedIsCurrent
  <2>4. DispatcherIsServed
    BY DEF DispatcherIsServed, DownloadInv, NothingIsLost, DownloadAssumption
  <2> QED BY <2>3, <2>4 DEF DownloadSafe, DownloadInv
<1> QED BY <1>1, DownloadInvHolds, PTL

-----------------------------------------------------------------------------
(* The audit log.  Only who holds the lock writes, and what it has read is *)
(* still the last hash when it writes; nobody reads a hash from a line     *)
(* that does not parse, so such a line stays the last one.                 *)

Record == [prev: Seq(Nat), hash: Seq(Nat), body: Nat, parses: BOOLEAN]
File   == [lines: Seq(Record), ended: BOOLEAN]

\* The types that AuditTypeOK leaves open.
AuditTypes ==
  /\ logs \in [Days -> File]
  /\ stage \in [Writers -> {"idle", "open", "sealed"}] /\ day \in [Writers -> Days]
  /\ prev \in [Writers -> Seq(Nat)] /\ events \in 0..MaxEvents
  /\ emitting \in [Writers -> 0..MaxEvents]
  /\ emitted \subseteq (1..events) \X Days /\ pruned \subseteq Days /\ today \in Days

LogIsHeld ==
  /\ \A w \in Writers : stage[w] # "idle" <=> lock = w
  /\ lock \in Writers \cup {Nobody}

\* Each record stands on the one before it, and nothing stands on a line that does not parse.
Sound(f) ==
  LET ls == f.lines
  IN  /\ f.ended \/ ls # <<>>
      /\ \A i \in DOMAIN ls :
           /\ i < Len(ls) => ls[i].parses
           /\ ls[i].parses => /\ ls[i].prev = (IF i = 1 THEN <<>> ELSE ls[i - 1].hash)
                              /\ ls[i].hash = Append(ls[i].prev, ls[i].body)
FilesAreSound == \A d \in Days : Sound(logs[d])

\* What a writer has read is still the last hash when it writes.
SealIsCurrent ==
  \A w \in Writers : stage[w] = "sealed" /\ day[w] \notin pruned =>
    LastHash(logs[day[w]].lines) = {prev[w]}

\* The event in hand is nowhere yet.
EventIsNew ==
  \A w \in Writers : stage[w] # "idle" =>
    /\ emitting[w] \in 1..events
    /\ \A d \in Days : /\ <<emitting[w], d>> \notin emitted
                       /\ \A i \in DOMAIN logs[d].lines : logs[d].lines[i].body # emitting[w]

Once(e, ls) ==
  \E i \in 1..Len(ls) : ls[i].body = e /\ \A j \in 1..Len(ls) : ls[j].body = e => j = i

\* What was emitted is there once, all but one in a damaged file; a line without its newline
\* is nobody's emitted event.
RecordedIn(ls, ended, d, all, upTo) ==
  /\ ls = <<>> \/ Last(ls).parses => \A e \in 1..upTo : <<e, d>> \in all => Once(e, ls)
  /\ \E x \in 0..upTo : \A e \in 1..upTo : e # x /\ <<e, d>> \in all => Once(e, ls)
  /\ ~ended => <<Last(ls).body, d>> \notin all
  /\ \A i \in DOMAIN ls : ls[i].body \in 0..upTo
Recorded == \A d \in Days \ pruned : RecordedIn(logs[d].lines, logs[d].ended, d, emitted, events)

BodiesAreEvents == \A d \in Days : \A i \in DOMAIN logs[d].lines : logs[d].lines[i].body \in 0..events

AuditInv ==
  /\ AuditTypes /\ LogIsHeld /\ FilesAreSound /\ SealIsCurrent /\ EventIsNew /\ Recorded /\ BodiesAreEvents

\* The hash to chain to is the last record's, and there is none to chain to when that record
\* is damaged.
LEMMA LastHashIs ==
  ASSUME NEW ls, NEW h, LastHash(ls) = {h}
  PROVE  IF ls = <<>> THEN h = <<>> ELSE Last(ls).parses /\ h = Last(ls).hash
  BY DEF LastHash

LEMMA RecordTypes ==
  /\ Rubbish \in Record /\ ~Rubbish.parses /\ Rubbish.body = 0
  /\ \A h \in Seq(Nat), e \in Nat :
       /\ Line(h, e) \in Record /\ Line(h, e).parses /\ Line(h, e).body = e
       /\ Line(h, e).prev = h /\ Line(h, e).hash = Append(h, e)
  BY DEF Rubbish, Record, Line

\* What an append makes of a file.
LEMMA AppendedIs ==
  ASSUME NEW f \in File, Sound(f), NEW l \in Record, NEW ended \in BOOLEAN
  PROVE  LET g == Appended(f, l, ended)
         IN /\ g \in File /\ g.ended = ended /\ g.lines # <<>>
            /\ f.ended => /\ Len(g.lines) = Len(f.lines) + 1 /\ g.lines[Len(g.lines)] = l
            /\ ~f.ended => Len(g.lines) = Len(f.lines) /\ g.lines[Len(g.lines)] = Rubbish
            /\ \A i \in 1..Len(g.lines) : i < Len(g.lines) => i \in 1..Len(f.lines) /\ g.lines[i] = f.lines[i]
            /\ Len(f.lines) \in Nat /\ Len(g.lines) \in Nat \ {0}
<1>t. /\ f.lines \in Seq(Record) /\ f.ended \in BOOLEAN /\ Len(f.lines) \in Nat
      /\ f = [lines |-> f.lines, ended |-> f.ended]
  BY DEF File
<1>1. CASE f.ended
  <2>1. Appended(f, l, ended) = [lines |-> Append(f.lines, l), ended |-> ended]
    BY <1>1 DEF Appended
  <2>2. Append(f.lines, l) \in Seq(Record) /\ Len(Append(f.lines, l)) = Len(f.lines) + 1
        /\ Append(f.lines, l)[Len(f.lines) + 1] = l
        /\ \A i \in 1..Len(f.lines) : Append(f.lines, l)[i] = f.lines[i]
        /\ Append(f.lines, l) # <<>>
    BY <1>t
  <2> QED BY <1>1, <1>t, <2>1, <2>2 DEF File
<1>2. CASE ~f.ended
  <2> DEFINE gs == [f.lines EXCEPT ![Len(f.lines)] = Rubbish]
  <2>1. Appended(f, l, ended) = [lines |-> gs, ended |-> ended]
    BY <1>2 DEF Appended
  <2>2. f.lines # <<>> /\ Len(f.lines) \in 1..Len(f.lines)
    BY <1>2, <1>t DEF Sound
  <2>3. gs \in Seq(Record) /\ Len(gs) = Len(f.lines) /\ gs[Len(f.lines)] = Rubbish
        /\ \A i \in 1..Len(f.lines) : i # Len(f.lines) => gs[i] = f.lines[i]
    BY <1>t, <2>2, RecordTypes
  <2>4. gs # <<>>
    BY <2>2, <2>3
  <2> HIDE DEF gs
  <2> QED BY <1>2, <1>t, <2>1, <2>2, <2>3, <2>4 DEF File
<1> QED BY <1>t, <1>1, <1>2

\* An append by whoever has read the last hash keeps the chain.
LEMMA AppendIsSound ==
  ASSUME NEW f \in File, Sound(f), NEW l \in Record, NEW ended \in BOOLEAN,
         NEW h, LastHash(f.lines) = {h},
         l.parses => l.prev = h /\ l.hash = Append(h, l.body)
  PROVE  Sound(Appended(f, l, ended))
<1> DEFINE g == Appended(f, l, ended)
<1>1. /\ g \in File /\ g.ended = ended /\ g.lines # <<>>
      /\ f.ended => /\ Len(g.lines) = Len(f.lines) + 1 /\ g.lines[Len(g.lines)] = l
      /\ ~f.ended => Len(g.lines) = Len(f.lines) /\ g.lines[Len(g.lines)] = Rubbish
      /\ \A i \in 1..Len(g.lines) : i < Len(g.lines) => i \in 1..Len(f.lines) /\ g.lines[i] = f.lines[i]
      /\ Len(f.lines) \in Nat /\ Len(g.lines) \in Nat \ {0}
  BY AppendedIs
<1>2. DOMAIN g.lines = 1..Len(g.lines) /\ DOMAIN f.lines = 1..Len(f.lines)
  BY <1>1 DEF File
<1>3. IF f.lines = <<>> THEN h = <<>> ELSE f.lines[Len(f.lines)].parses /\ h = f.lines[Len(f.lines)].hash
  BY LastHashIs DEF Last
<1>4. f.lines = <<>> <=> Len(f.lines) = 0
  BY <1>1 DEF File
<1>5. \A i \in 1..Len(f.lines) :
        /\ i < Len(f.lines) => f.lines[i].parses
        /\ f.lines[i].parses => /\ f.lines[i].prev = (IF i = 1 THEN <<>> ELSE f.lines[i - 1].hash)
                                /\ f.lines[i].hash = Append(f.lines[i].prev, f.lines[i].body)
  BY <1>2 DEF Sound
<1>6. ~Rubbish.parses
  BY RecordTypes
<1> HIDE DEF g
<1>7. ASSUME NEW i \in 1..Len(g.lines)
      PROVE  /\ i < Len(g.lines) => g.lines[i].parses
             /\ g.lines[i].parses => /\ g.lines[i].prev = (IF i = 1 THEN <<>> ELSE g.lines[i - 1].hash)
                                     /\ g.lines[i].hash = Append(g.lines[i].prev, g.lines[i].body)
  <2>1. CASE i < Len(g.lines)
    <3>1. i \in 1..Len(f.lines) /\ g.lines[i] = f.lines[i]
      BY <1>1, <2>1
    <3>2. i > 1 => g.lines[i - 1] = f.lines[i - 1]
      BY <1>1, <2>1
    <3>3. f.lines[i].parses
      BY <1>1, <1>3, <1>4, <1>5, <2>1, <3>1
    <3> QED BY <1>5, <3>1, <3>2, <3>3
  <2>2. CASE i = Len(g.lines) /\ f.ended
    <3>1. g.lines[i] = l /\ i = Len(f.lines) + 1
      BY <1>1, <2>2
    <3>2. i > 1 => g.lines[i - 1] = f.lines[Len(f.lines)]
      BY <1>1, <3>1
    <3>3. h = (IF i = 1 THEN <<>> ELSE g.lines[i - 1].hash)
      BY <1>1, <1>3, <1>4, <3>1, <3>2
    <3>4. g.lines[i].parses => g.lines[i].prev = h /\ g.lines[i].hash = Append(h, g.lines[i].body)
      BY <3>1
    <3>5. g.lines[i].parses => g.lines[i].hash = Append(g.lines[i].prev, g.lines[i].body)
      BY <3>4
    <3>6. g.lines[i].parses => g.lines[i].prev = (IF i = 1 THEN <<>> ELSE g.lines[i - 1].hash)
      BY <3>3, <3>4
    <3>7. ~(i < Len(g.lines))
      BY <1>1, <2>2
    <3> QED BY <3>5, <3>6, <3>7
  <2>3. CASE i = Len(g.lines) /\ ~f.ended
    BY <1>1, <1>6, <2>3
  <2> QED BY <1>1, <2>1, <2>2, <2>3
<1> QED BY <1>1, <1>2, <1>7 DEF Sound, g

\* An append adds its event once; without a newline before it, it costs its own event at most.
LEMMA AppendIsRecorded ==
  ASSUME NEW f \in File, Sound(f), NEW l \in Record, NEW ended \in BOOLEAN,
         NEW h, LastHash(f.lines) = {h},
         NEW d, NEW all, NEW n \in Nat, RecordedIn(f.lines, f.ended, d, all, n), <<0, d>> \notin all,
         NEW e \in 1..n, <<e, d>> \notin all, \A i \in DOMAIN f.lines : f.lines[i].body # e,
         l.body \in {0, e},
         NEW more, more = all \/ (more = all \cup {<<e, d>>} /\ l.body = e /\ ended)
  PROVE  RecordedIn(Appended(f, l, ended).lines, ended, d, more, n)
<1> DEFINE g == Appended(f, l, ended)
           fs == f.lines
           gs == g.lines
<1>1. /\ g \in File /\ g.ended = ended /\ gs # <<>>
      /\ f.ended => /\ Len(gs) = Len(fs) + 1 /\ gs[Len(gs)] = l
      /\ ~f.ended => Len(gs) = Len(fs) /\ gs[Len(gs)] = Rubbish
      /\ \A i \in 1..Len(gs) : i < Len(gs) => i \in 1..Len(fs) /\ gs[i] = fs[i]
      /\ Len(fs) \in Nat /\ Len(gs) \in Nat \ {0}
  BY AppendedIs
<1>2. DOMAIN gs = 1..Len(gs) /\ DOMAIN fs = 1..Len(fs)
  BY <1>1 DEF File
<1>3. fs = <<>> \/ Last(fs).parses
  BY LastHashIs
<1>4. /\ \A k \in 1..n : <<k, d>> \in all => Once(k, fs)
      /\ ~f.ended => <<Last(fs).body, d>> \notin all
      /\ \A i \in 1..Len(fs) : fs[i].body \in 0..n
  BY <1>2, <1>3 DEF RecordedIn
<1>5. ~Rubbish.parses /\ Rubbish.body = 0
  BY RecordTypes
<1>a. \A i \in 1..Len(fs) : fs[i].body # e
  BY <1>2
<1>b. \A i \in 1..Len(gs) : i = Len(gs) \/ (i \in 1..Len(fs) /\ gs[i] = fs[i])
  BY <1>1
<1> HIDE DEF g, fs, gs
<1>6. ASSUME NEW k \in 1..n, k # e, <<k, d>> \in all PROVE Once(k, gs)
  <2>1. PICK i \in 1..Len(fs) : fs[i].body = k /\ \A j \in 1..Len(fs) : fs[j].body = k => j = i
    BY <1>2, <1>4, <1>6 DEF Once
  <2>2. i \in 1..Len(gs) /\ i < Len(gs)
    <3>1. CASE f.ended
      BY <1>1, <3>1
    <3>2. CASE ~f.ended
      <4>1. i # Len(fs)
        BY <1>4, <1>6, <2>1, <3>2 DEF Last
      <4> QED BY <1>1, <3>2, <4>1
    <3> QED BY <3>1, <3>2
  <2>3. gs[Len(gs)].body # k
    BY <1>1, <1>5, <1>6
  <2>4. \A j \in 1..Len(gs) : gs[j].body = k => j = i
    BY <1>b, <2>1, <2>3
  <2>5. gs[i].body = k
    BY <1>1, <2>1, <2>2
  <2> QED BY <1>2, <2>2, <2>4, <2>5 DEF Once
<1>7. \A i \in 1..Len(gs) : gs[i].body \in 0..n
  <2>1. gs[Len(gs)].body \in 0..n
    BY <1>1, <1>5
  <2> QED BY <1>b, <1>4, <2>1
<1>8. \A k \in 1..n : k # e /\ <<k, d>> \in more => Once(k, gs)
  BY <1>6
<1>9. ~ended => <<Last(gs).body, d>> \notin more
  BY <1>1, <1>5 DEF Last
<1>10. CASE f.ended
  <2>1. <<e, d>> \in more => Once(e, gs)
    <3> SUFFICES ASSUME <<e, d>> \in more PROVE Once(e, gs)
      OBVIOUS
    <3>1. gs[Len(gs)].body = e
      BY <1>1, <1>10
    <3>2. \A j \in 1..Len(gs) : gs[j].body = e => j = Len(gs)
      BY <1>a, <1>b
    <3>3. Len(gs) \in 1..Len(gs)
      BY <1>1
    <3> QED BY <3>1, <3>2, <3>3 DEF Once
  <2>2. \A k \in 1..n : <<k, d>> \in more => Once(k, gs)
    BY <1>8, <2>1
  <2> QED BY <1>2, <1>7, <1>9, <2>2 DEF RecordedIn, g, gs
<1>11. CASE ~f.ended
  <2>1. gs # <<>> /\ ~Last(gs).parses
    BY <1>1, <1>5, <1>11 DEF Last
  <2>2. \E x \in 0..n : \A k \in 1..n : k # x /\ <<k, d>> \in more => Once(k, gs)
    <3>1. e \in 0..n
      OBVIOUS
    <3> QED BY <1>8, <3>1
  <2> QED BY <1>2, <1>7, <1>9, <2>1, <2>2 DEF RecordedIn, g, gs
<1> QED BY <1>10, <1>11

-----------------------------------------------------------------------------
(* The steps.                                                              *)

AuditContext == AuditAssumption /\ AuditInv

\* The step that writes, whole or torn.
Writes(w, l, ended) ==
  /\ stage[w] = "sealed" /\ AppendTo(day[w], l, ended) /\ Unlock(w)
  /\ emitted' = emitted \/ (emitted' = emitted \cup {<<emitting[w], day[w]>>} /\ l.body = emitting[w] /\ ended)
  /\ UNCHANGED <<today, day, prev, events, emitting, pruned>>

WritesLine(w, l) == l \in {Rubbish, Line(prev[w], emitting[w])}

LEMMA WritesAre ==
  ASSUME AuditContext, NEW w \in Writers, WriteRecord(w) \/ \E how \in Torn : WriteTorn(w, how)
  PROVE  \E l \in Record, ended \in BOOLEAN : WritesLine(w, l) /\ Writes(w, l, ended)
<1>1. prev[w] \in Seq(Nat) /\ emitting[w] \in Nat
  BY DEF AuditContext, AuditInv, AuditTypes, AuditAssumption
<1>2. Rubbish \in Record /\ Line(prev[w], emitting[w]) \in Record /\ Line(prev[w], emitting[w]).body = emitting[w]
  BY <1>1, RecordTypes
<1>3. CASE WriteRecord(w)
  <2>1. Writes(w, Line(prev[w], emitting[w]), TRUE)
    BY <1>2, <1>3 DEF WriteRecord, Writes
  <2> QED BY <1>2, <2>1 DEF WritesLine
<1>4. CASE \E how \in Torn : WriteTorn(w, how)
  <2>1. Writes(w, Rubbish, FALSE) \/ Writes(w, Line(prev[w], emitting[w]), FALSE)
    BY <1>4 DEF WriteTorn, Writes
  <2> QED BY <1>2, <2>1 DEF WritesLine
<1> QED BY <1>3, <1>4

LEMMA WritesKeep ==
  ASSUME AuditContext, NEW w \in Writers, NEW l \in Record, NEW ended \in BOOLEAN,
         WritesLine(w, l), Writes(w, l, ended)
  PROVE  AuditInv'
<1> DEFINE D == day[w]
           f == logs[D]
           e == emitting[w]
<1>t. /\ D \in Days /\ f \in File /\ prev[w] \in Seq(Nat) /\ e \in 1..events /\ events \in Nat
      /\ stage[w] = "sealed" /\ lock = w /\ logs \in [Days -> File]
      /\ \A d \in Days : <<e, d>> \notin emitted /\ \A i \in DOMAIN logs[d].lines : logs[d].lines[i].body # e
      /\ e \in 0..MaxEvents
  BY DEF AuditContext, AuditInv, AuditTypes, LogIsHeld, EventIsNew, Writes, AuditAssumption
<1>l. /\ l.body \in {0, e} /\ (l.parses => l.prev = prev[w] /\ l.hash = Append(prev[w], l.body))
  BY <1>t, RecordTypes DEF WritesLine
<1>s. Sound(f)
  BY <1>t DEF AuditContext, AuditInv, FilesAreSound
<1>1. /\ UNCHANGED <<today, day, prev, events, emitting, pruned>>
      /\ stage' = [stage EXCEPT ![w] = "idle"] /\ lock' = Nobody
      /\ logs' = IF D \in pruned THEN logs ELSE [logs EXCEPT ![D] = Appended(f, l, ended)]
      /\ emitted' = emitted \/ (emitted' = emitted \cup {<<e, D>>} /\ l.body = e /\ ended)
  BY DEF Writes, Unlock, AppendTo
<1>2. Appended(f, l, ended) \in File /\ Appended(f, l, ended).ended = ended
  BY <1>t, <1>s, AppendedIs
<1>3. logs' \in [Days -> File] /\ \A d \in Days \ {D} : logs'[d] = logs[d]
  BY <1>1, <1>2, <1>t
<1>4. IF D \in pruned THEN logs'[D] = f ELSE logs'[D] = Appended(f, l, ended)
  BY <1>1, <1>t
<1>5. AuditTypes'
  BY <1>1, <1>3, <1>t DEF AuditContext, AuditInv, AuditTypes
<1>6. LogIsHeld' /\ \A v \in Writers : stage'[v] = "idle"
  BY <1>1, <1>t DEF AuditContext, AuditInv, AuditTypes, LogIsHeld, AuditAssumption
<1>7. SealIsCurrent' /\ EventIsNew'
  BY <1>6 DEF SealIsCurrent, EventIsNew
<1>8. D \notin pruned => LastHash(f.lines) = {prev[w]}
  BY <1>t DEF AuditContext, AuditInv, SealIsCurrent
<1>9. FilesAreSound'
  <2>1. Sound(logs'[D])
    BY <1>4, <1>8, <1>l, <1>s, <1>t, AppendIsSound
  <2> QED BY <2>1, <1>3 DEF FilesAreSound, AuditContext, AuditInv
<1>10. \A d \in Days : <<0, d>> \notin emitted /\ <<0, d>> \notin emitted'
  BY <1>1, <1>t DEF AuditContext, AuditInv, AuditTypes
<1>11. Recorded' /\ BodiesAreEvents'
  <2>1. D \notin pruned => RecordedIn(logs'[D].lines, logs'[D].ended, D, emitted', events)
    <3> SUFFICES ASSUME D \notin pruned PROVE RecordedIn(logs'[D].lines, logs'[D].ended, D, emitted', events)
      OBVIOUS
    <3>1. RecordedIn(f.lines, f.ended, D, emitted, events)
      BY <1>t DEF AuditContext, AuditInv, Recorded
    <3>2. RecordedIn(Appended(f, l, ended).lines, ended, D, emitted', events)
      BY <3>1, <1>1, <1>8, <1>10, <1>l, <1>s, <1>t, AppendIsRecorded
    <3> QED BY <3>2, <1>2, <1>4
  <2>2. ASSUME NEW d \in Days \ pruned, d # D
        PROVE  RecordedIn(logs'[d].lines, logs'[d].ended, d, emitted', events)
    <3>1. RecordedIn(logs[d].lines, logs[d].ended, d, emitted, events) /\ logs'[d] = logs[d]
      BY <1>3, <2>2 DEF AuditContext, AuditInv, Recorded
    <3>2. \A k : <<k, d>> \in emitted' <=> <<k, d>> \in emitted
      BY <1>1, <2>2
    <3> QED BY <3>1, <3>2 DEF RecordedIn
  <2>3. Recorded'
    BY <1>1, <2>1, <2>2 DEF Recorded
  <2>4. ASSUME NEW d \in Days PROVE \A i \in DOMAIN logs'[d].lines : logs'[d].lines[i].body \in 0..events
    <3>1. CASE logs'[d] = logs[d]
      BY <3>1 DEF AuditContext, AuditInv, BodiesAreEvents
    <3>2. CASE d \notin pruned
      BY <3>2, <2>1, <2>2 DEF RecordedIn
    <3> QED BY <3>1, <3>2, <1>3, <1>4
  <2> QED BY <2>3, <2>4, <1>1 DEF BodiesAreEvents
<1> QED BY <1>5, <1>6, <1>7, <1>9, <1>11 DEF AuditInv

LEMMA AuditStep ==
  ASSUME AuditContext, AuditNext
  PROVE  AuditInv'
<1> USE DEF AuditContext, AuditInv
<1>1. ASSUME NEW w \in Writers, BeginAppend(w) PROVE AuditInv'
  <2>1. /\ stage[w] = "idle" /\ lock = Nobody /\ lock' = w /\ events < MaxEvents
        /\ events' = events + 1 /\ emitting' = [emitting EXCEPT ![w] = events + 1]
        /\ stage' = [stage EXCEPT ![w] = "open"] /\ day' = [day EXCEPT ![w] = today]
        /\ UNCHANGED <<today, logs, prev, emitted, pruned>>
    BY <1>1 DEF BeginAppend
  <2>2. events + 1 \in 1..MaxEvents /\ events \in Nat /\ 1..events \subseteq 1..(events + 1) /\ 0..events \subseteq 0..(events + 1)
    BY <2>1 DEF AuditTypes, AuditAssumption
  <2>3. AuditTypes'
    BY <2>1, <2>2 DEF AuditTypes
  <2>4. LogIsHeld'
    BY <2>1 DEF LogIsHeld, AuditTypes, AuditAssumption
  <2>5. FilesAreSound' /\ SealIsCurrent'
    BY <2>1 DEF FilesAreSound, SealIsCurrent, LogIsHeld, AuditTypes, AuditAssumption
  <2>6. \A v \in Writers : stage'[v] # "idle" => v = w
    BY <2>4, <2>1 DEF LogIsHeld
  <2>7. emitting'[w] = events + 1
    BY <2>1 DEF AuditTypes
  <2>8. \A d \in Days : <<events + 1, d>> \notin emitted
    BY <2>2 DEF AuditTypes
  <2>9. \A d \in Days : \A i \in DOMAIN logs[d].lines : logs[d].lines[i].body # events + 1
    BY <2>2 DEF BodiesAreEvents
  <2>10. EventIsNew'
    BY <2>1, <2>2, <2>6, <2>7, <2>8, <2>9 DEF EventIsNew
  <2>11. BodiesAreEvents'
    BY <2>1, <2>2 DEF BodiesAreEvents
  <2>12. Recorded'
    <3> SUFFICES ASSUME NEW d \in Days \ pruned
                 PROVE  RecordedIn(logs[d].lines, logs[d].ended, d, emitted, events + 1)
      BY <2>1 DEF Recorded
    <3>1. RecordedIn(logs[d].lines, logs[d].ended, d, emitted, events)
      BY DEF Recorded
    <3>2. \A k \in 1..(events + 1) : <<k, d>> \in emitted => k \in 1..events
      BY DEF AuditTypes
    <3> QED BY <3>1, <3>2, <2>2 DEF RecordedIn
  <2> QED BY <2>3, <2>4, <2>5, <2>10, <2>11, <2>12
<1>2. ASSUME NEW w \in Writers, LockTimeout(w) PROVE AuditInv'
  <2>1. events < MaxEvents /\ events' = events + 1
        /\ UNCHANGED <<today, logs, lock, stage, day, prev, emitting, emitted, pruned>>
    BY <1>2 DEF LockTimeout
  <2>2. events + 1 \in 1..MaxEvents /\ events \in Nat /\ 1..events \subseteq 1..(events + 1) /\ 0..events \subseteq 0..(events + 1)
    BY <2>1 DEF AuditTypes, AuditAssumption
  <2>3. AuditTypes'
    BY <2>1, <2>2 DEF AuditTypes
  <2>4. LogIsHeld' /\ FilesAreSound' /\ SealIsCurrent' /\ BodiesAreEvents' /\ EventIsNew'
    BY <2>1, <2>2 DEF LogIsHeld, FilesAreSound, SealIsCurrent, BodiesAreEvents, EventIsNew
  <2>5. Recorded'
    <3> SUFFICES ASSUME NEW d \in Days \ pruned
                 PROVE  RecordedIn(logs[d].lines, logs[d].ended, d, emitted, events + 1)
      BY <2>1 DEF Recorded
    <3>1. RecordedIn(logs[d].lines, logs[d].ended, d, emitted, events)
      BY DEF Recorded
    <3>2. \A k \in 1..(events + 1) : <<k, d>> \in emitted => k \in 1..events
      BY DEF AuditTypes
    <3> QED BY <3>1, <3>2, <2>2 DEF RecordedIn
  <2> QED BY <2>3, <2>4, <2>5
<1>3. ASSUME NEW w \in Writers, Seal(w) PROVE AuditInv'
  <2>1. PICK h \in LastHash(logs[day[w]].lines) : prev' = [prev EXCEPT ![w] = h]
    BY <1>3 DEF Seal
  <2>2. /\ stage[w] = "open" /\ stage' = [stage EXCEPT ![w] = "sealed"]
        /\ UNCHANGED <<today, logs, lock, day, events, emitting, emitted, pruned>>
    BY <1>3 DEF Seal
  <2>3. LastHash(logs[day[w]].lines) = {h}
    BY <2>1 DEF LastHash
  <2>4. h \in Seq(Nat)
    <3>1. logs[day[w]].lines \in Seq(Record) /\ <<>> \in Seq(Nat)
      BY DEF AuditTypes, File
    <3>2. logs[day[w]].lines # <<>> => Last(logs[day[w]].lines) \in Record
      BY <3>1 DEF Last
    <3> QED BY <2>3, <3>1, <3>2, LastHashIs DEF Record
  <2>5. AuditTypes'
    BY <2>1, <2>2, <2>4 DEF AuditTypes
  <2>6. LogIsHeld' /\ EventIsNew'
    BY <2>2 DEF LogIsHeld, EventIsNew, AuditTypes
  <2>7. SealIsCurrent'
    BY <2>1, <2>2, <2>3 DEF SealIsCurrent, AuditTypes
  <2>8. FilesAreSound' /\ Recorded' /\ BodiesAreEvents'
    BY <2>2 DEF FilesAreSound, Recorded, BodiesAreEvents
  <2> QED BY <2>5, <2>6, <2>7, <2>8
<1>4. ASSUME NEW w \in Writers, SealFails(w) \/ WriterCrash(w) PROVE AuditInv'
  <2>1. /\ stage[w] # "idle" /\ lock' = Nobody /\ stage' = [stage EXCEPT ![w] = "idle"]
        /\ UNCHANGED <<today, logs, day, prev, events, emitting, emitted, pruned>>
    BY <1>4 DEF SealFails, WriterCrash, Unlock
  <2>2. AuditTypes'
    BY <2>1 DEF AuditTypes
  <2>3. LogIsHeld' /\ \A v \in Writers : stage'[v] = "idle"
    BY <2>1 DEF LogIsHeld, AuditTypes, AuditAssumption
  <2>4. SealIsCurrent' /\ EventIsNew'
    BY <2>3 DEF SealIsCurrent, EventIsNew
  <2>5. FilesAreSound' /\ Recorded' /\ BodiesAreEvents'
    BY <2>1 DEF FilesAreSound, Recorded, BodiesAreEvents
  <2> QED BY <2>2, <2>3, <2>4, <2>5
<1>5. ASSUME NEW w \in Writers, WriteRecord(w) \/ \E how \in Torn : WriteTorn(w, how) PROVE AuditInv'
  BY <1>5, WritesAre, WritesKeep
<1>6. ASSUME NEW d \in Days, Prune(d) PROVE AuditInv'
  <2> DEFINE empty == [lines |-> <<>>, ended |-> TRUE]
  <2>1. /\ logs' = [logs EXCEPT ![d] = empty] /\ pruned' = pruned \cup {d}
        /\ UNCHANGED <<today, lock, stage, day, prev, events, emitting, emitted>>
    BY <1>6 DEF Prune
  <2>2. empty \in File /\ empty.lines = <<>> /\ DOMAIN empty.lines = {} /\ empty.ended
    BY DEF File
  <2> HIDE DEF empty
  <2>3. logs' \in [Days -> File] /\ logs'[d] = empty /\ \A c \in Days \ {d} : logs'[c] = logs[c]
    BY <2>1, <2>2 DEF AuditTypes
  <2>4. AuditTypes'
    BY <2>1, <2>3 DEF AuditTypes
  <2>5. LogIsHeld'
    BY <2>1 DEF LogIsHeld
  <2>6. Sound(empty)
    BY <2>2 DEF Sound
  <2>7. FilesAreSound' /\ BodiesAreEvents'
    BY <2>1, <2>2, <2>3, <2>6 DEF FilesAreSound, BodiesAreEvents
  <2>8. SealIsCurrent'
    BY <2>1, <2>3 DEF SealIsCurrent, AuditTypes
  <2>9. EventIsNew'
    BY <2>1, <2>2, <2>3 DEF EventIsNew
  <2>10. Recorded'
    BY <2>1, <2>3 DEF Recorded
  <2> QED BY <2>4, <2>5, <2>7, <2>8, <2>9, <2>10
<1>7. CASE ClockMoves
  <2>1. today' \in Days /\ UNCHANGED <<logs, lock, stage, day, prev, events, emitting, emitted, pruned>>
    BY <1>7 DEF ClockMoves
  <2> QED BY <2>1 DEF AuditTypes, LogIsHeld, FilesAreSound, SealIsCurrent, EventIsNew, Recorded, BodiesAreEvents
<1> QED BY <1>1, <1>2, <1>3, <1>4, <1>5, <1>6, <1>7 DEF AuditNext, Emit

LEMMA AuditInvHolds == AuditSpec => []AuditInv
<1>1. AuditInit => AuditInv
  <2> SUFFICES ASSUME AuditInit PROVE AuditInv
    OBVIOUS
  <2> DEFINE empty == [lines |-> <<>>, ended |-> TRUE]
  <2>1. empty \in File /\ empty.lines = <<>> /\ DOMAIN empty.lines = {} /\ empty.ended
    BY DEF File
  <2>2. \A d \in Days : logs[d] = empty
    BY DEF AuditInit
  <2>3. logs \in [Days -> File]
    BY <2>1 DEF AuditInit
  <2> HIDE DEF empty
  <2>4. AuditTypes
    BY <2>3, AuditAssumption DEF AuditInit, AuditTypes, AuditAssumption
  <2>5. LogIsHeld /\ SealIsCurrent /\ EventIsNew
    BY AuditAssumption DEF AuditInit, LogIsHeld, SealIsCurrent, EventIsNew, AuditAssumption
  <2>6. Sound(empty)
    BY <2>1 DEF Sound
  <2>7. FilesAreSound /\ BodiesAreEvents
    BY <2>1, <2>2, <2>6 DEF FilesAreSound, BodiesAreEvents
  <2>8. Recorded
    BY <2>1, <2>2 DEF AuditInit, Recorded, RecordedIn
  <2> QED BY <2>4, <2>5, <2>7, <2>8 DEF AuditInv
<1>2. AuditInv /\ [AuditNext]_auditVars => AuditInv'
  <2> SUFFICES ASSUME AuditInv, [AuditNext]_auditVars PROVE AuditInv'
    OBVIOUS
  <2>1. CASE AuditNext
    BY <2>1, AuditAssumption, AuditStep DEF AuditContext
  <2>2. CASE UNCHANGED auditVars
    BY <2>2 DEF auditVars, AuditInv, AuditTypes, LogIsHeld, FilesAreSound, SealIsCurrent, EventIsNew, Recorded, BodiesAreEvents
  <2> QED BY <2>1, <2>2
<1> QED BY <1>1, <1>2, PTL DEF AuditSpec

\* The audit log of any number of writers and days, however many writes stop short: every
\* file verifies up to its damage, nothing is recorded after it, and what Emit said was
\* recorded is there once, but for one event of a damaged file (sink.go:40-79,
\* chain.go:87-96).
THEOREM AuditIsSafe == AuditSpec => []AuditSafe
<1>1. AuditInv => AuditSafe
  <2> SUFFICES ASSUME AuditInv PROVE AuditSafe
    OBVIOUS
  <2> USE DEF AuditInv
  <2>t. ASSUME NEW d \in Days
        PROVE  /\ logs[d].lines \in Seq(Record) /\ Len(logs[d].lines) \in Nat
               /\ DOMAIN logs[d].lines = 1..Len(logs[d].lines) /\ Sound(logs[d])
    BY DEF AuditTypes, File, FilesAreSound
  <2>1. AuditTypeOK
    <3>1. \A d \in Days : \A i \in DOMAIN logs[d].lines :
            LET l == logs[d].lines[i] IN l.parses => l.hash = Append(l.prev, l.body)
      BY <2>t DEF Sound
    <3>2. \A d \in Days : logs[d].ended \/ logs[d].lines # <<>>
      BY <2>t DEF Sound
    <3> QED BY <3>1, <3>2 DEF AuditTypeOK, AuditTypes, LogIsHeld
  <2>2. ChainVerifies
    BY <2>t DEF ChainVerifies, Verifies, Sound
  <2>3. DamageIsLast
    <3> SUFFICES ASSUME NEW d \in Days, NEW i \in 1..Len(logs[d].lines), ~logs[d].lines[i].parses
                 PROVE  i = Len(logs[d].lines) /\ Verifies(SubSeq(logs[d].lines, 1, i - 1))
      BY <2>t DEF DamageIsLast
    <3> DEFINE ls == logs[d].lines
    <3>1. i = Len(ls)
      BY <2>t DEF Sound
    <3>2. /\ DOMAIN SubSeq(ls, 1, i - 1) = 1..(i - 1)
          /\ \A j \in 1..(i - 1) : SubSeq(ls, 1, i - 1)[j] = ls[j]
      BY <2>t, <3>1
    <3>3. \A j \in 1..(i - 1) : j \in 1..Len(ls) /\ j < Len(ls) /\ (j > 1 => j - 1 \in 1..(i - 1))
      BY <2>t, <3>1
    <3>4. \A j \in 1..(i - 1) : ls[j].parses /\ ls[j].prev = (IF j = 1 THEN <<>> ELSE ls[j - 1].hash)
      BY <2>t, <3>3 DEF Sound
    <3>5. Verifies(SubSeq(ls, 1, i - 1))
      <4> DEFINE ss == SubSeq(ls, 1, i - 1)
      <4>1. \A j \in 1..(i - 1) : ss[j].parses /\ ss[j].prev = (IF j = 1 THEN <<>> ELSE ss[j - 1].hash)
        BY <3>2, <3>3, <3>4
      <4> QED BY <3>2, <4>1 DEF Verifies
    <3> QED BY <3>1, <3>5
  <2>4. EmittedIsRecorded
    <3> SUFFICES ASSUME NEW d \in Days \ pruned
                 PROVE  LET ls   == logs[d].lines
                            lost == {e \in 1..events : <<e, d>> \in emitted
                                       /\ Cardinality({i \in DOMAIN ls : ls[i].body = e}) # 1}
                        IN Cardinality(lost) <= IF ls # <<>> /\ ~Last(ls).parses THEN 1 ELSE 0
      BY DEF EmittedIsRecorded
    <3> DEFINE ls   == logs[d].lines
               lost == {e \in 1..events : <<e, d>> \in emitted
                          /\ Cardinality({i \in DOMAIN ls : ls[i].body = e}) # 1}
    <3>1. ASSUME NEW e \in 1..events, Once(e, ls) PROVE e \notin lost
      <4>1. PICK i \in DOMAIN ls : ls[i].body = e /\ \A j \in DOMAIN ls : ls[j].body = e => j = i
        BY <2>t, <3>1 DEF Once
      <4>2. {j \in DOMAIN ls : ls[j].body = e} = {i}
        BY <4>1
      <4> QED BY <4>2, FS_Singleton
    <3>2. RecordedIn(ls, logs[d].ended, d, emitted, events)
      BY DEF Recorded
    <3>3. CASE ls = <<>> \/ Last(ls).parses
      <4>1. lost = {}
        BY <3>1, <3>2, <3>3 DEF RecordedIn
      <4>2. Cardinality(lost) = 0
        BY <4>1, FS_EmptySet
      <4> QED BY <3>3, <4>2
    <3>4. CASE ls # <<>> /\ ~Last(ls).parses
      <4>1. PICK x \in 0..events : \A e \in 1..events : e # x /\ <<e, d>> \in emitted => Once(e, ls)
        BY <3>2 DEF RecordedIn
      <4>2. lost \subseteq {x}
        BY <3>1, <4>1
      <4>3. IsFiniteSet({x}) /\ Cardinality({x}) = 1
        BY FS_Singleton
      <4>4. Cardinality(lost) <= 1
        BY <4>2, <4>3, FS_Subset
      <4> QED BY <3>4, <4>4
    <3> QED BY <3>3, <3>4
  <2> QED BY <2>1, <2>2, <2>3, <2>4 DEF AuditSafe
<1> QED BY <1>1, AuditInvHolds, PTL
=============================================================================
