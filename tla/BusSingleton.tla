---------------------------- MODULE BusSingleton ----------------------------
(***************************************************************************)
(* One bus daemon per identity: the bus.lock file (bus/lockfile.go), the   *)
(* socket path, the clients that find or start the bus (busctl/discover.go *)
(* and spawn.go), the commands that stop it (busctl/stop.go), and what the *)
(* operating system does to them: crashes, and PIDs handed out again.      *)
(***************************************************************************)
EXTENDS Naturals, FiniteSets

CONSTANTS
  Buses,       \* bus daemon processes, each started once
  Clients,     \* processes that call Discover
  Stoppers,    \* processes that call Stop
  Pids,        \* process ids
  Stranger,    \* any process that is not a bus
  None,
  Reuse,       \* may the OS hand out a PID again?
  MayLeave,    \* may a bus leave by itself (failed start, idle timeout)?
  MaxFaults    \* bound of the model: crashes and failed starts

ASSUME SingletonAssumption ==
  /\ Buses \cap Stoppers = {} /\ None \notin Buses \cup Stoppers \cup Pids
  /\ Stranger \notin Buses \cup {None}
  /\ Reuse \in BOOLEAN /\ MayLeave \in BOOLEAN /\ MaxFaults \in Nat

VARIABLES
  who, seen,        \* the process table: who runs under a PID; PIDs handed out so far
  flock, body,      \* bus.lock: who holds the flock, the PID in the file (or None)
  socket,           \* the bus the socket path is bound to, live or dead (or None)
  bus, pid,         \* per bus: where it is, its PID
  asked,            \* buses that accepted a stop request or were signalled
  client, child,    \* per Discover: where it is, the bus it spawned
  excused,          \* history: Discovers during which a bus crashed, failed, was shutting
                    \* down, or met a reused PID or the flock of a Stop's probe
  stopper, target, handle, \* per Stop: where it is, the PID it read, its os.Process
  hit,              \* history: was a process signalled that is not the bus?
  faults

files == <<flock, body, socket>>
procs == <<who, seen, bus, pid, asked>>
disc  == <<client, child, excused>>
stop  == <<stopper, target, handle, hit>>
vars  == <<files, procs, disc, stop, faults>>

Alive(p) == p # None /\ who[p] # None
Starting == {"exec", "locked", "cleared", "owner"}
Ending   == {"closing", "blanking", "releasing", "leaving"}
Up == \E b \in Buses : socket = b /\ bus[b] = "serving"

TypeOK ==
  /\ who \in [Pids -> Buses \cup {Stranger, None}] /\ seen \subseteq Pids
  /\ flock \in Buses \cup Stoppers \cup {None}
  /\ body \in Pids \cup {None} /\ socket \in Buses \cup {None}
  /\ bus \in [Buses -> Starting \cup Ending
                         \cup {"unborn", "serving", "busy", "refused", "failed", "gone"}]
  /\ pid \in [Buses -> Pids \cup {None}] /\ asked \subseteq Buses
  /\ client \in [Clients -> {"begin", "dial", "spawn", "await", "redial",
                             "connected", "failed", "error"}]
  /\ child \in [Clients -> Buses \cup {None}]
  /\ excused \subseteq Clients
  /\ stopper \in [Stoppers -> {"read", "alive", "find", "request", "wait", "check",
        "validate", "try", "reread", "probe", "release", "unowned", "signal", "await",
        "notRunning", "stopped", "unverified", "timedOut"}]
  /\ target \in [Stoppers -> Pids \cup {None}]
  /\ handle \in [Stoppers -> Buses \cup {Stranger, None}]
  /\ hit \in BOOLEAN /\ faults \in Nat

Init ==
  /\ who = [p \in Pids |-> None] /\ seen = {}
  /\ flock = None /\ body = None /\ socket = None
  /\ bus = [b \in Buses |-> "unborn"] /\ pid = [b \in Buses |-> None]
  /\ asked = {}
  /\ client = [d \in Clients |-> "begin"] /\ child = [d \in Clients |-> None]
  /\ excused = {}
  /\ stopper = [s \in Stoppers |-> "read"] /\ target = [s \in Stoppers |-> None]
  /\ handle = [s \in Stoppers |-> None]
  /\ hit = FALSE /\ faults = 0

-----------------------------------------------------------------------------
(* The operating system.                                                   *)

Free(p) == who[p] = None /\ (Reuse \/ p \notin seen)

StrangerStarts(p) ==
  /\ Reuse /\ who[p] = None
  /\ who' = [who EXCEPT ![p] = Stranger] /\ seen' = seen \cup {p}
  /\ UNCHANGED <<files, bus, pid, asked, disc, stop, faults>>

StrangerExits(p) ==
  /\ who[p] = Stranger
  /\ who' = [who EXCEPT ![p] = None]
  /\ UNCHANGED <<files, seen, bus, pid, asked, disc, stop, faults>>

\* A process ends: its PID is free, the kernel drops its flock.
Ends(b, how) ==
  /\ bus' = [bus EXCEPT ![b] = how]
  /\ who' = [who EXCEPT ![pid[b]] = None]
  /\ flock' = IF flock = b THEN None ELSE flock
  /\ UNCHANGED <<seen, pid, asked>>

Crash(b) ==
  /\ faults < MaxFaults
  /\ bus[b] \in Starting \cup Ending \cup {"serving"}
  /\ Ends(b, "gone")
  /\ faults' = faults + 1 /\ excused' = Clients
  /\ UNCHANGED <<body, socket, client, child, stop>>

-----------------------------------------------------------------------------
(* The bus daemon: Acquire, Run, shutdown, Close.                          *)

\* Mutant of TryLock: the PID in the file decides, not the flock.
TryLock_ByPid(b) ==
  /\ bus[b] = "exec"
  /\ IF Alive(body)
       THEN Ends(b, "busy")
       ELSE /\ flock' = b
            /\ bus' = [bus EXCEPT ![b] = "locked"]
            /\ UNCHANGED <<who, seen, pid, asked>>
  /\ UNCHANGED <<body, socket, disc, stop, faults>>

\* TryAcquire; on ErrBusy the daemon reports E on the ready pipe and exits.
TryLock(b) ==
  /\ bus[b] = "exec"
  /\ IF flock # None
       THEN Ends(b, "busy")
       ELSE /\ flock' = b
            /\ bus' = [bus EXCEPT ![b] = "locked"]
            /\ UNCHANGED <<who, seen, pid, asked>>
  /\ excused' = IF flock \in Stoppers THEN Clients ELSE excused
  /\ UNCHANGED <<body, socket, client, child, stop, faults>>

\* The file names a live process: ErrStaleOwnerAlive, the flock is released.
Refuse(b) ==
  /\ bus[b] = "locked" /\ Alive(body)
  /\ Ends(b, "refused")
  /\ excused' = IF who[body] \in Buses \ {b} THEN excused ELSE Clients
  /\ UNCHANGED <<body, socket, client, child, stop, faults>>

\* Otherwise take over: truncate the file ...
Clear(b) ==
  /\ bus[b] = "locked" /\ ~Alive(body)
  /\ body' = None
  /\ bus' = [bus EXCEPT ![b] = "cleared"]
  /\ UNCHANGED <<flock, socket, who, seen, pid, asked, disc, stop, faults>>

\* Mutant of WritePid: Getppid for Getpid, the spawner is named.
WritePid_Parent(b) ==
  /\ bus[b] = "cleared"
  /\ body' = CHOOSE d \in Clients : child[d] = b
  /\ bus' = [bus EXCEPT ![b] = "owner"]
  /\ UNCHANGED <<flock, socket, who, seen, pid, asked, disc, stop, faults>>

\* ... and write our own PID.
WritePid(b) ==
  /\ bus[b] = "cleared"
  /\ body' = pid[b]
  /\ bus' = [bus EXCEPT ![b] = "owner"]
  /\ UNCHANGED <<flock, socket, who, seen, pid, asked, disc, stop, faults>>

\* bus.meta or the listener cannot be set up: E, then the deferred lock.Close.
StartFails(b) ==
  /\ bus[b] = "owner" /\ MayLeave /\ faults < MaxFaults
  /\ bus' = [bus EXCEPT ![b] = "blanking"]
  /\ faults' = faults + 1 /\ excused' = Clients
  /\ UNCHANGED <<files, who, seen, pid, asked, client, child, stop>>

\* Mutant of Listen: a stale socket path makes the bind fail.
Listen_KeepsStale(b) ==
  /\ bus[b] = "owner"
  /\ bus' = [bus EXCEPT ![b] = IF socket = None THEN "serving" ELSE "blanking"]
  /\ socket' = IF socket = None THEN b ELSE socket
  /\ UNCHANGED <<flock, body, who, seen, pid, asked, disc, stop, faults>>

\* listen removes whatever is at the path and binds it; then R on the ready pipe.
Listen(b) ==
  /\ bus[b] = "owner"
  /\ socket' = b
  /\ bus' = [bus EXCEPT ![b] = "serving"]
  /\ UNCHANGED <<flock, body, who, seen, pid, asked, disc, stop, faults>>

\* shutdown: listener.Close unlinks the path; draining consumers comes next.
CloseListener(b) ==
  /\ bus[b] = "serving" /\ (MayLeave \/ b \in asked)
  /\ socket' = None
  /\ bus' = [bus EXCEPT ![b] = "closing"]
  /\ excused' = Clients
  /\ UNCHANGED <<flock, body, who, seen, pid, asked, client, child, stop, faults>>

\* Run's deferred listener.Close unlinks the path a second time.
CloseListenerAgain(b) ==
  /\ bus[b] = "closing"
  /\ socket' = None
  /\ bus' = [bus EXCEPT ![b] = "blanking"]
  /\ UNCHANGED <<flock, body, who, seen, pid, asked, disc, stop, faults>>

\* Run's deferred lock.Close blanks the file ...
Blank(b) ==
  /\ bus[b] = "blanking"
  /\ body' = None
  /\ bus' = [bus EXCEPT ![b] = "releasing"]
  /\ UNCHANGED <<flock, socket, who, seen, pid, asked, disc, stop, faults>>

\* ... and then releases the flock.
Release(b) ==
  /\ bus[b] = "releasing"
  /\ flock' = None
  /\ bus' = [bus EXCEPT ![b] = "leaving"]
  /\ UNCHANGED <<body, socket, who, seen, pid, asked, disc, stop, faults>>

Exit(b) ==
  /\ bus[b] = "leaving"
  /\ Ends(b, "gone")
  /\ UNCHANGED <<body, socket, disc, stop, faults>>

Daemon(b) ==
  \/ TryLock(b) \/ Refuse(b) \/ Clear(b) \/ WritePid(b) \/ StartFails(b) \/ Listen(b)
  \/ CloseListener(b) \/ CloseListenerAgain(b) \/ Blank(b) \/ Release(b) \/ Exit(b)

-----------------------------------------------------------------------------
(* Discover: dial, else spawn once and dial again until the deadline.      *)

Begin(d) ==
  /\ client[d] = "begin"
  /\ client' = [client EXCEPT ![d] = "dial"]
  /\ excused' = IF \E b \in Buses : bus[b] \in Ending THEN excused \cup {d} ELSE excused \ {d}
  /\ UNCHANGED <<files, procs, child, stop, faults>>

Dial(d) ==
  /\ client[d] = "dial"
  /\ client' = [client EXCEPT ![d] = IF Up THEN "connected" ELSE "spawn"]
  /\ UNCHANGED <<files, procs, child, excused, stop, faults>>

Spawn(d, b, p) ==
  /\ client[d] = "spawn" /\ bus[b] = "unborn" /\ Free(p)
  /\ bus' = [bus EXCEPT ![b] = "exec"]
  /\ pid' = [pid EXCEPT ![b] = p]
  /\ who' = [who EXCEPT ![p] = b] /\ seen' = seen \cup {p}
  /\ child' = [child EXCEPT ![d] = b]
  /\ client' = [client EXCEPT ![d] = "await"]
  /\ UNCHANGED <<files, asked, excused, stop, faults>>

\* waitReady: R, E or EOF on the ready pipe; either way dial again.
AwaitReady(d) ==
  /\ client[d] = "await" /\ bus[child[d]] \notin Starting
  /\ client' = [client EXCEPT ![d] = "redial"]
  /\ UNCHANGED <<files, procs, child, excused, stop, faults>>

\* ReadyTimeout, a hard error: only a start that hangs takes that long (a fault).
ReadyTimeout(d) ==
  /\ client[d] = "await" /\ bus[child[d]] \in Starting /\ faults < MaxFaults
  /\ client' = [client EXCEPT ![d] = "error"]
  /\ faults' = faults + 1 /\ excused' = Clients
  /\ UNCHANGED <<files, procs, child, stop>>

Redial(d) ==
  /\ client[d] = "redial" /\ Up
  /\ client' = [client EXCEPT ![d] = "connected"]
  /\ UNCHANGED <<files, procs, child, excused, stop, faults>>

\* The 5 s of redialling are over: they outlast any start and any shutdown.
GiveUp(d) ==
  /\ client[d] = "redial" /\ ~Up
  /\ \A b \in Buses : bus[b] \notin Starting \cup Ending
  /\ client' = [client EXCEPT ![d] = "failed"]
  /\ UNCHANGED <<files, procs, child, excused, stop, faults>>

Discover(d) ==
  \/ Begin(d) \/ Dial(d) \/ AwaitReady(d) \/ ReadyTimeout(d) \/ Redial(d) \/ GiveUp(d)
  \/ \E b \in Buses, p \in Pids : Spawn(d, b, p)

-----------------------------------------------------------------------------
(* Stop: graceful request, then a validated signal.                        *)

Step(s, from, to) == stopper[s] = from /\ stopper' = [stopper EXCEPT ![s] = to]

\* ReadHolderPID.
ReadPid(s) ==
  /\ Step(s, "read", IF body = None THEN "notRunning" ELSE "alive")
  /\ target' = [target EXCEPT ![s] = body]
  /\ UNCHANGED <<files, procs, disc, handle, hit, faults>>

CheckAlive(s) ==
  /\ Step(s, "alive", IF Alive(target[s]) THEN "find" ELSE "notRunning")
  /\ UNCHANGED <<files, procs, disc, target, handle, hit, faults>>

\* os.FindProcess: the handle stands for the process that has the PID now, or for
\* none when it is gone.
FindProcess(s) ==
  /\ Step(s, "find", "request")
  /\ handle' = [handle EXCEPT ![s] = who[target[s]]]
  /\ UNCHANGED <<files, procs, disc, target, hit, faults>>

\* requestBusStop reaches whatever bus serves the endpoint; without one it fails.
RequestStop(s) ==
  /\ Step(s, "request", IF Up THEN "wait" ELSE "check")
  /\ asked' = IF Up THEN asked \cup {socket} ELSE asked
  /\ UNCHANGED <<files, who, seen, bus, pid, disc, target, handle, hit, faults>>

\* Mutant of WaitExit: an accepted request is taken for a stop.
WaitExit_Trusting(s) ==
  /\ Step(s, "wait", "stopped")
  /\ UNCHANGED <<files, procs, disc, target, handle, hit, faults>>

\* waitForBusExit.
WaitExit(s) ==
  /\ ~Alive(target[s])
  /\ \/ Step(s, "wait", "stopped") \/ Step(s, "await", "stopped")
  /\ UNCHANGED <<files, procs, disc, target, handle, hit, faults>>

WaitTimeout(s) ==
  /\ Alive(target[s])
  /\ \/ Step(s, "wait", "check") \/ Step(s, "await", "timedOut")
  /\ UNCHANGED <<files, procs, disc, target, handle, hit, faults>>

\* The aliveness checks before validating and after an unowned verdict.
Recheck(s) ==
  /\ \/ Step(s, "check", IF Alive(target[s]) THEN "validate" ELSE "stopped")
     \/ Step(s, "unowned", IF Alive(target[s]) THEN "unverified" ELSE "stopped")
  /\ UNCHANGED <<files, procs, disc, target, handle, hit, faults>>

\* ValidateHolderOwnership: the file still names the PID ...
ValidateRead(s) ==
  /\ Step(s, "validate", IF body = target[s] THEN "try" ELSE "unowned")
  /\ UNCHANGED <<files, procs, disc, target, handle, hit, faults>>

\* ... then probe the flock; when it is busy read the PID again, ...
ValidateTry(s) ==
  /\ Step(s, "try", IF flock = None THEN "probe" ELSE "reread")
  /\ flock' = IF flock = None THEN s ELSE flock
  /\ UNCHANGED <<body, socket, procs, disc, target, handle, hit, faults>>

ValidateReread(s) ==
  /\ Step(s, "reread", IF body = target[s] THEN "signal" ELSE "unowned")
  /\ UNCHANGED <<files, procs, disc, target, handle, hit, faults>>

\* ... when it was free the PID is stale: clear it under the probe and release.
ValidateClear(s) ==
  /\ Step(s, "probe", "release")
  /\ body' = IF body = target[s] THEN None ELSE body
  /\ UNCHANGED <<flock, socket, procs, disc, target, handle, hit, faults>>

ValidateRelease(s) ==
  /\ Step(s, "release", "unowned")
  /\ flock' = None
  /\ UNCHANGED <<body, socket, procs, disc, target, handle, hit, faults>>

\* The signal goes to the process the handle stands for; ErrProcessDone otherwise.
SignalGone(s) ==
  /\ Step(s, "signal", "stopped")
  /\ handle[s] = None \/ who[target[s]] # handle[s]
  /\ UNCHANGED <<files, procs, disc, target, handle, hit, faults>>

Signal(s) ==
  /\ Step(s, "signal", "await")
  /\ handle[s] # None /\ who[target[s]] = handle[s]
  /\ asked' = asked \cup ({handle[s]} \cap Buses)
  /\ hit' = (hit \/ handle[s] = Stranger)
  /\ UNCHANGED <<files, who, seen, bus, pid, disc, target, handle, faults>>

Stop(s) ==
  \/ ReadPid(s) \/ CheckAlive(s) \/ FindProcess(s) \/ RequestStop(s) \/ WaitExit(s)
  \/ WaitTimeout(s) \/ Recheck(s) \/ ValidateRead(s) \/ ValidateTry(s)
  \/ ValidateReread(s) \/ ValidateClear(s) \/ ValidateRelease(s)
  \/ SignalGone(s) \/ Signal(s)

-----------------------------------------------------------------------------
Next ==
  \/ \E p \in Pids : StrangerStarts(p) \/ StrangerExits(p)
  \/ \E b \in Buses : Daemon(b) \/ Crash(b)
  \/ \E d \in Clients : Discover(d)
  \/ \E s \in Stoppers : Stop(s)

Spec == Init /\ [][Next]_vars

-----------------------------------------------------------------------------
(* Properties.                                                             *)

\* The bus that serves holds the flock, is the one the lock file names and the one
\* the socket path leads to: no dying bus, late probe or rival start takes any of the
\* three away from it (lockfile.go:158-172, transport_unix.go:152-158, Run's defers).
ServingIsReachable ==
  /\ TypeOK
  /\ \A b \in Buses : bus[b] = "serving" => flock = b /\ body = pid[b] /\ socket = b

\* "If the bus is not running, Discover forks a new one and waits for it to come up"
\* (discover.go:66): it fails only if meanwhile a bus crashed, failed to start, was
\* shutting down, was refused over a PID the OS has handed out again, or met the flock of
\* a Stop that was probing a stale PID.  The socket of an earlier crash, its PID while
\* unused, and other Discovers at work do not matter.
DiscoverConnects == \A d \in Clients : client[d] = "failed" => d \in excused

\* Stop reports success only when the bus whose PID it read has exited
\* (stop.go:67-69), however the request, the timeout and the signal interleave.
StopMeansGone ==
  \A s \in Stoppers : stopper[s] = "stopped" /\ handle[s] \in Buses
    => who[target[s]] # handle[s]

\* "Stop refuses to send a process-level signal in this state because the operating
\* system may have reused the stale PID" (stop.go:38-40).
NoStrangerSignalled == ~hit
=============================================================================
