--------------------------- MODULE ConnectDaemon ---------------------------
(* The processes of a robot connector (src/internal/helpers): connectors, in *)
(* the foreground or as workers of a supervisor, which hold the single-      *)
(* instance lock of their robot; the supervisor that restarts its worker;    *)
(* and the stop command, which finds them through daemon-state.json and the  *)
(* heartbeat file.  PIDs are not reused here, and every command is given the *)
(* key under which the daemon is filed.                                      *)
EXTENDS Naturals, FiniteSets

CONSTANTS Foregrounds, \* connectors started without a supervisor, by hand or by launchd
          Workers,     \* connector processes that supervisors may start, ever
          Supervisors, \* supervisor processes, one per `connect --daemon`
          Stops,       \* `connect stop` commands
          None,
          AlwaysOn,    \* --alwayson
          MaxFast,     \* daemonMaxFastFailures
          MaxMishaps    \* bound: crashes, failed connects and failed spawns

ASSUME DaemonConstants ==
  /\ (Foregrounds \cup Workers) \cap Supervisors = {} /\ None \notin Foregrounds \cup Workers \cup Supervisors
  /\ MaxFast \in Nat \ {0} /\ MaxMishaps \in Nat

Connectors == Foregrounds \cup Workers
Processes == Connectors \cup Supervisors

VARIABLES lock,      \* who created the file at the lock's path
          written,   \* connectors that have written their PID to the file they created
          heartbeat, \* the PID in the heartbeat file
          stateFile,     \* the PID in daemon-state.json
          conn,      \* connectors: where in acquireConnectLock, which attempt, whose worker
          sup,       \* supervisors: where in runSupervisor, the worker, failures in a row
          stop,      \* stop commands: where, and the process they wait for
          signalled, \* SIGTERM: not sent, sent before the supervisor listened, or received
          mishaps,    \* how much of MaxMishaps is used up
          overlapped,\* history: two connectors were in acquireConnectLock at once
          killed     \* history: processes that did not leave by themselves

files == <<lock, written, heartbeat, stateFile>>
daemonVars == <<files, conn, sup, stop, signalled, mishaps, overlapped, killed>>

Acquiring == {c \in Connectors: conn[c].pc \in {"create", "created", "read", "remove"}}
Up == {c \in Connectors: conn[c].pc = "up"}
Supervising == {s \in Supervisors: sup[s].pc \in {"starting", "recorded", "loop", "wait", "stopping"}}
Alive == Acquiring \cup Up \cup Supervising
Fault == mishaps < MaxMishaps /\ mishaps' = mishaps + 1

DaemonTypeOK ==
  /\ {lock, heartbeat} \subseteq Connectors \cup {None} /\ written \subseteq Connectors
  /\ stateFile \in Supervisors \cup {None}
  /\ conn \in [Connectors -> [pc: {"none", "create", "created", "read", "remove", "up", "dead"},
                              attempt: 0..2, parent: Supervisors \cup {None}]]
  /\ sup \in [Supervisors -> [pc: {"none", "starting", "recorded", "loop", "wait", "stopping", "dead"},
                              worker: Connectors \cup {None}, failures: 0..MaxFast]]
  /\ \A s \in Supervisors: sup[s].pc = "dead" \/ sup[s].failures < MaxFast
  /\ stop \in [Stops -> [pc: {"idle", "waiting", "orphan", "not_running", "cleaned_stale", "stopped",
                              "force_killed", "orphan_stopped"}, pid: Processes \cup {None}]]
  /\ signalled \in [Processes -> {"no", "lost", "received"}]
  /\ mishaps \in 0..MaxMishaps /\ overlapped \in BOOLEAN /\ killed \subseteq Processes

DaemonInit ==
  /\ lock = None /\ written = {} /\ heartbeat = None /\ stateFile = None
  /\ conn = [c \in Connectors |-> [pc |-> "none", attempt |-> 0, parent |-> None]]
  /\ sup = [s \in Supervisors |-> [pc |-> "none", worker |-> None, failures |-> 0]]
  /\ stop = [p \in Stops |-> [pc |-> "idle", pid |-> None]]
  /\ signalled = [p \in Processes |-> "no"]
  /\ mishaps = 0 /\ overlapped = FALSE /\ killed = {}

-----------------------------------------------------------------------------
(* A connector. *)

ConnAt(c, pc) == conn[c].pc = pc
ConnGoto(c, pc) == conn' = [conn EXCEPT ![c].pc = pc]

Launched(c, parent) ==
  /\ ConnAt(c, "none")
  /\ conn' = [conn EXCEPT ![c] = [pc |-> "create", attempt |-> 1, parent |-> parent]]
  /\ overlapped' = (overlapped \/ Acquiring # {})

Foreground(c) == /\ c \in Foregrounds
                 /\ Launched(c, None)
                 /\ UNCHANGED <<files, sup, stop, signalled, mishaps, killed>>

(* O_CREATE|O_EXCL *)
Create(c) ==
  /\ ConnAt(c, "create")
  /\ IF lock = None THEN lock' = c /\ ConnGoto(c, "created")
                    ELSE ConnGoto(c, "read") /\ UNCHANGED lock
  /\ UNCHANGED <<written, heartbeat, stateFile, sup, stop, signalled, mishaps, overlapped, killed>>

(* Fprintf, to whatever file it has open. *)
WritePid(c) ==
  /\ ConnAt(c, "created")
  /\ written' = written \cup {c}
  /\ ConnGoto(c, "up")
  /\ UNCHANGED <<lock, heartbeat, stateFile, sup, stop, signalled, mishaps, overlapped, killed>>

\* Mutant of Held: a PID in the file is enough.
Held_Named == lock \in written

(* The file names a live process. *)
Held == lock \in written /\ lock \in Alive

\* Mutant of Read: a refused connector removes the lock as if it were its own.
Read_Releases(c) ==
  /\ ConnAt(c, "read")
  /\ ConnGoto(c, IF Held THEN "dead" ELSE "remove")
  /\ lock' = IF Held THEN None ELSE lock
  /\ UNCHANGED <<written, heartbeat, stateFile, sup, stop, signalled, mishaps, overlapped, killed>>

Read(c) ==
  /\ ConnAt(c, "read")
  /\ ConnGoto(c, IF Held THEN "dead" ELSE "remove")
  /\ UNCHANGED <<files, sup, stop, signalled, mishaps, overlapped, killed>>

(* Stale: whatever is at the path now is removed, and tried once more. *)
RemoveStale(c) ==
  /\ ConnAt(c, "remove")
  /\ lock' = None
  /\ conn' = [conn EXCEPT ![c] = IF @.attempt = 1 THEN [@ EXCEPT !.pc = "create", !.attempt = 2]
                                 ELSE [@ EXCEPT !.pc = "dead"]]
  /\ UNCHANGED <<written, heartbeat, stateFile, sup, stop, signalled, mishaps, overlapped, killed>>

(* connectHealth: the first flush, and every tick until the context ends. *)
Beat(c) ==
  /\ c \in Up /\ heartbeat # c /\ signalled[c] = "no"
  /\ heartbeat' = c
  /\ UNCHANGED <<lock, written, stateFile, conn, sup, stop, signalled, mishaps, overlapped, killed>>

Hide(c) ==
  /\ c \in Up /\ heartbeat # None /\ signalled[c] = "received"
  /\ heartbeat' = None
  /\ UNCHANGED <<lock, written, stateFile, conn, sup, stop, signalled, mishaps, overlapped, killed>>

(* The connector returns: asked to, or because the stream does not connect.  *)
(* release removes whatever is at the path.                                  *)
Leave(c) ==
  /\ c \in Up
  /\ IF signalled[c] = "received" THEN UNCHANGED mishaps ELSE Fault
  /\ lock' = None
  /\ ConnGoto(c, "dead")
  /\ UNCHANGED <<written, heartbeat, stateFile, sup, stop, signalled, overlapped, killed>>

(* kill -9, a panic, the machine's memory: of a connector or a supervisor. *)
Dead(p) == /\ conn' = [c \in Connectors |-> IF c = p THEN [conn[c] EXCEPT !.pc = "dead"] ELSE conn[c]]
           /\ sup' = [s \in Supervisors |-> IF s = p THEN [sup[s] EXCEPT !.pc = "dead"] ELSE sup[s]]
           /\ killed' = killed \cup {p}

Crash(p) == /\ p \in Alive /\ Fault /\ Dead(p)
            /\ UNCHANGED <<files, stop, signalled, overlapped>>

(* SIGTERM: the first one is taken by the root command's handler and, once   *)
(* it has one, the supervisor's own; a second one kills.                     *)
Signal(p) ==
  IF p \in Alive /\ signalled[p] # "no" THEN Dead(p) /\ UNCHANGED signalled
  ELSE /\ signalled' = [signalled EXCEPT ![p] =
                          IF p \in Supervisors /\ sup[p].pc \in {"starting", "recorded"}
                          THEN "lost" ELSE "received"]
       /\ UNCHANGED <<conn, sup, killed>>

-----------------------------------------------------------------------------
(* The supervisor. *)

SupAt(s, pc) == sup[s].pc = pc
SupGoto(s, pc) == sup' = [sup EXCEPT ![s].pc = pc]

(* startDaemon: checked, then spawned. *)
StartDaemon(s) ==
  /\ SupAt(s, "none") /\ stateFile \notin Alive
  /\ SupGoto(s, "starting")
  /\ UNCHANGED <<files, conn, stop, signalled, mishaps, overlapped, killed>>

(* writeDaemonState: over whatever is there. *)
WriteState(s) ==
  /\ SupAt(s, "starting")
  /\ stateFile' = s
  /\ SupGoto(s, "recorded")
  /\ UNCHANGED <<lock, written, heartbeat, conn, stop, signalled, mishaps, overlapped, killed>>

(* daemonSignalContext *)
Listen(s) ==
  /\ SupAt(s, "recorded")
  /\ SupGoto(s, "loop")
  /\ UNCHANGED <<files, conn, stop, signalled, mishaps, overlapped, killed>>

Asked(s) == signalled[s] = "received"

(* The head of the loop, after the delay: stop, or start a worker. *)
Spawn(s) ==
  LET fresh == {c \in Workers: ConnAt(c, "none")}
      c == CHOOSE c \in fresh: TRUE
  IN  /\ SupAt(s, "loop") /\ ~Asked(s) /\ fresh # {}
      /\ Launched(c, s)
      /\ sup' = [sup EXCEPT ![s].pc = "wait", ![s].worker = c]
      /\ UNCHANGED <<files, stop, signalled, mishaps, killed>>

\* Mutant of Failed: one failure too many.
Failed_OneMore(s, pc) ==
  LET n == sup[s].failures + 1
  IN  [sup[s] EXCEPT !.failures = n, !.pc = IF n > MaxFast THEN "dead" ELSE pc]

(* A failed start or a short run; the last one that is allowed gives up. *)
Failed(s, pc) ==
  LET n == sup[s].failures + 1
  IN  [sup[s] EXCEPT !.failures = n, !.pc = IF n >= MaxFast THEN "dead" ELSE pc]

SpawnFails(s) ==
  /\ SupAt(s, "loop") /\ ~Asked(s) /\ Fault
  /\ sup' = [sup EXCEPT ![s] = Failed(s, "loop")]
  /\ UNCHANGED <<files, conn, stop, signalled, overlapped, killed>>

StopLoop(s) ==
  /\ SupAt(s, "loop") /\ Asked(s)
  /\ SupGoto(s, "dead")
  /\ UNCHANGED <<files, conn, stop, signalled, mishaps, overlapped, killed>>

(* The worker has exited: restarted if --alwayson, after a short run counted *)
(* as a failure.  Only one that had the lock can have run for long.          *)
WorkerExited(s) ==
  LET c == sup[s].worker
  IN  /\ SupAt(s, "wait") /\ c \notin Alive
      /\ IF Asked(s) \/ ~AlwaysOn THEN SupGoto(s, "dead")
         ELSE \/ sup' = [sup EXCEPT ![s] = Failed(s, "loop")]
              \/ c \in written /\ sup' = [sup EXCEPT ![s].pc = "loop", ![s].failures = 0]
      /\ UNCHANGED <<files, conn, stop, signalled, mishaps, overlapped, killed>>

\* Mutant of Forward: the supervisor does not wait for the worker it has signalled.
Forward_NoWait(s) ==
  LET c == sup[s].worker
  IN  /\ SupAt(s, "wait") /\ Asked(s) /\ c \in Alive
      /\ signalled' = [signalled EXCEPT ![c] = "received"]
      /\ SupGoto(s, "dead")
      /\ UNCHANGED <<files, conn, stop, mishaps, overlapped, killed>>

(* superviseWait forwards the signal, and waits for the worker. *)
Forward(s) ==
  LET c == sup[s].worker
  IN  /\ SupAt(s, "wait") /\ Asked(s) /\ c \in Alive
      /\ IF signalled[c] = "no"
         THEN /\ signalled' = [signalled EXCEPT ![c] = "received"]
              /\ SupGoto(s, "stopping") /\ UNCHANGED <<conn, killed>>
         ELSE /\ conn' = [conn EXCEPT ![c].pc = "dead"] /\ killed' = killed \cup {c}
              /\ SupGoto(s, "stopping") /\ UNCHANGED signalled
      /\ UNCHANGED <<files, stop, mishaps, overlapped>>

(* ... for daemonStopTimeout, and then kills it. *)
KillWorker(s) ==
  LET c == sup[s].worker
  IN  /\ SupAt(s, "stopping") /\ c \in Alive
      /\ conn' = [conn EXCEPT ![c].pc = "dead"] /\ killed' = killed \cup {c}
      /\ UNCHANGED <<files, sup, stop, signalled, mishaps, overlapped>>

Stopped(s) ==
  /\ SupAt(s, "stopping") /\ sup[s].worker \notin Alive
  /\ SupGoto(s, "dead")
  /\ UNCHANGED <<files, conn, stop, signalled, mishaps, overlapped, killed>>

-----------------------------------------------------------------------------
(* daemonStopResult. *)

StopGoto(p, pc, pid) == stop' = [stop EXCEPT ![p] = [pc |-> pc, pid |-> pid]]

(* No record; or a dead supervisor, whose worker may still beat; or SIGTERM. *)
StopFinds(p) ==
  /\ stop[p].pc = "idle"
  /\ IF stateFile \in Alive THEN StopGoto(p, "waiting", stateFile) /\ Signal(stateFile)
     ELSE IF stateFile # None /\ heartbeat \in Alive THEN StopGoto(p, "orphan", heartbeat) /\ Signal(heartbeat)
     ELSE /\ StopGoto(p, IF stateFile = None THEN "not_running" ELSE "cleaned_stale", None)
          /\ UNCHANGED <<conn, sup, signalled, killed>>
  /\ UNCHANGED <<files, mishaps, overlapped>>

StopSeesExit(p) ==
  /\ stop[p].pc \in {"waiting", "orphan"} /\ stop[p].pid \notin Alive
  /\ StopGoto(p, IF stop[p].pc = "waiting" THEN "stopped" ELSE "orphan_stopped", stop[p].pid)
  /\ UNCHANGED <<files, conn, sup, signalled, mishaps, overlapped, killed>>

(* The graceful window is over: SIGKILL, to a process that may just be gone. *)
StopKills(p) ==
  /\ stop[p].pc \in {"waiting", "orphan"}
  /\ IF stop[p].pid \in Alive THEN Dead(stop[p].pid) ELSE UNCHANGED <<conn, sup, killed>>
  /\ StopGoto(p, IF stop[p].pc = "waiting" THEN "force_killed" ELSE "orphan_stopped", stop[p].pid)
  /\ UNCHANGED <<files, signalled, mishaps, overlapped>>

DaemonNext ==
  \/ \E c \in Connectors: Foreground(c) \/ Create(c) \/ WritePid(c) \/ Read(c) \/ RemoveStale(c) \/ Beat(c) \/ Hide(c) \/ Leave(c)
  \/ \E s \in Supervisors: \/ StartDaemon(s) \/ WriteState(s) \/ Listen(s) \/ Spawn(s) \/ SpawnFails(s)
                           \/ StopLoop(s) \/ WorkerExited(s) \/ Forward(s) \/ KillWorker(s) \/ Stopped(s)
  \/ \E p \in Stops: StopFinds(p) \/ StopSeesExit(p) \/ StopKills(p)
  \/ \E p \in Processes: Crash(p)

DaemonSpec == DaemonInit /\ [][DaemonNext]_daemonVars

(* Processes that are there go on; nobody has to start, stop or crash. *)
Acquire(c) == Create(c) \/ WritePid(c) \/ Read(c) \/ RemoveStale(c)
Supervise(s) == WriteState(s) \/ Listen(s) \/ Spawn(s) \/ WorkerExited(s)
DaemonFairness == /\ \A c \in Connectors: WF_daemonVars(Acquire(c))
            /\ \A s \in Supervisors: WF_daemonVars(Supervise(s))
FairDaemon == DaemonSpec /\ DaemonFairness

-----------------------------------------------------------------------------
(* As long as connectors do not acquire the lock at the same time, whoever   *)
(* is connected is named in the lock: there is one at most, whatever crashed *)
(* or was stopped before, and its release removes its own file               *)
(* (connect_lock.go:39-61).                                                  *)
LockNamesHolder == ~overlapped => \A c \in Up: lock = c /\ c \in written

(* When stop reports that the supervisor has stopped, its worker is gone     *)
(* too, unless the supervisor was killed (connect_daemon.go:517-533,         *)
(* 656-669).                                                                 *)
StopIsComplete ==
  \A p \in Stops: stop[p].pc = "stopped" /\ stop[p].pid \notin killed =>
                    \A c \in Up \cup Acquiring: conn[c].parent # stop[p].pid

(* What a run of TLC checks of them. *)
ProcessesAreTracked == DaemonTypeOK /\ LockNamesHolder /\ StopIsComplete

(* With --alwayson, a connector of the robot is connected again and again    *)
(* until the supervisor is stopped or killed, a stale lock notwithstanding;  *)
(* if fewer than MaxFast faults happen (connect_daemon.go:447-514).          *)
AlwaysOnRecovers ==
  AlwaysOn => \A s \in Supervisors: s \in Supervising ~> Up # {} \/ signalled[s] # "no" \/ s \in killed

(* There is one connector per robot on this machine (connect_lock.go:33-38). *)
OneConnectorPerRobot == Cardinality(Up) <= 1
=============================================================================
