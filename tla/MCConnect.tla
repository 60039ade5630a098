----------------------------- MODULE MCConnect -----------------------------
(***************************************************************************)
(* Small instances for TLC of the robot connector, checked in one run: its *)
(* processes, with a supervisor that restarts the worker (restarts) and    *)
(* with two supervisors (rivals), the confirmation gate, by text (text),   *)
(* under a remembering policy (remember) and by card (card), and the       *)
(* agents: the sessions of a one-shot one or of opencode (sessions), and   *)
(* the one child of qoder (stream).  scene says which one is checked; the  *)
(* others do not move.                                                     *)
(***************************************************************************)
EXTENDS ConnectApproval, ConnectDaemon, ConnectSessions, AgentStream

CONSTANTS r1, r2, s1, s2, tick,
          x, y, m1, m2, m3,
          f, w1, w2, u1, u2, q1, q2

VARIABLE scene

\* The owner asks for the second request himself.
Remember == INSTANCE ConnectApproval WITH
  Own <- {r2}, Policy <- "remember", TextMode <- TRUE

Card == INSTANCE ConnectApproval WITH
  Own <- {}, Policy <- "manual", TextMode <- FALSE

\* Without --alwayson.
Rivals == INSTANCE ConnectDaemon WITH AlwaysOn <- FALSE

\* A foreground connector, a supervisor with two workers, and two stops, of which q1 is the
\* first (they are interchangeable); and two supervisors, one worker and one stop.
OneSupervisor == sup'[u2].pc = "none" /\ (stop'[q1].pc = "idle" => stop'[q2].pc = "idle")
TwoSupervisors == conn'[w2].pc = "none" /\ stop'[q2].pc = "idle"

\* Of the one-shot agents a snapshot may be lost, which is what the mutex is about.
OneLostSnapshot == Locked \/ spent'.unsaved = 0

ScenesInit ==
  /\ scene \in {"text", "remember", "card", "restarts", "rivals", "sessions", "stream"}
  /\ Init /\ DaemonInit /\ SessionInit /\ StreamInit
  /\ scene # "sessions" => agent = "oneshot"

others == <<sessionVars, streamVars>>

ScenesNext ==
  \/ scene = "text" /\ Next /\ UNCHANGED <<scene, daemonVars, others>>
  \/ scene = "remember" /\ Remember!Next /\ UNCHANGED <<scene, daemonVars, others>>
  \/ scene = "card" /\ Card!Next /\ UNCHANGED <<scene, daemonVars, others>>
  \/ scene = "restarts" /\ DaemonNext /\ OneSupervisor /\ UNCHANGED <<scene, vars, others>>
  \/ scene = "rivals" /\ Rivals!DaemonNext /\ TwoSupervisors /\ UNCHANGED <<scene, vars, others>>
  \/ scene = "sessions" /\ SessionNext /\ OneLostSnapshot
                        /\ UNCHANGED <<scene, vars, daemonVars, streamVars>>
  \/ scene = "stream" /\ StreamNext /\ UNCHANGED <<scene, vars, daemonVars, sessionVars>>

Scenes == ScenesInit /\ [][ScenesNext]_<<scene, vars, daemonVars, others>>
=============================================================================
