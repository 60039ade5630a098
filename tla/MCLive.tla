------------------------------- MODULE MCLive -------------------------------
(***************************************************************************)
(* Small instances for TLC, checked in one run: what a silent client of    *)
(* the bus daemon may hold up, under the fairness of the daemon alone      *)
(* (daemon), and what the connector's queue keeps in order, fair or not    *)
(* (queue).  scene says which one is checked; the other does not move.     *)
(***************************************************************************)
EXTENDS ConnectQueue

CONSTANTS x, y, m1, m2, m3, h1, h2, a, NoToken, Run, Free

VARIABLES
  scene,
  token, generation, active, signals, hostAt, known,
  at, back, noticed, used, verdict, revoked,
  conn, arriving, consumers, registered, acked, told, heard, present,
  gate, terminal, run, why, accepting, stopReq    \* BusDaemon

bus == <<token, generation, active, signals, hostAt, known,
         at, back, noticed, used, verdict, revoked,
         conn, arriving, consumers, registered, acked, told, heard, present,
         gate, terminal, run, why, accepting, stopReq>>

\* Two messages of one conversation and one of another.
TwoAndOne == (m1 :> x) @@ (m2 :> x) @@ (m3 :> y)

\* Both hosts bring the same token.
SameToken == (h1 :> a) @@ (h2 :> a)

Daemon == INSTANCE BusDaemon WITH
  Hosts <- {h1, h2}, TokenOf <- SameToken, Plain <- {}, LocalTokens <- {},
  RequireSeed <- TRUE, RequireActivation <- TRUE, MaxGen <- 1

ScenesInit == scene \in {"daemon", "queue"} /\ Init /\ Daemon!Init

ScenesNext ==
  \/ scene = "daemon" /\ Daemon!Next /\ UNCHANGED <<scene, vars>>
  \/ scene = "queue" /\ Next /\ UNCHANGED <<scene, bus>>

\* The fairness of the daemon.
Scenes ==
  /\ ScenesInit /\ [][ScenesNext]_<<scene, bus, vars>>
  /\ WF_bus(scene = "daemon" /\ Daemon!Acceptor) /\ WF_bus(scene = "daemon" /\ Daemon!Shutdown)
  /\ \A h \in {h1, h2} : WF_bus(scene = "daemon" /\ Daemon!Handler(h))

-----------------------------------------------------------------------------
\* BusDaemon's RejectionIsPublished: a rejection is published in the end; no silent client
\* holds the gate for ever (daemon.go:257-264).
RejectionIsPublished == run = "publishing" ~> terminal
=============================================================================
