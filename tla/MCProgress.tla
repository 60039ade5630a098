----------------------------- MODULE MCProgress -----------------------------
(***************************************************************************)
(* Small instances for TLC of what must get done in the end, each under    *)
(* the fairness of its own module, checked in one run: the calls of a      *)
(* token refresh (flight), the actions the connector holds (backlog), the  *)
(* turns of a conversation (turns), a connector that is always on (always) *)
(* and a bus that nobody uses (idle).  scene says which one is checked;    *)
(* the others do not move.                                                 *)
(***************************************************************************)
EXTENDS TokenRefresh, TLC

CONSTANTS t1, t2, t3, p1, p2,
          r1, r2, s1, s2, ticker,
          x, y, m1, m2, m3, m4,
          w1, w2, w3, u1, q1, None

VARIABLES
  scene,
  gate, disk, asked, waiters, remembered, task, told, consent, lent, held,
  undone, runs, spent,                                                     \* ConnectApproval
  delivered, known, callbacks, running, pending, drains, entered, ended, handled,
  between,                                                                 \* ConnectQueue
  lock, written, heartbeat, state, conn, sup, stop, signalled, crashes,
  overlapped, killed,                                                      \* ConnectDaemon
  phase, tick, empty, unseen, len, stopped                                 \* IdleWatch

approval == <<gate, disk, asked, waiters, remembered, task, told, consent, lent, held,
              undone, runs, spent>>
queue == <<delivered, known, callbacks, running, pending, drains, entered, ended, handled,
           between>>
connectors == <<lock, written, heartbeat, state, conn, sup, stop, signalled, crashes,
                overlapped, killed>>
watch == <<phase, tick, empty, unseen, len, stopped>>

\* Two threads of one process and a third in another one.
TwoAndOne  == (t1 :> p1) @@ (t2 :> p1) @@ (t3 :> p2)
Refreshing == (t1 :> {"get", "force"}) @@ (t2 :> {"get", "force"}) @@ (t3 :> {"get", "stale"})

\* Two requests, by text; two runs fail, and the connector is restarted once.
Backlog == INSTANCE ConnectApproval WITH
  Requests <- {r1, r2}, Own <- {}, Replies <- {s1, s2}, Ticker <- ticker, TextMode <- TRUE,
  Policy <- "manual", MaxTaps <- 0, MaxCrashes <- 1, MaxFaults <- 0, MaxFailures <- 2,
  job <- task, used <- spent

\* Three messages of one conversation, of which two are commands or decisions, and one of
\* another conversation.
ThreeAndOne == (m1 :> x) @@ (m2 :> x) @@ (m3 :> x) @@ (m4 :> y)
Turns == INSTANCE ConnectQueue WITH
  Convs <- {x, y}, Messages <- {m1, m2, m3, m4}, ConvOf <- ThreeAndOne, Alone <- {m2, m3},
  Limit <- 4, MaxDeliveries <- 1, seen <- known

\* A supervisor with three workers, of which two may fail or crash, and a stop.
Always == INSTANCE ConnectDaemon WITH
  Foregrounds <- {}, Workers <- {w1, w2, w3}, Supervisors <- {u1}, Stops <- {q1},
  AlwaysOn <- TRUE, MaxFast <- 4, MaxMishaps <- 2, mishaps <- crashes, stateFile <- state

\* A timeout of four ticks of three time units, and two consumers.
Idle == INSTANCE IdleWatch WITH Period <- 3, MaxConsumers <- 2

ScenesInit ==
  /\ scene \in {"flight", "backlog", "turns", "always", "idle"}
  /\ Init /\ Backlog!Init /\ Turns!Init /\ Always!DaemonInit /\ Idle!Init

ScenesNext ==
  \/ scene = "flight" /\ Next /\ UNCHANGED <<scene, approval, queue, connectors, watch>>
  \/ scene = "backlog" /\ Backlog!Next /\ UNCHANGED <<scene, vars, queue, connectors, watch>>
  \/ scene = "turns" /\ Turns!Next /\ UNCHANGED <<scene, vars, approval, connectors, watch>>
  \/ scene = "always" /\ Always!DaemonNext /\ UNCHANGED <<scene, vars, approval, queue, watch>>
  \/ scene = "idle" /\ Idle!Next /\ UNCHANGED <<scene, vars, approval, queue, connectors>>

\* The fairness of each module, for the scene that moves.
Scenes ==
  /\ ScenesInit /\ [][ScenesNext]_<<scene, vars, approval, queue, connectors, watch>>
  /\ \A t \in Threads : WF_vars(scene = "flight" /\ Step(t))
  /\ WF_approval(scene = "backlog" /\ Backlog!Tick)
  /\ \A j \in {r1, r2, s1, s2, ticker} : WF_approval(scene = "backlog" /\ Backlog!Carry(j))
  /\ \A m \in {m1, m2, m3, m4} :
       /\ WF_queue(scene = "turns" /\ Turns!Submit([msg |-> m, nth |-> 1]))
       /\ WF_queue(scene = "turns" /\ Turns!TakeNext([msg |-> m, nth |-> 1]))
  /\ \A w \in {w1, w2, w3} : WF_connectors(scene = "always" /\ Always!Acquire(w))
  /\ WF_connectors(scene = "always" /\ Always!Supervise(u1))
  /\ WF_watch(scene = "idle" /\ Idle!Advance) /\ WF_watch(scene = "idle" /\ Idle!Watch)

-----------------------------------------------------------------------------
\* ConnectApproval's BacklogDrains: a held action is carried out in the end
\* (connect_approval.go:67-71, 328-343).
BacklogDrains ==
  \A r \in {r1, r2} : scene = "backlog" /\ gate[r] = "deferred" ~> gate[r] = "executed"

\* ConnectQueue's EveryTurnProcessed: a turn is processed, or dropped for a command or a
\* decision, unless the agent hangs on its conversation (connect_queue.go:23-24).
EveryTurnProcessed == \A m \in {m1, m2, m3, m4} :
  LET turn == [msg |-> m, nth |-> 1]
  IN  []<>(~Turns!Busy(ThreeAndOne[m])) => (turn \in callbacks ~> Turns!Served(turn))

\* ConnectDaemon's AlwaysOnRecovers: a connector is connected again and again until the
\* supervisor is stopped or killed (connect_daemon.go:447-514).
AlwaysOnRecovers ==
  u1 \in Always!Supervising ~> Always!Up # {} \/ signalled[u1] # "no" \/ u1 \in killed

\* IdleWatch's StopWasUnseen and EmptyBusStops: the bus stops itself only when no tick of the
\* last IdleTimeout has seen a consumer, and one that everybody has left for good stops
\* itself (daemon.go:743-752).
IdleStop ==
  /\ [][stopped' /\ ~stopped => unseen >= Idle!Timeout]_watch
  /\ scene = "idle" => (<>[](len = 0) => <>stopped)
=============================================================================
