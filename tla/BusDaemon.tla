----------------------------- MODULE BusDaemon -----------------------------
(***************************************************************************)
(* The daemon around the broker (event/bus/daemon.go): connections that    *)
(* shake hands, with or without a runtime token, while the source resolves *)
(* and sends tokens, the idle watch and stop requests come, and Run picks  *)
(* the reason to end and shuts down.  The broker and the source are those  *)
(* of RuntimeBroker; what a registered consumer goes through on its        *)
(* channels is EventHub's, here it hears what it is told in one step.      *)
(***************************************************************************)
EXTENDS Integers, FiniteSets

CONSTANTS
  Hosts, TokenOf, LocalTokens, NoToken, RequireSeed, RequireActivation, MaxGen,
  Plain,      \* consumers that bring no token
  Run, Free   \* holders of credentialHandoffMu: a host, Run, or nobody

Peers == Hosts \cup Plain
Rejected == "runtime_token_rejected"

\* A bus that waits for a consumer's activation was started for a runtime token, so it
\* requires the seed too (app/event_command.go:655, app/event_personal_command.go:414, 1790).
ASSUME DaemonAssumption ==
  /\ Hosts \cap Plain = {} /\ Run \notin Peers /\ Free \notin Peers \cup {Run}
  /\ NoToken \notin LocalTokens /\ \A h \in Hosts : TokenOf[h] # NoToken
  /\ RequireSeed \in BOOLEAN /\ RequireActivation \in BOOLEAN
  /\ RequireActivation => RequireSeed

VARIABLES
  token, generation, active, signals, hostAt, known,       \* RuntimeBroker
  at, back, noticed, used, verdict, revoked,
  conn,        \* per connection: where its handler is
  arriving,    \* accepted, handler not started yet
  consumers,   \* the hub's registered consumers
  registered,  \* history: everyone who ever registered
  acked,       \* history: hosts whose CredentialUpdateAck said accepted
  told,        \* per consumer: the reason shutdown has queued for it, or "none"
  heard,       \* per consumer: how its connection ended
  present,     \* per consumer: whether its process is still there
  gate,        \* who holds credentialHandoffMu
  terminal,    \* terminalReason is set
  run,         \* how far Run is
  why,         \* what ended the select in Run
  accepting,   \* acceptLoop has not returned
  stopReq      \* whether stopReq holds a request

B == INSTANCE RuntimeBroker

bvars == <<token, generation, active, signals, hostAt, known,
           at, back, noticed, used, verdict, revoked>>
conns == <<conn, arriving, consumers, registered, acked, told, heard, present>>
ends  == <<gate, terminal, run, why, accepting, stopReq>>
vars  == <<bvars, conns, ends>>

Ends == {"none", Rejected, "shutdown", "eof", "left"}

TypeOK ==
  /\ B!TypeOK
  /\ conn \in [Peers -> {"new", "hello", "gate", "register", "reading", "updated", "registered",
                         "activated", "ack", "serving", "gone"}]
  /\ arriving \subseteq Peers
  /\ consumers \subseteq registered /\ registered \subseteq Peers /\ acked \subseteq Hosts
  /\ told \in [Peers -> {"none", Rejected, "shutdown"}] /\ heard \in [Peers -> Ends]
  /\ present \in [Peers -> BOOLEAN]
  /\ gate \in Hosts \cup {Run, Free}
  /\ \A h \in Hosts : gate = h <=> conn[h] \in {"reading", "updated", "registered", "activated"}
  /\ terminal \in BOOLEAN /\ accepting \in BOOLEAN /\ stopReq \in BOOLEAN
  /\ run \in {"up", "publishing", "stopping", "told", "closing", "draining", "cut", "exit"}
  /\ why \in {"none", "ctx", "source", "rejected", "idle", "stop_request"}

Init ==
  /\ B!Init
  /\ conn = [c \in Peers |-> "new"] /\ arriving = {}
  /\ consumers = {} /\ registered = {} /\ acked = {}
  /\ told = [c \in Peers |-> "none"] /\ heard = [c \in Peers |-> "none"]
  /\ present = [c \in Peers |-> TRUE]
  /\ gate = Free /\ terminal = FALSE /\ run = "up" /\ why = "none"
  /\ accepting = TRUE /\ stopReq = FALSE

-----------------------------------------------------------------------------
(* acceptLoop.                                                             *)

\* Accept takes a connection off the listener ...
Accept(c) ==
  /\ accepting /\ arriving = {} /\ conn[c] = "new" /\ run \in {"up", "publishing", "stopping", "told"}
  /\ arriving' = {c}
  /\ UNCHANGED <<bvars, conn, consumers, registered, acked, told, heard, present, ends>>

\* ... consumerWG.Add(1), and its handler starts.
StartHandler(c) ==
  /\ c \in arriving
  /\ arriving' = {}
  /\ conn' = [conn EXCEPT ![c] = "hello"]
  /\ UNCHANGED <<bvars, consumers, registered, acked, told, heard, present, ends>>

\* Accept fails: the listener is closed.
AcceptReturns ==
  /\ accepting /\ arriving = {} /\ run = "closing"
  /\ accepting' = FALSE
  /\ UNCHANGED <<bvars, conns, gate, terminal, run, why, stopReq>>

-----------------------------------------------------------------------------
(* handleConnection.                                                       *)

Leave(c, how) ==
  /\ conn' = [conn EXCEPT ![c] = "gone"]
  /\ heard' = [heard EXCEPT ![c] = how]
  /\ consumers' = consumers \ {c}
LoseConnection(c) == Leave(c, IF present[c] THEN "eof" ELSE "left")
Step(c, to) == conn' = [conn EXCEPT ![c] = to] /\ UNCHANGED <<heard, consumers>>
Unlock(c)   == gate' = IF gate = c THEN Free ELSE gate
Rest        == UNCHANGED <<arriving, told, present, terminal, run, why, accepting, stopReq>>

\* A Hello with a credential mode, or without one.
Hello(c) ==
  /\ conn[c] = "hello"
  /\ Step(c, IF c \in Hosts THEN "gate" ELSE "register")
  /\ UNCHANGED <<bvars, registered, acked, gate>> /\ Rest

\* Mutant of Gate: handshakes are not serialised.
Gate_Open(h) ==
  /\ conn[h] = "gate" /\ ~terminal
  /\ Step(h, "reading") /\ gate' = h
  /\ B!AskGeneration(h)
  /\ UNCHANGED <<registered, acked>> /\ Rest

\* credentialHandoffMu is taken and the HelloAck rebuilt and written.
Gate(h) ==
  /\ conn[h] = "gate" /\ gate = Free /\ ~terminal
  /\ Step(h, "reading") /\ gate' = h
  /\ B!AskGeneration(h)
  /\ UNCHANGED <<registered, acked>> /\ Rest

\* The HelloAck carries the terminal reason: that is all this client gets.
GateTerminal(h) ==
  /\ conn[h] = "gate" /\ gate = Free /\ terminal
  /\ Leave(h, IF present[h] THEN Rejected ELSE "left")
  /\ UNCHANGED <<bvars, registered, acked, gate>> /\ Rest

\* The CredentialUpdate arrives, is applied and acked.
Update(h) ==
  /\ conn[h] = "reading" /\ present[h] /\ run \notin {"cut", "exit"}
  /\ Step(h, "updated")
  /\ B!Update(h)
  /\ acked' = acked \cup {h}
  /\ UNCHANGED <<registered, gate>> /\ Rest

\* Mutant of GiveUp: the read has no deadline.
GiveUp_NoDeadline(h) ==
  /\ conn[h] = "reading" /\ (run \in {"cut", "exit"} \/ ~present[h])
  /\ LoseConnection(h) /\ Unlock(h)
  /\ UNCHANGED <<bvars, registered, acked>> /\ Rest

\* No CredentialUpdate within the deadline, or not one that can be accepted.
GiveUp(h) ==
  /\ conn[h] = "reading"
  /\ LoseConnection(h) /\ Unlock(h)
  /\ UNCHANGED <<bvars, registered, acked>> /\ Rest

\* The credential was installed but its ack cannot be written.
AckLost(h) ==
  /\ conn[h] = "reading" /\ ~present[h]
  /\ Leave(h, "left") /\ Unlock(h)
  /\ B!Update(h)
  /\ UNCHANGED <<registered, acked>> /\ Rest

\* Hub.Register.
Register(c) ==
  /\ conn[c] = IF c \in Hosts THEN "updated" ELSE "register"
  /\ conn' = [conn EXCEPT ![c] = IF c \in Hosts THEN "registered" ELSE "activated"]
  /\ consumers' = consumers \cup {c} /\ registered' = registered \cup {c}
  /\ UNCHANGED <<bvars, heard, acked, gate>> /\ Rest

\* Mutant of Activate: the seed is published before its consumer is registered.
Activate_Early(h) ==
  /\ conn[h] = "updated"
  /\ Step(h, "updated")
  /\ B!Activate(h)
  /\ UNCHANGED <<registered, acked, gate>> /\ Rest

\* Broker.Activate.
Activate(h) ==
  /\ conn[h] = "registered"
  /\ Step(h, "activated")
  /\ B!Activate(h)
  /\ UNCHANGED <<registered, acked, gate>> /\ Rest

\* Mutant of NotTerminal: the gate is not released.
NotTerminal_KeepsGate(c) ==
  /\ conn[c] = "activated" /\ ~terminal
  /\ Step(c, IF c \in Hosts THEN "serving" ELSE "ack") /\ gate' = gate
  /\ UNCHANGED <<bvars, registered, acked>> /\ Rest

\* Mutant of NotTerminal: the handler does not look at the terminal reason.
NotTerminal_Unchecked(c) ==
  /\ conn[c] = "activated"
  /\ Step(c, IF c \in Hosts THEN "serving" ELSE "ack") /\ Unlock(c)
  /\ UNCHANGED <<bvars, registered, acked>> /\ Rest

\* getTerminalReason: none, so the gate is released.
NotTerminal(c) ==
  /\ conn[c] = "activated" /\ ~terminal
  /\ Step(c, IF c \in Hosts THEN "serving" ELSE "ack") /\ Unlock(c)
  /\ UNCHANGED <<bvars, registered, acked>> /\ Rest

\* ... set: the Bye is written here and the consumer unregistered.
RefuseTerminal(c) ==
  /\ conn[c] = "activated" /\ terminal
  /\ Leave(c, IF present[c] THEN Rejected ELSE "left") /\ Unlock(c)
  /\ UNCHANGED <<bvars, registered, acked>> /\ Rest

\* The HelloAck of a consumer that brought no token.
Ack(c) ==
  /\ conn[c] = "ack"
  /\ IF present[c] /\ run \notin {"cut", "exit"} THEN Step(c, "serving") ELSE LoseConnection(c)
  /\ UNCHANGED <<bvars, registered, acked, gate>> /\ Rest

\* The writer delivers the reason it was told and closes the connection.
HearBye(c) ==
  /\ conn[c] = "serving" /\ told[c] # "none" /\ present[c]
  /\ Leave(c, told[c])
  /\ UNCHANGED <<bvars, registered, acked, gate>> /\ Rest

\* The consumer is done, or its process is gone.
ConsumerLeaves(c) ==
  /\ conn[c] = "serving"
  /\ Leave(c, "left")
  /\ UNCHANGED <<bvars, registered, acked, gate>> /\ Rest

\* The connection was closed by shutdown, or nobody is at the other end.
ConnectionEnds(c) ==
  /\ conn[c] \in {"hello", "serving"} /\ (run \in {"cut", "exit"} \/ ~present[c])
  /\ LoseConnection(c)
  /\ UNCHANGED <<bvars, registered, acked, gate>> /\ Rest

ProcessDies(c) ==
  /\ conn[c] # "gone" /\ present[c]
  /\ present' = [present EXCEPT ![c] = FALSE]
  /\ UNCHANGED <<bvars, conn, arriving, consumers, registered, acked, told, heard, ends>>

-----------------------------------------------------------------------------
(* Run.                                                                    *)

Turn(to) ==
  run' = to /\ UNCHANGED <<bvars, conn, arriving, consumers, registered, acked, heard, present,
                           accepting, stopReq>>

\* A stop RPC: triggerShutdown fills the buffered channel, once.
RequestStop ==
  /\ ~stopReq
  /\ stopReq' = TRUE
  /\ UNCHANGED <<bvars, conns, gate, terminal, run, why, accepting>>

\* The select in Run: any of the ready cases.
EndBecause(reason) ==
  /\ run = "up"
  /\ why' = reason
  /\ Turn(IF reason = "rejected" THEN "publishing" ELSE "stopping")
  /\ UNCHANGED <<told, gate, terminal>>

SourceEnds ==
  /\ at = "returned" /\ verdict # "cancelled"
  /\ EndBecause(IF verdict = "rejected" THEN "rejected" ELSE "source")
\* The idle watch looked some time ago; a consumer may have registered since.
IdleEnds == EndBecause("idle")
StopEnds == stopReq /\ EndBecause("stop_request")
CtxEnds  == EndBecause("ctx")

\* The terminal reason is published under credentialHandoffMu.
Publish ==
  /\ run = "publishing" /\ gate = Free
  /\ terminal' = TRUE
  /\ Turn("stopping")
  /\ UNCHANGED <<told, gate, why>>

\* Mutant of ReasonTold: the new reason is missing from normalizedShutdownReason.
ReasonTold_Plain == "shutdown"

\* normalizedShutdownReason: every reason but one is told as "shutdown".
ReasonTold == IF why = "rejected" THEN Rejected ELSE "shutdown"

\* cancelRun, then StopAll or Broadcast to whoever is registered now.
TellAll ==
  /\ run = "stopping"
  /\ told' = [c \in Peers |-> IF c \in consumers THEN ReasonTold ELSE told[c]]
  /\ Turn("told")
  /\ UNCHANGED <<gate, terminal, why>>

CloseListener ==
  /\ run = "told"
  /\ Turn("closing")
  /\ UNCHANGED <<told, gate, terminal, why>>

\* Mutant of StartWait: consumerWG.Wait does not wait for the accept loop.
StartWait_NoBarrier ==
  /\ run = "closing"
  /\ Turn("draining")
  /\ UNCHANGED <<told, gate, terminal, why>>

\* <-acceptDone, then consumerWG.Wait starts.
StartWait ==
  /\ run = "closing" /\ ~accepting
  /\ Turn("draining")
  /\ UNCHANGED <<told, gate, terminal, why>>

AllGone == \A c \in Peers : conn[c] \in {"new", "gone"}

\* The handlers are done, or the last timeout passed.
Exit ==
  /\ run \in {"draining", "cut"} /\ (AllGone \/ run = "cut")
  /\ Turn("exit")
  /\ UNCHANGED <<told, gate, terminal, why>>

\* The drain timeout: every accepted connection is closed.
ForceClose ==
  /\ run = "draining" /\ ~AllGone
  /\ Turn("cut")
  /\ UNCHANGED <<told, gate, terminal, why>>

-----------------------------------------------------------------------------
Source    == (B!Source \/ (run \notin {"up", "publishing"} /\ B!Cancelled)) /\ UNCHANGED <<conns, ends>>
Revoke    == (\E t \in B!Tokens \cup LocalTokens : B!Revoke(t)) /\ UNCHANGED <<conns, ends>>
Acceptor  == AcceptReturns \/ \E c \in Peers : StartHandler(c)

Handshake(h) ==
  \/ Gate(h) \/ GateTerminal(h) \/ GiveUp(h) \/ Activate(h)
Handler(c) ==
  \/ c \in Hosts /\ Handshake(c)
  \/ Register(c) \/ NotTerminal(c) \/ RefuseTerminal(c) \/ Ack(c)
  \/ HearBye(c) \/ ConnectionEnds(c)
Client(c) ==
  \/ Accept(c) \/ Hello(c) \/ ConsumerLeaves(c) \/ ProcessDies(c)
  \/ c \in Hosts /\ (Update(c) \/ AckLost(c))

Shutdown == Publish \/ TellAll \/ CloseListener \/ StartWait \/ Exit \/ ForceClose

Next ==
  \/ Source \/ Revoke \/ Acceptor \/ Shutdown
  \/ \E c \in Peers : Handler(c) \/ Client(c)
  \/ RequestStop \/ SourceEnds \/ IdleEnds \/ StopEnds \/ CtxEnds

Spec == Init /\ [][Next]_vars

\* The daemon's own goroutines run; a read with a deadline ends (GiveUp); nothing is
\* assumed of clients, of the service, or of what ends the select.
Fairness ==
  /\ WF_vars(Acceptor) /\ WF_vars(Shutdown)
  /\ \A c \in Peers : WF_vars(Handler(c))

FairSpec == Spec /\ Fairness

-----------------------------------------------------------------------------
(* Properties.                                                             *)

\* sync.WaitGroup forbids an Add that races with Wait: once Wait has started no
\* accepted connection is still without its handler (daemon.go:273-276).
NoAddAfterWait == run \in {"draining", "cut", "exit"} => arriving = {}

\* The gate serialises whole handshakes: between the generation a client is told and
\* its update, and between its update and its activation, no other update comes in, so
\* neither fails for a client that echoes the generation (daemon.go:427-517).
HandoffNeverConflicts ==
  \A h \in Hosts : /\ conn[h] = "reading" => B!Accepts(h)
                   /\ conn[h] \in {"updated", "registered"} => B!Activates(h)

\* With a required seed the source sends no ticket request before a consumer that could
\* hear of its rejection has been registered (daemon.go:508-511).
TicketWaitsForConsumer ==
  RequireActivation => (at \in {"ticket", "refresh", "retry"} => registered # {})

\* What a handshake under the gate may rely on: nobody undoes what it has done so far, and
\* the source does not run, and fail, before its consumer can hear of it.
HandshakesInOrder == TypeOK /\ HandoffNeverConflicts /\ TicketWaitsForConsumer

\* When a rejected runtime token ends the bus, nobody who got an accepted credential or
\* was registered is left with a bare end of file, however its handshake interleaved
\* with the failure: it hears the typed reason, or had it queued when the drain timeout
\* closed its connection (daemon.go:257-264, 519-526).
RejectionIsHeard ==
  \A c \in acked \cup registered :
    terminal /\ conn[c] = "gone" /\ heard[c] # "left" =>
      heard[c] = Rejected \/ (heard[c] = "eof" /\ told[c] = Rejected)

\* All of it at once, for every kind of bus.
DaemonSafe == HandshakesInOrder /\ NoAddAfterWait /\ RejectionIsHeard

\* A rejection is published in the end: no silent client holds the gate for ever.
RejectionIsPublished == run = "publishing" ~> terminal
=============================================================================
