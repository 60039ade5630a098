--------------------------- MODULE BusDaemonProofs ---------------------------
(***************************************************************************)
(* What the bus daemon promises for every number of hosts, consumers and   *)
(* tokens: a handshake is never disturbed by another, no handler is added  *)
(* once Run waits for them, and a rejected runtime token is heard.  At the *)
(* end, what the de-duplication of its events promises for any number of   *)
(* events, callbacks and calls.                                            *)
(***************************************************************************)
EXTENDS BusDaemon, EventDedup, FiniteSetTheorems, TLAPS

Listed == {"registered", "activated", "ack", "serving"}  \* between Register and Unregister
Late   == {"told", "closing", "draining", "cut", "exit"} \* TellAll has happened

\* The hub's consumers are the connections between Register and the end of the handler.
Enrolled == \A c \in Peers : c \in consumers <=> conn[c] \in Listed

\* Who has an accepted credential or was registered has passed that point of its handler.
PastUpdate ==
  \A c \in acked \cup registered : conn[c] \in Listed \cup {"updated", "gone"}

\* A connection has no handler before StartHandler.
NoHandlerYet == \A c \in arriving : conn[c] = "new"

\* The listener is closed and drained before Run waits.
WaitsAfterAccept ==
  /\ run \in {"draining", "cut", "exit"} => ~accepting
  /\ ~accepting => arriving = {}

\* The terminal reason is published on the way from the rejected source to the shutdown.
TerminalWhen ==
  /\ terminal <=> why = "rejected" /\ run \notin {"up", "publishing"}
  /\ run = "up" => why = "none"
  /\ run = "publishing" => why = "rejected"

\* Nobody is told before TellAll, and everybody is told the same.
ToldTheReason ==
  \A c \in Peers : /\ told[c] \in {"none", ReasonTold}
                   /\ run \notin Late => told[c] = "none"

\* After a rejection whoever is still being served has been told.
ServedAreTold ==
  terminal /\ run \in Late =>
    \A c \in Peers : conn[c] \in {"ack", "serving"} => told[c] = Rejected

\* Until Run has published, a consumer loses its connection only by leaving.
QuietEnds ==
  run \in {"up", "publishing"} =>
    \A c \in acked \cup registered : conn[c] = "gone" => heard[c] = "left"

\* The host that holds the gate knows the generation, and where it is in the broker.
HandshakeIsCurrent ==
  \A h \in Hosts :
    /\ conn[h] = "reading" => hostAt[h] = "update" /\ known[h] = generation
    /\ conn[h] \in {"updated", "registered"} => hostAt[h] = "activate" /\ known[h] = generation

\* With a required seed the source stays where it is until somebody is registered.
SourceWaits ==
  RequireActivation /\ registered = {} =>
    ~active /\ at \in {"resolve", "wait", "returned"} /\ back = "resolve"

\* Who waits to refresh a token has one.
RefreshesOne == at = "wait" /\ back = "refresh" => used # NoToken

RejectionInv ==
  /\ Enrolled /\ PastUpdate /\ TerminalWhen /\ ToldTheReason /\ ServedAreTold /\ QuietEnds
  /\ RejectionIsHeard

DaemonInv ==
  /\ TypeOK /\ RefreshesOne /\ NoHandlerYet /\ WaitsAfterAccept
  /\ HandshakeIsCurrent /\ SourceWaits /\ RejectionInv

-----------------------------------------------------------------------------
(* The broker's part of a step.                                            *)

BrokerSteps ==
  \/ B!Source \/ B!Cancelled
  \/ \E t \in B!Tokens \cup LocalTokens : B!Revoke(t)
  \/ \E h \in Hosts : B!AskGeneration(h) \/ B!Update(h) \/ B!Activate(h)

LEMMA BrokerTypes ==
  ASSUME DaemonAssumption, B!TypeOK, RefreshesOne, BrokerSteps \/ UNCHANGED bvars
  PROVE  B!TypeOK' /\ RefreshesOne'
<1> DEFINE Goal == B!TypeOK' /\ RefreshesOne'
<1> USE DEF RefreshesOne, B!TypeOK, B!broker, B!hosts, B!source, B!Others, B!Move, B!Give, B!Return
<1>1. CASE B!Source
  <2>1. CASE B!Wake \/ B!CallLocalRefresh \/ B!Backoff
    BY <1>1, <2>1 DEF B!Wake, B!CallLocalRefresh, B!Backoff
  <2>4. CASE B!Resolve
    BY <2>4 DEF B!Resolve, B!WaitFrom, B!Usable
  <2>5. CASE B!RefreshRejected
    BY <2>5 DEF B!RefreshRejected, B!WaitFrom, B!Usable
  <2>6. CASE B!Classify
    BY <2>6 DEF B!Classify, B!Usable
  <2>2. ASSUME NEW t \in LocalTokens, B!LocalResolved(t) \/ B!LocalRefreshed(t)
        PROVE  Goal
    BY <2>2 DEF B!LocalResolved, B!LocalRefreshed, B!Usable, DaemonAssumption
  <2>3. CASE B!Refused \/ B!Granted \/ B!Retryable \/ B!Fatal
    BY <2>3 DEF B!Refused, B!Granted, B!Retryable, B!Fatal
  <2> QED BY <1>1, <2>1, <2>2, <2>3, <2>4, <2>5, <2>6 DEF B!Source
<1>2. CASE B!Cancelled
  BY <1>2 DEF B!Cancelled
<1>3. ASSUME NEW t \in B!Tokens \cup LocalTokens, B!Revoke(t) PROVE Goal
  BY <1>3 DEF B!Revoke
<1>4. ASSUME NEW h \in Hosts, B!AskGeneration(h) PROVE Goal
  BY <1>4 DEF B!AskGeneration
<1>7. ASSUME NEW h \in Hosts, B!Activate(h) PROVE Goal
  BY <1>7 DEF B!Activate
<1>5. ASSUME NEW h \in Hosts, B!Update(h) PROVE Goal
  <2>1. TokenOf[h] \in B!Tokens /\ TokenOf[h] # NoToken
    BY DEF B!Tokens, DaemonAssumption
  <2>2. CASE token = TokenOf[h]
    BY <1>5, <2>2 DEF B!Update
  <2>3. CASE token # TokenOf[h]
    BY <1>5, <2>1, <2>3 DEF B!Update
  <2> QED BY <2>2, <2>3
<1>6. CASE UNCHANGED bvars
  BY <1>6 DEF bvars
<1> QED BY <1>1, <1>2, <1>3, <1>4, <1>5, <1>6, <1>7 DEF BrokerSteps

\* Only these steps involve the broker.
LEMMA BrokerMoves == [Next]_vars => BrokerSteps \/ UNCHANGED bvars
<1> SUFFICES ASSUME [Next]_vars PROVE BrokerSteps \/ UNCHANGED bvars
  OBVIOUS
<1>1. CASE Source \/ Revoke
  BY <1>1 DEF Source, Revoke, BrokerSteps
<1>2. CASE Acceptor
  BY <1>2 DEF Acceptor, AcceptReturns, StartHandler
<1>3. CASE Shutdown
  BY <1>3 DEF Shutdown, Publish, TellAll, CloseListener, StartWait, Exit, ForceClose, Turn
<1>4. ASSUME NEW c \in Peers, Handler(c) PROVE BrokerSteps \/ UNCHANGED bvars
  BY <1>4 DEF Handler, Handshake, Gate, GateTerminal, GiveUp, Activate, Register, NotTerminal,
              RefuseTerminal, Ack, HearBye, ConnectionEnds, BrokerSteps
<1>5. ASSUME NEW c \in Peers, Client(c) PROVE BrokerSteps \/ UNCHANGED bvars
  BY <1>5 DEF Client, Accept, Hello, ConsumerLeaves, ProcessDies, Update, AckLost, BrokerSteps
<1>6. CASE RequestStop \/ SourceEnds \/ IdleEnds \/ StopEnds \/ CtxEnds
  BY <1>6 DEF RequestStop, SourceEnds, IdleEnds, StopEnds, CtxEnds, EndBecause, Turn
<1>7. CASE UNCHANGED vars
  BY <1>7 DEF vars
<1> QED BY <1>1, <1>2, <1>3, <1>4, <1>5, <1>6, <1>7 DEF Next

-----------------------------------------------------------------------------
(* Types.                                                                  *)

LEMMA Names ==
  ASSUME DaemonAssumption
  PROVE  /\ Hosts \subseteq Peers /\ Free \notin Hosts
         /\ \A c \in Peers : c # Free /\ c # Run
BY DEF DaemonAssumption, Peers

LEMMA HandlerTypes ==
  ASSUME DaemonAssumption, TypeOK, NEW c \in Peers, Handler(c), B!TypeOK'
  PROVE  TypeOK'
<1> USE Names DEF TypeOK, Rest, Step, Unlock, Leave, LoseConnection, Ends, conns
<1>1. ASSUME c \in Hosts, Gate(c) PROVE TypeOK'
  BY <1>1 DEF Gate
<1>2. ASSUME c \in Hosts, GateTerminal(c) PROVE TypeOK'
  BY <1>2 DEF GateTerminal
<1>3. ASSUME c \in Hosts, GiveUp(c) PROVE TypeOK'
  BY <1>3 DEF GiveUp
<1>4. ASSUME c \in Hosts, Activate(c) PROVE TypeOK'
  BY <1>4 DEF Activate
<1>5. CASE Register(c)
  BY <1>5 DEF Register
<1>6. CASE NotTerminal(c)
  BY <1>6 DEF NotTerminal
<1>7. CASE RefuseTerminal(c)
  BY <1>7 DEF RefuseTerminal
<1>8. CASE Ack(c)
  BY <1>8 DEF Ack
<1>9. CASE HearBye(c)
  BY <1>9 DEF HearBye
<1>10. CASE ConnectionEnds(c)
  BY <1>10 DEF ConnectionEnds
<1> QED BY <1>1, <1>2, <1>3, <1>4, <1>5, <1>6, <1>7, <1>8, <1>9, <1>10 DEF Handler, Handshake

LEMMA ClientTypes ==
  ASSUME DaemonAssumption, TypeOK, NEW c \in Peers, Client(c), B!TypeOK'
  PROVE  TypeOK'
<1> USE Names DEF TypeOK, Rest, Step, Unlock, Leave, LoseConnection, Ends, conns, ends
<1>1. CASE Accept(c)
  BY <1>1 DEF Accept
<1>2. CASE Hello(c)
  BY <1>2 DEF Hello
<1>3. CASE ConsumerLeaves(c)
  BY <1>3 DEF ConsumerLeaves
<1>4. CASE ProcessDies(c)
  BY <1>4 DEF ProcessDies
<1>5. ASSUME c \in Hosts, Update(c) PROVE TypeOK'
  BY <1>5 DEF Update
<1>6. ASSUME c \in Hosts, AckLost(c) PROVE TypeOK'
  BY <1>6 DEF AckLost
<1> QED BY <1>1, <1>2, <1>3, <1>4, <1>5, <1>6 DEF Client

LEMMA RunTypes ==
  ASSUME DaemonAssumption, TypeOK, NoHandlerYet, B!TypeOK',
         \/ Source \/ Revoke \/ Acceptor \/ Shutdown
         \/ RequestStop \/ SourceEnds \/ IdleEnds \/ StopEnds \/ CtxEnds \/ UNCHANGED vars
  PROVE  TypeOK'
<1> USE DEF TypeOK, conns, ends
<1>1. CASE Source \/ Revoke
  BY <1>1 DEF Source, Revoke
<1>2. CASE AcceptReturns
  BY <1>2 DEF AcceptReturns
<1>3. ASSUME NEW c \in Peers, StartHandler(c) PROVE TypeOK'
  BY <1>3, Names DEF StartHandler, NoHandlerYet
<1>4. CASE TellAll
  BY <1>4 DEF TellAll, Turn, ReasonTold, Rejected
<1>5. CASE Publish \/ CloseListener \/ StartWait \/ Exit \/ ForceClose
  BY <1>5, ZenonT(40) DEF Publish, CloseListener, StartWait, Exit, ForceClose, Turn
<1>6. CASE RequestStop \/ SourceEnds \/ IdleEnds \/ StopEnds \/ CtxEnds
  BY <1>6, ZenonT(40) DEF RequestStop, SourceEnds, IdleEnds, StopEnds, CtxEnds, EndBecause, Turn
<1>7. CASE UNCHANGED vars
  BY <1>7 DEF vars
<1> QED BY <1>1, <1>2, <1>3, <1>4, <1>5, <1>6, <1>7 DEF Acceptor, Shutdown

-----------------------------------------------------------------------------
(* The rejection is heard.                                                 *)

\* What a handler's step owes: how it leaves its own connection.
OwnPart(c) ==
  /\ conn'[c] # "new"
  /\ c \in consumers' <=> conn'[c] \in Listed
  /\ c \in acked' \cup registered' => conn'[c] \in Listed \cup {"updated", "gone"}
  /\ terminal /\ run \in Late /\ conn'[c] \in {"ack", "serving"} => told[c] = Rejected
  /\ c \in acked' \cup registered' /\ conn'[c] = "gone" /\ heard'[c] # "left" =>
       /\ run \notin {"up", "publishing"}
       /\ terminal => heard'[c] = Rejected \/ (heard'[c] = "eof" /\ told[c] = Rejected)

LEMMA StepOf ==
  ASSUME DaemonAssumption, TypeOK, TypeOK', RejectionInv, NoHandlerYet, NEW c \in Peers, Rest,
         OwnPart(c), conn[c] # "new",
         \A d \in Peers \ {c} :
           /\ conn'[d] = conn[d] /\ heard'[d] = heard[d]
           /\ d \in consumers' <=> d \in consumers
           /\ d \in acked' \cup registered' <=> d \in acked \cup registered
  PROVE  RejectionInv' /\ NoHandlerYet'
<1>0. /\ acked \cup registered \subseteq Peers /\ acked' \cup registered' \subseteq Peers
      /\ arriving \subseteq Peers
  BY Names DEF TypeOK
<1> USE DEF RejectionInv, Rest, OwnPart
<1>1. NoHandlerYet'
  BY <1>0 DEF NoHandlerYet
<1>2. Enrolled' /\ PastUpdate'
  BY <1>0 DEF Enrolled, PastUpdate
<1>3. TerminalWhen' /\ ToldTheReason'
  BY DEF TerminalWhen, ToldTheReason, ReasonTold
<1>4. ServedAreTold'
  BY DEF ServedAreTold
<1>5. QuietEnds'
  BY <1>0 DEF QuietEnds
<1>6. RejectionIsHeard'
  BY <1>0 DEF RejectionIsHeard
<1> QED BY <1>1, <1>2, <1>3, <1>4, <1>5, <1>6

LEMMA HandlerHears ==
  ASSUME DaemonAssumption, TypeOK, TypeOK', RejectionInv, NoHandlerYet, NEW c \in Peers, Handler(c)
  PROVE  RejectionInv' /\ NoHandlerYet'
<1> USE DEF TypeOK, Step, Leave, LoseConnection, Listed
<1>1. Rest /\ conn[c] # "new"
  BY DEF Handler, Handshake, Gate, GateTerminal, GiveUp, Activate, Register, NotTerminal,
         RefuseTerminal, Ack, HearBye, ConnectionEnds
<1>2. \A d \in Peers \ {c} :
        /\ conn'[d] = conn[d] /\ heard'[d] = heard[d]
        /\ d \in consumers' <=> d \in consumers
        /\ d \in acked' \cup registered' <=> d \in acked \cup registered
  BY DEF Handler, Handshake, Gate, GateTerminal, GiveUp, Activate, Register, NotTerminal,
         RefuseTerminal, Ack, HearBye, ConnectionEnds
<1>3. OwnPart(c)
  <2> USE DEF OwnPart, RejectionInv, Enrolled, PastUpdate
  <2>1. ASSUME c \in Hosts, Gate(c) \/ Activate(c) PROVE OwnPart(c)
    BY <2>1 DEF Gate, Activate
  <2>2. ASSUME c \in Hosts, GateTerminal(c) \/ GiveUp(c) PROVE OwnPart(c)
    BY <2>2 DEF GateTerminal, GiveUp
  <2>3. CASE Register(c)
    BY <2>3 DEF Register
  <2>4. CASE NotTerminal(c)
    BY <2>4 DEF NotTerminal
  <2>5. CASE RefuseTerminal(c)
    BY <2>5 DEF RefuseTerminal, TerminalWhen
  <2>6. CASE Ack(c)
    BY <2>6 DEF Ack, TerminalWhen, ServedAreTold, Late
  <2>7. CASE HearBye(c)
    BY <2>7 DEF HearBye, TerminalWhen, ToldTheReason, ReasonTold, Late
  <2>8. CASE ConnectionEnds(c)
    BY <2>8 DEF ConnectionEnds, TerminalWhen, ServedAreTold, Late
  <2> QED BY <2>1, <2>2, <2>3, <2>4, <2>5, <2>6, <2>7, <2>8 DEF Handler, Handshake
<1> QED BY <1>1, <1>2, <1>3, StepOf

LEMMA ClientHears ==
  ASSUME DaemonAssumption, TypeOK, TypeOK', RejectionInv, NoHandlerYet, NEW c \in Peers, Client(c)
  PROVE  RejectionInv' /\ NoHandlerYet'
<1> USE DEF TypeOK
<1>1. CASE Accept(c)
  BY <1>1 DEF Accept, ends, NoHandlerYet, RejectionInv, Enrolled, PastUpdate, TerminalWhen,
              ToldTheReason, ReasonTold, ServedAreTold, QuietEnds, RejectionIsHeard
<1>2. CASE ProcessDies(c)
  BY <1>2 DEF ProcessDies, ends, NoHandlerYet, RejectionInv, Enrolled, PastUpdate, TerminalWhen,
              ToldTheReason, ReasonTold, ServedAreTold, QuietEnds, RejectionIsHeard
<1>3. CASE Hello(c) \/ ConsumerLeaves(c) \/ (c \in Hosts /\ (Update(c) \/ AckLost(c)))
  <2> USE DEF Step, Leave, Listed
  <2>1. Rest /\ conn[c] # "new"
    BY <1>3 DEF Hello, ConsumerLeaves, Update, AckLost
  <2>2. \A d \in Peers \ {c} :
          /\ conn'[d] = conn[d] /\ heard'[d] = heard[d]
          /\ d \in consumers' <=> d \in consumers
          /\ d \in acked' \cup registered' <=> d \in acked \cup registered
    BY <1>3 DEF Hello, ConsumerLeaves, Update, AckLost
  <2>3. OwnPart(c)
    BY <1>3 DEF Hello, ConsumerLeaves, Update, AckLost, OwnPart, RejectionInv, Enrolled, PastUpdate
  <2> QED BY <2>1, <2>2, <2>3, StepOf
<1> QED BY <1>1, <1>2, <1>3 DEF Client

LEMMA RunHears ==
  ASSUME DaemonAssumption, TypeOK, TypeOK', RejectionInv, NoHandlerYet,
         \/ Source \/ Revoke \/ Acceptor \/ Shutdown
         \/ RequestStop \/ SourceEnds \/ IdleEnds \/ StopEnds \/ CtxEnds \/ UNCHANGED vars
  PROVE  RejectionInv' /\ NoHandlerYet'
<1> DEFINE Goal == RejectionInv' /\ NoHandlerYet'
<1>1. ASSUME UNCHANGED <<conns, terminal, run, why>> PROVE Goal
  BY <1>1 DEF conns, NoHandlerYet, RejectionInv, Enrolled, PastUpdate, TerminalWhen,
              ToldTheReason, ReasonTold, ServedAreTold, QuietEnds, RejectionIsHeard
<1>2. CASE Source \/ Revoke \/ AcceptReturns \/ RequestStop \/ UNCHANGED vars
  BY <1>1, <1>2 DEF Source, Revoke, AcceptReturns, RequestStop, vars, ends, conns
<1>3. ASSUME NEW c \in Peers, StartHandler(c) PROVE Goal
  <2> USE <1>3 DEF StartHandler, TypeOK, ends
  <2>1. conn[c] = "new" /\ NoHandlerYet'
    BY DEF NoHandlerYet
  <2>2. Enrolled' /\ PastUpdate'
    BY <2>1, Names DEF RejectionInv, Enrolled, PastUpdate, Listed
  <2>3. TerminalWhen' /\ ToldTheReason' /\ ServedAreTold'
    BY DEF RejectionInv, TerminalWhen, ToldTheReason, ReasonTold, ServedAreTold
  <2>4. QuietEnds' /\ RejectionIsHeard'
    BY Names DEF RejectionInv, QuietEnds, RejectionIsHeard
  <2> QED BY <2>1, <2>2, <2>3, <2>4 DEF RejectionInv
<1>4. ASSUME UNCHANGED <<conn, arriving, consumers, registered, acked, heard>>,
             TerminalWhen', ToldTheReason', ServedAreTold', QuietEnds', RejectionIsHeard'
      PROVE  Goal
  BY <1>4 DEF NoHandlerYet, RejectionInv, Enrolled, PastUpdate
<1>5. CASE TellAll
  <2>1. UNCHANGED <<conn, arriving, consumers, registered, acked, heard>> /\ TerminalWhen'
    BY <1>5 DEF TellAll, Turn, RejectionInv, TerminalWhen
  <2>2. ToldTheReason'
    BY <1>5 DEF TellAll, Turn, ToldTheReason, ReasonTold, Late, RejectionInv
  <2>3. ServedAreTold'
    BY <1>5 DEF TellAll, Turn, ServedAreTold, ReasonTold, Late, RejectionInv, Enrolled, Listed,
                TerminalWhen
  <2>4. QuietEnds' /\ RejectionIsHeard'
    BY <1>5, Names DEF TellAll, Turn, QuietEnds, RejectionIsHeard, RejectionInv, Enrolled, Listed,
                TypeOK
  <2> QED BY <1>4, <2>1, <2>2, <2>3, <2>4
<1>6. CASE Publish
  <2>1. UNCHANGED <<conn, arriving, consumers, registered, acked, heard>> /\ TerminalWhen'
    BY <1>6 DEF Publish, Turn, RejectionInv, TerminalWhen
  <2>2. ToldTheReason' /\ ServedAreTold'
    BY <1>6 DEF Publish, Turn, ToldTheReason, ReasonTold, ServedAreTold, Late, RejectionInv
  <2>3. QuietEnds' /\ RejectionIsHeard'
    BY <1>6 DEF Publish, Turn, QuietEnds, RejectionIsHeard, RejectionInv
  <2> QED BY <1>4, <2>1, <2>2, <2>3
<1>7. CASE CloseListener \/ StartWait \/ Exit \/ ForceClose
  <2>1. /\ UNCHANGED <<conn, arriving, consumers, registered, acked, heard, told, terminal, why>>
        /\ run \in Late /\ run' \in Late
    BY <1>7 DEF CloseListener, StartWait, Exit, ForceClose, Turn, Late
  <2>2. TerminalWhen' /\ ToldTheReason' /\ ServedAreTold' /\ QuietEnds' /\ RejectionIsHeard'
    BY <2>1 DEF RejectionInv, TerminalWhen, ToldTheReason, ReasonTold, ServedAreTold, QuietEnds,
                RejectionIsHeard, Late
  <2> QED BY <1>4, <2>1, <2>2
<1>8. CASE SourceEnds \/ IdleEnds \/ StopEnds \/ CtxEnds
  <2>1. /\ UNCHANGED <<conn, arriving, consumers, registered, acked, heard, told, terminal>>
        /\ run = "up" /\ run' = IF why' = "rejected" THEN "publishing" ELSE "stopping"
    BY <1>8 DEF SourceEnds, IdleEnds, StopEnds, CtxEnds, EndBecause, Turn
  <2>2. TerminalWhen' /\ ToldTheReason' /\ ServedAreTold' /\ QuietEnds' /\ RejectionIsHeard'
    BY <2>1 DEF RejectionInv, TerminalWhen, ToldTheReason, ReasonTold, ServedAreTold, QuietEnds,
                RejectionIsHeard, Late
  <2> QED BY <1>4, <2>1, <2>2
<1> QED BY <1>2, <1>3, <1>5, <1>6, <1>7, <1>8 DEF Acceptor, Shutdown

-----------------------------------------------------------------------------
(* The listener, the gate and the source.                                  *)

LEMMA AcceptStep ==
  ASSUME TypeOK, WaitsAfterAccept, [Next]_vars
  PROVE  WaitsAfterAccept'
<1> USE DEF WaitsAfterAccept
<1>1. ASSUME UNCHANGED <<arriving, accepting, run>> PROVE WaitsAfterAccept'
  BY <1>1
<1>2. CASE Source \/ Revoke \/ RequestStop \/ UNCHANGED vars
  BY <1>1, <1>2 DEF Source, Revoke, RequestStop, vars, conns, ends
<1>3. CASE Acceptor
  BY <1>3 DEF Acceptor, AcceptReturns, StartHandler, conns, ends
<1>4. CASE Shutdown
  BY <1>4 DEF Shutdown, Publish, TellAll, CloseListener, StartWait, Exit, ForceClose, Turn
<1>5. CASE SourceEnds \/ IdleEnds \/ StopEnds \/ CtxEnds
  BY <1>5 DEF SourceEnds, IdleEnds, StopEnds, CtxEnds, EndBecause, Turn
<1>6. ASSUME NEW c \in Peers, Handler(c) PROVE WaitsAfterAccept'
  BY <1>1, <1>6 DEF Handler, Handshake, Gate, GateTerminal, GiveUp, Activate, Register,
              NotTerminal, RefuseTerminal, Ack, HearBye, ConnectionEnds, Rest
<1>7. ASSUME NEW c \in Peers, Client(c) PROVE WaitsAfterAccept'
  BY <1>7 DEF Client, Accept, Hello, ConsumerLeaves, ProcessDies, Update, AckLost, Rest, ends
<1> QED BY <1>2, <1>3, <1>4, <1>5, <1>6, <1>7 DEF Next

\* A step that leaves the broker's generation, and the handshakes, alone.
LEMMA HandshakesApart ==
  ASSUME HandshakeIsCurrent, UNCHANGED generation,
         \A h \in Hosts :
           conn'[h] \in {"reading", "updated", "registered"} =>
             conn'[h] = conn[h] /\ hostAt'[h] = hostAt[h] /\ known'[h] = known[h]
  PROVE  HandshakeIsCurrent'
BY DEF HandshakeIsCurrent

LEMMA HandshakeStep ==
  ASSUME DaemonAssumption, TypeOK, TypeOK', NoHandlerYet, HandshakeIsCurrent, [Next]_vars
  PROVE  HandshakeIsCurrent'
<1>1. ASSUME UNCHANGED <<conn, generation, hostAt, known>> PROVE HandshakeIsCurrent'
  BY <1>1 DEF HandshakeIsCurrent
<1>2. CASE Source \/ Revoke \/ AcceptReturns \/ RequestStop \/ UNCHANGED vars
  <2>1. CASE Source
    BY <1>1, <2>1 DEF Source, conns, B!Source, B!Cancelled, B!Others, B!broker, B!hosts, B!Resolve,
             B!Wake, B!RefreshRejected, B!CallLocalRefresh, B!Classify, B!Backoff,
             B!LocalResolved, B!LocalRefreshed, B!Refused, B!Granted, B!Retryable, B!Fatal
  <2>2. CASE Revoke
    BY <1>1, <2>2 DEF Revoke, conns, B!Revoke, B!broker, B!hosts
  <2> QED BY <1>1, <1>2, <2>1, <2>2 DEF AcceptReturns, RequestStop, vars, bvars, conns
<1>3. ASSUME NEW c \in Peers, StartHandler(c) PROVE HandshakeIsCurrent'
  BY <1>3, HandshakesApart DEF StartHandler, TypeOK, bvars
<1>4. CASE Shutdown \/ SourceEnds \/ IdleEnds \/ StopEnds \/ CtxEnds
  BY <1>1, <1>4 DEF Shutdown, Publish, TellAll, CloseListener, StartWait, Exit, ForceClose, Turn,
                    SourceEnds, IdleEnds, StopEnds, CtxEnds, EndBecause, bvars
<1>5. ASSUME NEW c \in Peers, Handler(c) PROVE HandshakeIsCurrent'
  <2>1. ASSUME c \in Hosts, Gate(c) PROVE HandshakeIsCurrent'
    BY <2>1 DEF Gate, Step, B!AskGeneration, B!broker, HandshakeIsCurrent, TypeOK, B!TypeOK
  <2>2. ASSUME c \in Hosts, Activate(c) PROVE HandshakeIsCurrent'
    BY <2>2, HandshakesApart DEF Activate, Step, B!Activate, TypeOK, B!TypeOK
  <2>3. CASE Register(c)
    BY <2>3, Names DEF Register, HandshakeIsCurrent, TypeOK, bvars, DaemonAssumption
  <2>4. CASE GateTerminal(c) \/ GiveUp(c) \/ NotTerminal(c) \/ RefuseTerminal(c) \/ Ack(c)
             \/ HearBye(c) \/ ConnectionEnds(c)
    <3>1. UNCHANGED <<generation, hostAt, known>>
      BY <2>4 DEF GateTerminal, GiveUp, NotTerminal, RefuseTerminal, Ack, HearBye, ConnectionEnds,
                  bvars
    <3>2. /\ conn'[c] \in {"gone", "ack", "serving"}
          /\ \A d \in Peers \ {c} : conn'[d] = conn[d]
      BY <2>4 DEF GateTerminal, GiveUp, NotTerminal, RefuseTerminal, Ack, HearBye, ConnectionEnds,
                  Step, Leave, LoseConnection, TypeOK
    <3> QED BY <3>1, <3>2, HandshakesApart, Names
  <2> QED BY <1>5, <2>1, <2>2, <2>3, <2>4 DEF Handler, Handshake
<1>6. ASSUME NEW c \in Peers, Client(c) PROVE HandshakeIsCurrent'
  <2>1. CASE Accept(c) \/ ProcessDies(c)
    BY <1>1, <2>1 DEF Accept, ProcessDies, bvars
  <2>2. CASE Hello(c) \/ ConsumerLeaves(c)
    <3>1. UNCHANGED <<generation, hostAt, known>>
      BY <2>2 DEF Hello, ConsumerLeaves, bvars
    <3>2. /\ conn'[c] \in {"gone", "gate", "register"}
          /\ \A d \in Peers \ {c} : conn'[d] = conn[d]
      BY <2>2 DEF Hello, ConsumerLeaves, Step, Leave, TypeOK
    <3> QED BY <3>1, <3>2, HandshakesApart, Names
  <2>3. ASSUME c \in Hosts, Update(c) \/ AckLost(c) PROVE HandshakeIsCurrent'
    <3>1. /\ conn[c] = "reading"
          /\ \A h \in Hosts \ {c} : conn[h] \notin {"reading", "updated", "registered"}
      BY <2>3 DEF Update, AckLost, TypeOK
    <3>2. B!Update(c) /\ conn'[c] \in {"updated", "gone"}
          /\ \A h \in Hosts \ {c} : conn'[h] = conn[h]
      BY <2>3, Names DEF Update, AckLost, Step, Leave, TypeOK
    <3>3. hostAt'[c] = "activate" /\ known'[c] = generation'
      BY <2>3, <3>2 DEF B!Update, TypeOK, B!TypeOK
    <3> QED BY <3>1, <3>2, <3>3 DEF HandshakeIsCurrent
  <2> QED BY <1>6, <2>1, <2>2, <2>3 DEF Client
<1> QED BY <1>2, <1>3, <1>4, <1>5, <1>6 DEF Next, Acceptor

\* Without an active broker, a source that must not ask local OAuth only waits.
LEMMA SourceStaysPut ==
  ASSUME RequireSeed, ~active, at \in {"resolve", "wait", "returned"}, back = "resolve",
         B!Source \/ B!Cancelled
  PROVE  ~active' /\ at' \in {"resolve", "wait", "returned"} /\ back' = "resolve"
<1> USE DEF B!Others, B!broker, B!Move, B!Give, B!Return
<1>1. CASE B!Resolve
  BY <1>1 DEF B!Resolve, B!Usable, B!MustWait, B!WaitFrom
<1>2. CASE B!Wake
  BY <1>2 DEF B!Wake
<1>3. CASE B!Cancelled
  BY <1>3 DEF B!Cancelled
<1> QED BY <1>1, <1>2, <1>3 DEF B!Source, B!RefreshRejected, B!CallLocalRefresh, B!Classify,
       B!Backoff, B!LocalResolved, B!LocalRefreshed, B!Refused, B!Granted, B!Retryable, B!Fatal

LEMMA SourceWaitsStep ==
  ASSUME DaemonAssumption, TypeOK, SourceWaits, RejectionInv, [Next]_vars
  PROVE  SourceWaits'
<1> USE DEF SourceWaits
<1>0. registered \subseteq registered'
  BY DEF Next, Source, Revoke, Acceptor, AcceptReturns, StartHandler, Shutdown, Publish, TellAll,
         CloseListener, StartWait, Exit, ForceClose, Turn, RequestStop, SourceEnds, IdleEnds,
         StopEnds, CtxEnds, EndBecause, Handler, Handshake, Gate, GateTerminal, GiveUp, Activate,
         Register, NotTerminal, RefuseTerminal, Ack, HearBye, ConnectionEnds, Client, Accept,
         Hello, ConsumerLeaves, ProcessDies, Update, AckLost, vars, conns
<1>1. ASSUME UNCHANGED <<active, at, back>> PROVE SourceWaits'
  BY <1>0, <1>1
<1>2. CASE Source
  BY <1>0, <1>2, SourceStaysPut DEF Source, DaemonAssumption
<1>3. CASE Revoke
  BY <1>1, <1>3 DEF Revoke, B!Revoke, B!broker, B!source
<1>4. ASSUME NEW h \in Hosts, Activate(h) PROVE SourceWaits'
  <2>1. h \in registered
    BY <1>4, Names DEF Activate, RejectionInv, Enrolled, Listed, TypeOK
  <2> QED BY <1>0, <2>1
<1>5. ASSUME NEW h \in Hosts, Gate(h) \/ Update(h) \/ AckLost(h) PROVE SourceWaits'
  BY <1>1, <1>5 DEF Gate, Update, AckLost, B!AskGeneration, B!Update, B!broker, B!source
<1>6. CASE UNCHANGED bvars
  BY <1>1, <1>6 DEF bvars
<1>7. UNCHANGED bvars \/ Source \/ Revoke
      \/ \E h \in Hosts : Activate(h) \/ Gate(h) \/ Update(h) \/ AckLost(h)
  BY DEF Next, Acceptor, AcceptReturns, StartHandler, Shutdown, Publish, TellAll,
         CloseListener, StartWait, Exit, ForceClose, Turn, RequestStop, SourceEnds, IdleEnds,
         StopEnds, CtxEnds, EndBecause, Handler, Handshake, GateTerminal, GiveUp,
         Register, NotTerminal, RefuseTerminal, Ack, HearBye, ConnectionEnds, Client, Accept,
         Hello, ConsumerLeaves, ProcessDies, vars
<1> QED BY <1>2, <1>3, <1>4, <1>5, <1>6, <1>7

-----------------------------------------------------------------------------
LEMMA DaemonInit == DaemonAssumption /\ Init => DaemonInv
<1> SUFFICES ASSUME DaemonAssumption, Init PROVE DaemonInv
  OBVIOUS
<1> USE DEF Init
<1>1. B!TypeOK /\ RefreshesOne
  BY DEF B!Init, B!TypeOK, RefreshesOne, DaemonAssumption
<1>2. TypeOK
  BY <1>1, Names DEF TypeOK, Ends
<1>3. NoHandlerYet /\ WaitsAfterAccept /\ HandshakeIsCurrent
  BY Names DEF NoHandlerYet, WaitsAfterAccept, HandshakeIsCurrent
<1>4. SourceWaits
  BY DEF SourceWaits, B!Init, DaemonAssumption
<1>5. RejectionInv
  BY DEF RejectionInv, Enrolled, Listed, PastUpdate, TerminalWhen, ToldTheReason, ReasonTold,
         ServedAreTold, QuietEnds, RejectionIsHeard
<1> QED BY <1>1, <1>2, <1>3, <1>4, <1>5 DEF DaemonInv

LEMMA DaemonStep == DaemonAssumption /\ DaemonInv /\ [Next]_vars => DaemonInv'
<1> SUFFICES ASSUME DaemonAssumption, DaemonInv, [Next]_vars PROVE DaemonInv'
  OBVIOUS
<1> USE DEF DaemonInv
<1>1. B!TypeOK' /\ RefreshesOne'
  BY BrokerMoves, BrokerTypes DEF TypeOK
<1>2. TypeOK'
  BY <1>1, HandlerTypes, ClientTypes, RunTypes DEF Next
<1>3. RejectionInv' /\ NoHandlerYet'
  BY <1>2, HandlerHears, ClientHears, RunHears DEF Next
<1>4. WaitsAfterAccept' /\ HandshakeIsCurrent' /\ SourceWaits'
  BY <1>2, AcceptStep, HandshakeStep, SourceWaitsStep
<1> QED BY <1>1, <1>2, <1>3, <1>4

\* The inductive invariant, types included.
THEOREM DaemonInvariant == Spec => []DaemonInv
<1>1. Init => DaemonInv
  BY DaemonAssumption, DaemonInit
<1>2. DaemonInv /\ [Next]_vars => DaemonInv'
  BY DaemonAssumption, DaemonStep
<1> QED BY <1>1, <1>2, PTL DEF Spec

\* No connection is left without its handler once Run waits for the handlers, so that
\* consumerWG.Add never races with Wait (daemon.go:273-276).
THEOREM NoAddAfterWaitAlways == Spec => []NoAddAfterWait
<1>1. DaemonInv => NoAddAfterWait
  BY DEF DaemonInv, WaitsAfterAccept, NoAddAfterWait
<1> QED BY <1>1, DaemonInvariant, PTL

\* Whoever has an accepted credential or was registered hears that a rejected runtime token
\* ended the bus, or had the reason queued: Run publishes before it tells, tells whoever is
\* registered, and who registers later looks for itself (daemon.go:257-264, 519-526).
THEOREM RejectionIsHeardAlways == Spec => []RejectionIsHeard
<1>1. DaemonInv => RejectionIsHeard
  BY DEF DaemonInv, RejectionInv
<1> QED BY <1>1, DaemonInvariant, PTL

\* No other handshake comes between a host's generation, its update and its activation
\* (daemon.go:427-517).
THEOREM HandoffsNeverConflict == Spec => []HandoffNeverConflicts
<1>1. DaemonInv => HandoffNeverConflicts
  BY DEF DaemonInv, HandshakeIsCurrent, HandoffNeverConflicts, B!Accepts, B!Activates
<1> QED BY <1>1, DaemonInvariant, PTL

\* A bus that requires its consumer's activation sends no ticket request before somebody is
\* registered to hear of its rejection (daemon.go:508-511).
THEOREM TicketsWaitForConsumer == Spec => []TicketWaitsForConsumer
<1>1. DaemonInv => TicketWaitsForConsumer
  BY DEF DaemonInv, SourceWaits, TicketWaitsForConsumer
<1> QED BY <1>1, DaemonInvariant, PTL

\* No handshake's update or activation fails for a client that echoes the generation it was
\* told, and a required seed is not sent before a consumer that could hear of its rejection
\* is there: the gate is held by exactly the handshake under way (daemon.go:427-517).
THEOREM HandshakesInOrderAlways == Spec => []HandshakesInOrder
<1>1. DaemonInv => TypeOK
  BY DEF DaemonInv
<1>2. Spec => []TypeOK
  BY <1>1, DaemonInvariant, PTL
<1> QED BY <1>2, HandoffsNeverConflict, TicketsWaitForConsumer, PTL DEF HandshakesInOrder

\* All three, whether the bus requires a seed, waits for an activation, has local OAuth, or
\* takes consumers without a token (daemon.go:257-276, 427-526).
THEOREM DaemonIsSafe == Spec => []DaemonSafe
<1> QED BY HandshakesInOrderAlways, NoAddAfterWaitAlways, RejectionIsHeardAlways, PTL DEF DaemonSafe

-----------------------------------------------------------------------------
(***************************************************************************)
(* De-duplication.  The list of the LRU holds, in the order of their last  *)
(* calls, the keys that were called last: behind a key stand exactly those *)
(* called since, and a key that dropped out has been followed by all that  *)
(* a full list holds (Window).                                             *)
(***************************************************************************)

CallType == [key : Keys, seen : BOOLEAN]

\* The keys that the list e has behind its i-th.
Behind(e, i) == {e[j] : j \in (i + 1)..Len(e)}
Elements(e)  == {e[j] : j \in DOMAIN e}
Injective(e) == \A i, j \in DOMAIN e : e[i] = e[j] => i = j

\* The n-th of the calls c is the last one of k.
LastIn(c, k, n) ==
  n \in DOMAIN c /\ c[n].key = k /\ k \notin {c[j].key : j \in (n + 1)..Len(c)}

\* What was called after the last call of a key in the list stands behind it there; a
\* called key that is not in the list was overtaken by all of a full list.
Window ==
  /\ \A k \in Called : \E n \in DOMAIN calls : LastIn(calls, k, n)
  /\ Remembered \subseteq Called
  /\ \A i \in DOMAIN eviction, n \in DOMAIN calls :
        LastIn(calls, eviction[i], n) => Since(n) = Behind(eviction, i)
  /\ \A k \in Called \ Remembered :
        Len(eviction) = Capacity /\ \A n \in DOMAIN calls : LastIn(calls, k, n) => Remembered \subseteq Since(n)

\* An event that was taken for new is delivered or on its way; an ack is due only then.
OnItsWay ==
  /\ \A k \in Remembered :
        k \in delivered \cup overtaken \/ \E c \in Callbacks : step[c] = "deliver" /\ KeyOf[frame[c]] = k
  /\ \A c \in Callbacks : step[c] = "ack" => KeyOf[frame[c]] \in delivered \cup overtaken

Pending == {c \in Callbacks : step[c] = "dedup"}

DedupInv ==
  /\ DedupTypeOK /\ Len(calls) + Cardinality(Pending) <= MaxCalls
  /\ Injective(eviction) /\ Window /\ OnItsWay /\ OnceInWindow /\ AckedIsDelivered

-----------------------------------------------------------------------------
USE DedupAssumption

\* The types that the steps need.
LEMMA DedupTypes ==
  ASSUME DedupInv
  PROVE  /\ eviction \in Seq(Keys) /\ Len(eviction) \in Nat /\ DOMAIN eviction = 1..Len(eviction)
         /\ calls \in Seq(CallType) /\ Len(calls) \in Nat /\ DOMAIN calls = 1..Len(calls)
         /\ \A i \in DOMAIN calls : calls[i].key \in Keys
         /\ \A c \in Callbacks : KeyOf[frame[c]] \in Keys
         /\ Called \subseteq Keys /\ Remembered \subseteq Keys
<1>1. eviction \in Seq(Keys) /\ calls \in Seq(CallType) /\ frame \in [Callbacks -> Events]
  BY DEF DedupInv, DedupTypeOK, CallType
<1>2. \A i \in DOMAIN calls : calls[i] \in CallType
  BY <1>1
<1>3. \A i \in DOMAIN eviction : eviction[i] \in Keys
  BY <1>1
<1>4. Called \subseteq Keys /\ Remembered \subseteq Keys
  BY <1>2, <1>3 DEF Called, Remembered, CallType
<1> QED BY <1>1, <1>2, <1>4 DEF CallType, Keys

\* A key has one last call.
LEMMA LastIsOne ==
  ASSUME DedupInv, NEW k, NEW n \in DOMAIN calls, LastIn(calls, k, n)
  PROVE  LastCall(k) = n
<1>1. ASSUME NEW m \in DOMAIN calls, NEW l \in DOMAIN calls, calls[m].key = k, calls[l].key = k, k \notin Since(l), m > l
      PROVE  FALSE
  <2>1. m \in (l + 1)..Len(calls)
    BY <1>1, DedupTypes
  <2> QED BY <1>1, <2>1 DEF Since
<1>2. ASSUME NEW l \in DOMAIN calls, calls[l].key = k, k \notin Since(l)
      PROVE  l = n
  BY <1>1, <1>2, DedupTypes DEF LastIn, Since
<1> QED BY <1>2 DEF LastCall, LastIn, Since

\* Between two calls only finitely many keys are called.
LEMMA SinceIsFinite ==
  ASSUME NEW a \in Int, NEW b \in Int
  PROVE  IsFiniteSet({calls[j].key : j \in a..b})
<1> DEFINE T == {calls[j].key : j \in a..b}
           f == [j \in a..b |-> calls[j].key]
<1>1. IsFiniteSet(a..b)
  BY FS_Interval
<1>2. f \in Surjection(a..b, T)
  BY DEF Surjection
<1> QED BY <1>1, <1>2, FS_Surjection

\* A list without repetitions has as many elements as it is long.
LEMMA ListCounts ==
  ASSUME NEW K, NEW e \in Seq(K), Injective(e)
  PROVE  IsFiniteSet(Elements(e)) /\ Cardinality(Elements(e)) = Len(e)
<1>1. e \in [1..Len(e) -> K] /\ Len(e) \in Nat /\ DOMAIN e = 1..Len(e)
  OBVIOUS
<1>2. IsFiniteSet(1..Len(e)) /\ Cardinality(1..Len(e)) = Len(e)
  <2>1. \A n \in Nat : IsFiniteSet(1..n) /\ Cardinality(1..n) = n
    BY FS_Interval
  <2> QED BY <1>1, <2>1
<1>3. e \in Surjection(1..Len(e), Elements(e)) /\ e \in Injection(1..Len(e), Elements(e))
  BY <1>1 DEF Surjection, Injection, Elements, Injective, IsInjective
<1> QED BY <1>2, <1>3, FS_Surjection

\* The set is that of the most recent keys.
LEMMA WindowMeans ==
  ASSUME DedupInv
  PROVE  WindowIsMostRecent
<1>1. IsFiniteSet(Remembered) /\ Cardinality(Remembered) = Len(eviction) /\ Len(eviction) <= Capacity
  <2>1. Remembered = Elements(eviction)
    BY DEF Remembered, Elements
  <2> QED BY <2>1, ListCounts, DedupTypes DEF DedupInv, DedupTypeOK
<1>2. \A n \in DOMAIN calls : IsFiniteSet(Since(n))
  <2>1. ASSUME NEW n \in DOMAIN calls PROVE n + 1 \in Int /\ Len(calls) \in Int
    BY DedupTypes
  <2> QED BY <2>1, SinceIsFinite DEF Since
<1>3. ASSUME NEW k \in Remembered
      PROVE  k \in Called /\ Cardinality(Since(LastCall(k))) < Capacity
  <2>1. PICK i \in DOMAIN eviction : eviction[i] = k
    BY DEF Remembered
  <2>2. k \in Called
    BY DEF DedupInv, Window
  <2>3. PICK n \in DOMAIN calls : LastIn(calls, k, n)
    BY <2>2 DEF DedupInv, Window
  <2>4. Since(n) = Behind(eviction, i)
    BY <2>1, <2>3 DEF DedupInv, Window
  <2>5. Behind(eviction, i) \in SUBSET (Remembered \ {k})
    <3>1. \A j \in (i + 1)..Len(eviction) : j \in DOMAIN eviction /\ j # i
      BY <2>1, DedupTypes
    <3> QED BY <2>1, <3>1 DEF Behind, Remembered, DedupInv, Injective
  <2>6. IsFiniteSet(Remembered \ {k}) /\ Cardinality(Remembered \ {k}) = Len(eviction) - 1
    BY <1>1, FS_RemoveElement
  <2>7. Cardinality(Since(n)) <= Len(eviction) - 1
    BY <2>4, <2>5, <2>6, FS_Subset
  <2>8. Cardinality(Since(n)) \in Nat
    BY <1>2, FS_CardinalityType
  <2>9. Cardinality(Since(n)) < Capacity
    BY <1>1, <2>7, <2>8, DedupTypes
  <2> QED BY <2>2, <2>3, <2>9, LastIsOne
<1>4. ASSUME NEW k \in Called \ Remembered
      PROVE  ~(Cardinality(Since(LastCall(k))) < Capacity)
  <2>1. PICK n \in DOMAIN calls : LastIn(calls, k, n)
    BY DEF DedupInv, Window
  <2>2. Remembered \in SUBSET Since(n) /\ Len(eviction) = Capacity
    BY <2>1 DEF DedupInv, Window
  <2>3. Cardinality(Remembered) <= Cardinality(Since(n)) /\ Cardinality(Since(n)) \in Nat
    BY <1>2, <2>2, FS_Subset, FS_CardinalityType
  <2> QED BY <1>1, <2>1, <2>2, <2>3, LastIsOne
<1>5. ASSUME NEW i \in DOMAIN eviction, NEW j \in DOMAIN eviction, i < j
      PROVE  LastCall(eviction[i]) < LastCall(eviction[j])
  <2>1. PICK n \in DOMAIN calls : LastIn(calls, eviction[i], n)
    BY DEF DedupInv, Window, Remembered
  <2>2. PICK m \in DOMAIN calls : LastIn(calls, eviction[j], m)
    BY DEF DedupInv, Window, Remembered
  <2>3. j \in (i + 1)..Len(eviction)
    BY <1>5, DedupTypes
  <2>4. eviction[j] \in Since(n)
    BY <2>1, <2>3 DEF DedupInv, Window, Behind
  <2>5. PICK l \in (n + 1)..Len(calls) : calls[l].key = eviction[j]
    BY <2>4 DEF Since
  <2>6. l \notin (m + 1)..Len(calls)
    BY <2>2, <2>5 DEF LastIn, Since
  <2>7. n < m
    BY <2>5, <2>6, DedupTypes
  <2> QED BY <2>1, <2>2, <2>7, LastIsOne
<1> QED BY <1>3, <1>4, <1>5 DEF WindowIsMostRecent

-----------------------------------------------------------------------------
\* The invariant holds when the bus starts, and every step keeps it.
LEMMA DedupStart == DedupInit => DedupInv
<1> SUFFICES ASSUME DedupInit PROVE DedupInv
  OBVIOUS
<1>1. Remembered = {} /\ Called = {} /\ Pending = {}
  BY DEF DedupInit, Remembered, Called, Pending
<1>2. (CHOOSE e \in Events : TRUE) \in Events
  OBVIOUS
<1>3. DedupTypeOK /\ Len(calls) + Cardinality(Pending) <= MaxCalls
  BY <1>1, <1>2, FS_EmptySet DEF DedupInit, DedupTypeOK
<1> QED BY <1>1, <1>3 DEF DedupInit, DedupInv, Injective, Window, OnItsWay, OnceInWindow, AckedIsDelivered

\* Seen appends a call of k.
LEMMA CallsGrow ==
  ASSUME DedupInv, NEW k \in Keys, NEW b \in BOOLEAN, calls' = Append(calls, [key |-> k, seen |-> b])
  PROVE  LET n0 == Len(calls)
         IN  /\ Len(calls') = n0 + 1 /\ DOMAIN calls' = 1..(n0 + 1)
             /\ calls'[n0 + 1] = [key |-> k, seen |-> b] /\ \A n \in 1..n0 : calls'[n] = calls[n]
             /\ \A n \in 1..n0 : Since(n)' = Since(n) \cup {k}
             /\ Called' = Called \cup {k}
             /\ \A n \in DOMAIN calls' : LastIn(calls', k, n) <=> n = n0 + 1
             /\ \A q \in Keys \ {k}, n \in DOMAIN calls' : LastIn(calls', q, n) <=> n \in DOMAIN calls /\ LastIn(calls, q, n)
             /\ \A n : n = n0 + 1 => Since(n)' = {}
<1> DEFINE n0 == Len(calls)
<1>1. /\ Len(calls') = n0 + 1 /\ DOMAIN calls' = 1..(n0 + 1)
      /\ calls'[n0 + 1] = [key |-> k, seen |-> b] /\ \A n \in 1..n0 : calls'[n] = calls[n]
  BY DedupTypes
<1>2. n0 \in Nat /\ DOMAIN calls = 1..n0
  BY DedupTypes
<1>3. calls'[n0 + 1].key = k
  BY <1>1
<1> HIDE DEF n0
<1>4. ASSUME NEW n \in 1..n0 PROVE Since(n)' = Since(n) \cup {k}
  <2>1. Since(n)' = {calls'[j].key : j \in (n + 1)..(n0 + 1)}
    BY <1>1 DEF Since
  <2>2. (n + 1)..(n0 + 1) = ((n + 1)..n0) \cup {n0 + 1}
    BY <1>2
  <2>3. \A j \in (n + 1)..n0 : calls'[j].key = calls[j].key
    BY <1>1, <1>2
  <2>4. Since(n) = {calls[j].key : j \in (n + 1)..n0}
    BY DEF Since, n0
  <2>5. Since(n)' = {calls'[j].key : j \in (n + 1)..n0} \cup {calls'[n0 + 1].key}
    BY <2>1, <2>2
  <2> QED BY <1>3, <2>3, <2>4, <2>5
<1>5. ASSUME NEW n, n = n0 + 1 PROVE Since(n)' = {}
  <2>1. Since(n)' = {calls'[j].key : j \in (n + 1)..(n0 + 1)}
    BY <1>1 DEF Since
  <2>2. (n + 1)..(n0 + 1) = {}
    BY <1>2, <1>5
  <2> QED BY <2>1, <2>2
<1>6. 1..(n0 + 1) = (1..n0) \cup {n0 + 1} /\ n0 + 1 \notin 1..n0
  BY <1>2
<1>7. Called' = Called \cup {k}
  BY <1>1, <1>2, <1>3, <1>6 DEF Called
<1>8. ASSUME NEW n \in DOMAIN calls' PROVE LastIn(calls', k, n) <=> n = n0 + 1
  <2>1. CASE n = n0 + 1
    BY <1>1, <1>3, <1>5, <2>1 DEF LastIn, Since
  <2>2. CASE n \in 1..n0
    BY <1>4, <1>6, <2>2 DEF LastIn, Since
  <2> QED BY <1>1, <1>6, <2>1, <2>2
<1>9. ASSUME NEW q \in Keys \ {k}, NEW n \in DOMAIN calls'
      PROVE  LastIn(calls', q, n) <=> n \in DOMAIN calls /\ LastIn(calls, q, n)
  BY <1>1, <1>2, <1>3, <1>4, <1>6 DEF LastIn, Since
<1> QED BY <1>1, <1>4, <1>5, <1>7, <1>8, <1>9 DEF n0

\* The list changes from e to v, and afterwards the set is that of the most recent keys again.
LEMMA WindowGoesOn ==
  ASSUME DedupInv, NEW k \in Keys, NEW b \in BOOLEAN, calls' = Append(calls, [key |-> k, seen |-> b]),
         eviction' \in Seq(Keys), Injective(eviction)',
         Remembered' \subseteq Remembered \cup {k}, k \in Remembered',
         \A i \in DOMAIN eviction' : eviction'[i] # k =>
            \E j \in DOMAIN eviction : eviction[j] = eviction'[i]
               /\ Behind(eviction', i) = Behind(eviction, j) \cup {k},
         \A i \in DOMAIN eviction' : eviction'[i] = k => Behind(eviction', i) = {},
         \A q \in Remembered \ Remembered' : Len(eviction) = Capacity
            /\ \E i \in DOMAIN eviction : eviction[i] = q /\ Remembered' = Behind(eviction, i) \cup {k},
         Len(eviction) = Capacity => Len(eviction') = Capacity
  PROVE  Window'
<1> DEFINE n0 == Len(calls)
<1>c. /\ Len(calls') = n0 + 1 /\ DOMAIN calls' = 1..(n0 + 1)
      /\ \A n \in 1..n0 : Since(n)' = Since(n) \cup {k}
      /\ Called' = Called \cup {k}
      /\ \A n \in DOMAIN calls' : LastIn(calls', k, n) <=> n = n0 + 1
      /\ \A q \in Keys \ {k}, n \in DOMAIN calls' : LastIn(calls', q, n) <=> n \in DOMAIN calls /\ LastIn(calls, q, n)
      /\ \A n : n = n0 + 1 => Since(n)' = {}
  BY CallsGrow
<1>d. n0 \in Nat /\ DOMAIN calls = 1..n0
  BY DedupTypes
<1>k. Called \subseteq Keys /\ Remembered \subseteq Keys
  BY DedupTypes
<1>w. Window
  BY DEF DedupInv
<1> HIDE DEF n0
<1>n. DOMAIN calls = 1..n0 /\ DOMAIN calls \subseteq DOMAIN calls' /\ n0 + 1 \in DOMAIN calls'
  BY <1>c, <1>d
<1>1. ASSUME NEW q \in Called' PROVE \E n \in DOMAIN calls' : LastIn(calls', q, n)
  <2>1. CASE q = k
    BY <1>c, <1>n, <2>1
  <2>2. CASE q # k
    <3>1. PICK n \in DOMAIN calls : LastIn(calls, q, n)
      BY <1>c, <1>w, <2>2 DEF Window
    <3> QED BY <1>c, <1>n, <1>k, <2>2, <3>1
  <2> QED BY <2>1, <2>2
<1>2. Remembered' \subseteq Called'
  BY <1>c, <1>w DEF Window
<1>3. ASSUME NEW i \in DOMAIN eviction', NEW n \in DOMAIN calls', LastIn(calls', eviction'[i], n)
      PROVE  Since(n)' = Behind(eviction', i)
  <2>1. CASE eviction'[i] = k
    BY <1>3, <1>c, <2>1
  <2>2. CASE eviction'[i] # k
    <3>1. PICK j \in DOMAIN eviction : eviction[j] = eviction'[i] /\ Behind(eviction', i) = Behind(eviction, j) \cup {k}
      BY <2>2
    <3>2. eviction'[i] \in Keys
      BY <3>1, <1>k DEF Remembered
    <3>3. n \in DOMAIN calls /\ LastIn(calls, eviction[j], n)
      BY <1>3, <1>c, <2>2, <3>1, <3>2
    <3>4. Since(n) = Behind(eviction, j)
      BY <1>w, <3>3 DEF Window
    <3> QED BY <1>c, <1>n, <3>1, <3>3, <3>4
  <2> QED BY <2>1, <2>2
<1>4. ASSUME NEW q \in Called' \ Remembered'
      PROVE  Len(eviction') = Capacity /\ \A n \in DOMAIN calls' : LastIn(calls', q, n) => Remembered' \subseteq Since(n)'
  <2>1. q # k /\ q \in Called /\ q \in Keys
    BY <1>c, <1>k
  <2>2. ASSUME NEW n \in DOMAIN calls', LastIn(calls', q, n) PROVE n \in DOMAIN calls /\ LastIn(calls, q, n) /\ Since(n)' = Since(n) \cup {k}
    BY <1>c, <1>n, <2>1, <2>2
  <2>3. CASE q \in Remembered
    <3>1. Len(eviction) = Capacity
      BY <2>3
    <3>2. PICK i \in DOMAIN eviction : eviction[i] = q /\ Remembered' = Behind(eviction, i) \cup {k}
      BY <2>3
    <3>3. \A n \in DOMAIN calls : LastIn(calls, q, n) => Since(n) = Behind(eviction, i)
      BY <1>w, <3>2 DEF Window
    <3> QED BY <2>2, <3>1, <3>2, <3>3
  <2>4. CASE q \notin Remembered
    <3>1. Len(eviction) = Capacity /\ \A n \in DOMAIN calls : LastIn(calls, q, n) => Remembered \subseteq Since(n)
      BY <1>w, <2>1, <2>4 DEF Window
    <3> QED BY <2>2, <3>1
  <2> QED BY <2>3, <2>4
<1> QED BY <1>1, <1>2, <1>3, <1>4 DEF Window, Behind, Remembered

\* A key that is called again goes to the back, and the others stay in their order.
LEMMA MovedIs ==
  ASSUME DedupInv, NEW p \in DOMAIN eviction, NEW k, eviction[p] = k
  PROVE  LET v == MovedToBack(k)
         IN  /\ v \in Seq(Keys) /\ Injective(v) /\ Len(v) = Len(eviction) /\ Elements(v) = Remembered
             /\ \A i \in DOMAIN v : v[i] = k => Behind(v, i) = {}
             /\ \A i \in DOMAIN v : v[i] # k =>
                  \E j \in DOMAIN eviction : eviction[j] = v[i] /\ Behind(v, i) = Behind(eviction, j) \cup {k}
<1> DEFINE e == eviction
           n == Len(e)
           v == MovedToBack(k)
<1>1. e \in Seq(Keys) /\ n \in Nat /\ DOMAIN e = 1..n /\ p \in 1..n /\ k \in Keys
      /\ \A i \in 1..n : e[i] \in Keys
  BY DedupTypes DEF Remembered
<1>2. \A i, j \in 1..n : e[i] = e[j] => i = j
  BY <1>1 DEF DedupInv, Injective
<1>3. ASSUME NEW i \in 1..n PROVE v[i] = IF i = n THEN k ELSE IF p <= i THEN e[i + 1] ELSE e[i]
  <2>1. (\E j \in 1..i : e[j] = k) <=> p <= i
    BY <1>1, <1>2, <1>3
  <2>2. v[i] = IF i = n THEN k ELSE IF \E j \in 1..i : e[j] = k THEN e[i + 1] ELSE e[i]
    BY <1>1 DEF MovedToBack
  <2> QED BY <2>1, <2>2
<1>4. v \in [1..n -> Keys]
  <2>1. v = [i \in 1..n |-> v[i]]
    BY <1>1 DEF MovedToBack
  <2>2. \A i \in 1..n : v[i] \in Keys
    <3>1. \A m \in Nat : \A i \in 1..m : i # m => i + 1 \in 1..m
      OBVIOUS
    <3> HIDE DEF v, n, e
    <3> QED BY <1>1, <1>3, <3>1
  <2> HIDE DEF v
  <2> QED BY <2>1, <2>2
<1> HIDE DEF v
<1>5. v \in Seq(Keys) /\ Len(v) = n /\ DOMAIN v = 1..n
  BY <1>1, <1>4
<1> HIDE DEF n, e
\* Where what stands at i now has been.
<1> DEFINE was(i) == IF i = n THEN p ELSE IF p <= i THEN i + 1 ELSE i
<1>6. ASSUME NEW i \in 1..n PROVE was(i) \in 1..n /\ v[i] = e[was(i)]
  BY <1>1, <1>3 DEF e
<1>7. ASSUME NEW i \in 1..n, NEW j \in 1..n, was(i) = was(j) PROVE i = j
  BY <1>1, <1>7
<1>8. ASSUME NEW j \in 1..n PROVE \E i \in 1..n : was(i) = j
  <2>1. CASE j < p
    BY <1>1, <2>1
  <2>2. CASE j = p
    BY <1>1, <2>2
  <2>3. CASE j > p
    <3>1. j - 1 \in 1..n /\ was(j - 1) = j
      BY <1>1, <2>3
    <3> QED BY <3>1
  <2> QED BY <1>1, <2>1, <2>2, <2>3
<1>9. ASSUME NEW i \in 1..n, i # n PROVE {was(j) : j \in (i + 1)..n} = ((was(i) + 1)..n) \cup {p}
  <2>1. ASSUME NEW j \in (i + 1)..n PROVE was(j) \in ((was(i) + 1)..n) \cup {p}
    BY <1>1, <1>9
  <2>2. p \in {was(j) : j \in (i + 1)..n}
    <3>1. n \in (i + 1)..n /\ was(n) = p
      BY <1>1, <1>9
    <3> QED BY <3>1
  <2>3. ASSUME NEW m \in (was(i) + 1)..n PROVE \E j \in (i + 1)..n : was(j) = m
    <3>1. CASE m < p
      BY <1>1, <1>9, <3>1
    <3>2. CASE m = p
      BY <2>2, <3>2
    <3>3. CASE m > p
      <4>1. m - 1 \in (i + 1)..n /\ was(m - 1) = m
        BY <1>1, <1>9, <3>3
      <4> QED BY <4>1
    <3> QED BY <1>1, <3>1, <3>2, <3>3
  <2> QED BY <2>1, <2>2, <2>3
<1>10. \A i \in 1..n : v[i] = k <=> i = n
  <2>1. ASSUME NEW i \in 1..n PROVE v[i] = k <=> was(i) = p
    BY <1>1, <1>2, <1>6 DEF e
  <2>2. ASSUME NEW i \in 1..n PROVE was(i) = p <=> i = n
    BY <1>1
  <2> QED BY <2>1, <2>2
<1> HIDE DEF was
<1>11. Injective(v)
  BY <1>2, <1>5, <1>6, <1>7 DEF Injective
<1>12. Elements(v) = Remembered
  <2>1. Elements(v) = {v[i] : i \in 1..n} /\ Remembered = {e[i] : i \in 1..n}
    BY <1>1, <1>5 DEF Elements, Remembered, e
  <2>2. \A i \in 1..n : \E j \in 1..n : v[i] = e[j]
    BY <1>6
  <2>3. \A j \in 1..n : \E i \in 1..n : v[i] = e[j]
    BY <1>6, <1>8
  <2>4. Elements(v) \subseteq Remembered
    BY <2>1, <2>2
  <2>5. Remembered \subseteq Elements(v)
    BY <2>1, <2>3
  <2> QED BY <2>4, <2>5
<1>13. Behind(v, n) = {}
  BY <1>1, <1>5 DEF Behind
<1>14. ASSUME NEW i \in 1..n, i # n PROVE e[was(i)] = v[i] /\ Behind(v, i) = Behind(e, was(i)) \cup {k}
  <2>1. Behind(v, i) = {v[j] : j \in (i + 1)..n}
    BY <1>5 DEF Behind
  <2>2. \A j \in (i + 1)..n : j \in 1..n
    BY <1>1
  <2>3. Behind(v, i) = {e[was(j)] : j \in (i + 1)..n}
    BY <1>6, <2>1, <2>2
  <2>4. Behind(v, i) = {e[m] : m \in {was(j) : j \in (i + 1)..n}}
    BY <2>3
  <2>5. Behind(v, i) = {e[m] : m \in (was(i) + 1)..n} \cup {e[p]}
    BY <1>9, <1>14, <2>4
  <2> QED BY <1>6, <2>5 DEF Behind, n, e
<1> QED BY <1>1, <1>5, <1>6, <1>10, <1>11, <1>12, <1>13, <1>14 DEF v, n, e

\* A new key goes to the back; from a full list the first one drops out.
LEMMA InsertedIs ==
  ASSUME DedupInv, NEW k \in Keys \ Remembered
  PROVE  LET v == Inserted(k)
         IN  /\ v \in Seq(Keys) /\ Injective(v) /\ Len(v) <= Capacity
             /\ (Len(eviction) = Capacity => Len(v) = Capacity)
             /\ Elements(v) \subseteq Remembered \cup {k} /\ k \in Elements(v)
             /\ \A i \in DOMAIN v : v[i] = k => Behind(v, i) = {}
             /\ \A i \in DOMAIN v : v[i] # k =>
                  \E j \in DOMAIN eviction : eviction[j] = v[i] /\ Behind(v, i) = Behind(eviction, j) \cup {k}
             /\ \A q \in Remembered \ Elements(v) : Len(eviction) = Capacity
                  /\ \E i \in DOMAIN eviction : eviction[i] = q /\ Elements(v) = Behind(eviction, i) \cup {k}
<1> DEFINE e == eviction
           n == Len(e)
           v == Inserted(k)
           d == IF n >= Capacity THEN 1 ELSE 0
           m == n - d
<1>1. /\ e \in Seq(Keys) /\ n \in Nat /\ DOMAIN e = 1..n /\ n <= Capacity /\ \A i \in 1..n : e[i] \in Keys /\ e[i] # k
  BY DedupTypes DEF Remembered, DedupInv, DedupTypeOK
<1>2. \A i, j \in 1..n : e[i] = e[j] => i = j
  BY <1>1 DEF DedupInv, Injective
<1>3. /\ v \in Seq(Keys) /\ Len(v) = m + 1 /\ DOMAIN v = 1..(m + 1) /\ v[m + 1] = k
      /\ \A i \in 1..m : v[i] = e[i + d]
  <2>1. CASE n >= Capacity
    <3>1. v = Append(Tail(e), k) /\ d = 1
      BY <2>1 DEF Inserted
    <3>2. Tail(e) \in Seq(Keys) /\ Len(Tail(e)) = n - 1 /\ \A i \in 1..(n - 1) : Tail(e)[i] = e[i + 1]
      BY <1>1, <2>1
    <3> HIDE DEF e, n, v
    <3> QED BY <3>1, <3>2
  <2>2. CASE ~(n >= Capacity)
    <3>1. v = Append(e, k) /\ d = 0
      BY <2>2 DEF Inserted
    <3> HIDE DEF v
    <3> QED BY <1>1, <3>1
  <2> QED BY <2>1, <2>2
<1>4. m \in Nat /\ d \in {0, 1} /\ n = m + d /\ m + 1 <= Capacity /\ (d = 1 <=> n = Capacity)
  <2>1. Capacity \in Nat \ {0}
    OBVIOUS
  <2> HIDE DEF n, e
  <2>2. d = IF n >= Capacity THEN 1 ELSE 0
    OBVIOUS
  <2> HIDE DEF d
  <2> QED BY <1>1, <2>1, <2>2
<1> HIDE DEF v, m, d, n
<1>5. \A i \in 1..m : i + d \in 1..n /\ v[i] = e[i + d]
  BY <1>3, <1>4
<1> HIDE DEF e
<1>6. \A i \in 1..(m + 1) : i = m + 1 \/ i \in 1..m
  BY <1>4
<1>7. \A i \in 1..(m + 1) : v[i] = k <=> i = m + 1
  BY <1>1, <1>3, <1>5, <1>6
<1>8. Injective(v)
  <2>1. ASSUME NEW i \in 1..m, NEW j \in 1..m, v[i] = v[j] PROVE i = j
    <3>1. i + d = j + d
      BY <1>2, <1>5, <2>1
    <3> QED BY <1>4, <3>1
  <2> QED BY <1>3, <1>6, <1>7, <2>1 DEF Injective
<1>9. Elements(v) = {v[i] : i \in 1..m} \cup {k}
  BY <1>3, <1>6, <1>4 DEF Elements
<1>10. {v[i] : i \in 1..m} = {e[j] : j \in (d + 1)..n}
  <2>1. \A j \in (d + 1)..n : j - d \in 1..m /\ (j - d) + d = j
    BY <1>4
  <2>2. \A i \in 1..m : i + d \in (d + 1)..n
    BY <1>4
  <2> QED BY <1>5, <2>1, <2>2
<1>11. Elements(v) \subseteq Remembered \cup {k} /\ k \in Elements(v)
  <2>1. \A i \in 1..m : v[i] \in Remembered
    BY <1>1, <1>5 DEF Remembered, e
  <2> QED BY <1>9, <2>1
<1>12. Behind(v, m + 1) = {}
  BY <1>3, <1>4 DEF Behind
<1>13. ASSUME NEW i \in 1..m PROVE e[i + d] = v[i] /\ Behind(v, i) = Behind(e, i + d) \cup {k}
  <2>1. Behind(v, i) = {v[j] : j \in (i + 1)..(m + 1)}
    BY <1>3 DEF Behind
  <2>2. (i + 1)..(m + 1) = ((i + 1)..m) \cup {m + 1}
    BY <1>4
  <2>3. Behind(v, i) = {v[j] : j \in (i + 1)..m} \cup {k}
    BY <1>3, <2>1, <2>2
  <2>4. \A j \in (i + 1)..m : j \in 1..m /\ j + d \in ((i + d) + 1)..n
    BY <1>4
  <2>5. \A j \in ((i + d) + 1)..n : j - d \in (i + 1)..m /\ j - d \in 1..m /\ (j - d) + d = j
    BY <1>4
  <2>6. {v[j] : j \in (i + 1)..m} = {e[j] : j \in ((i + d) + 1)..n}
    BY <1>5, <2>4, <2>5
  <2> QED BY <1>5, <2>3, <2>6 DEF Behind, n
<1>14. ASSUME NEW q \in Remembered \ Elements(v)
       PROVE  n = Capacity /\ 1 \in 1..n /\ e[1] = q /\ Elements(v) = Behind(e, 1) \cup {k}
  <2>1. PICK j \in 1..n : e[j] = q
    BY <1>1 DEF Remembered, e
  <2>2. j \notin (d + 1)..n
    BY <1>9, <1>10, <2>1
  <2>3. d = 1 /\ j = 1
    BY <1>1, <1>4, <2>1, <2>2
  <2> QED BY <1>4, <1>9, <1>10, <2>1, <2>3 DEF Behind, n
<1> QED BY <1>1, <1>3, <1>4, <1>5, <1>6, <1>7, <1>8, <1>11, <1>12, <1>13, <1>14 DEF e, n, v

-----------------------------------------------------------------------------
\* Seen keeps the window, whether the key was in the list or not.
LEMMA SeenKeepsWindow ==
  ASSUME DedupInv, NEW c \in Callbacks, Seen(c)
  PROVE  /\ eviction' \in Seq(Keys) /\ Injective(eviction') /\ Len(eviction') <= Capacity
         /\ Remembered' = Elements(eviction') /\ Remembered' \subseteq Remembered \cup {KeyOf[frame[c]]}
         /\ Window'
<1> DEFINE k   == KeyOf[frame[c]]
           dup == k \in Remembered
<1>1. k \in Keys /\ calls' = Append(calls, [key |-> k, seen |-> dup]) /\ dup \in BOOLEAN
  BY DedupTypes DEF Seen
<1>2. eviction' = IF dup THEN MovedToBack(k) ELSE Inserted(k)
  BY DEF Seen
<1>3. Remembered' = Elements(eviction')
  BY DEF Remembered, Elements
<1>4. Len(eviction) <= Capacity
  BY DEF DedupInv, DedupTypeOK
<1> HIDE DEF k
<1>5. CASE dup
  <2>1. PICK p \in DOMAIN eviction : eviction[p] = k
    BY <1>5 DEF Remembered
  <2>2. /\ eviction' \in Seq(Keys) /\ Injective(eviction') /\ Len(eviction') = Len(eviction)
        /\ Elements(eviction') = Remembered
        /\ \A i \in DOMAIN eviction' : eviction'[i] = k => Behind(eviction', i) = {}
        /\ \A i \in DOMAIN eviction' : eviction'[i] # k =>
             \E j \in DOMAIN eviction : eviction[j] = eviction'[i]
               /\ Behind(eviction', i) = Behind(eviction, j) \cup {k}
    BY <1>2, <1>5, <2>1, MovedIs
  <2>3. Remembered' = Remembered
    BY <1>3, <2>2
  <2>4. Window'
    BY <1>1, <1>5, <2>2, <2>3, WindowGoesOn
  <2> QED BY <1>3, <1>4, <2>2, <2>3, <2>4 DEF k
<1>6. CASE ~dup
  <2>1. /\ eviction' \in Seq(Keys) /\ Injective(eviction') /\ Len(eviction') <= Capacity
        /\ (Len(eviction) = Capacity => Len(eviction') = Capacity)
        /\ Elements(eviction') \subseteq Remembered \cup {k} /\ k \in Elements(eviction')
        /\ \A i \in DOMAIN eviction' : eviction'[i] = k => Behind(eviction', i) = {}
        /\ \A i \in DOMAIN eviction' : eviction'[i] # k =>
             \E j \in DOMAIN eviction : eviction[j] = eviction'[i]
               /\ Behind(eviction', i) = Behind(eviction, j) \cup {k}
        /\ \A q \in Remembered \ Elements(eviction') : Len(eviction) = Capacity
             /\ \E i \in DOMAIN eviction : eviction[i] = q /\ Elements(eviction') = Behind(eviction, i) \cup {k}
    BY <1>1, <1>2, <1>6, InsertedIs
  <2>2. Window'
    BY <1>1, <1>3, <2>1, WindowGoesOn
  <2> QED BY <1>3, <2>1, <2>2 DEF k
<1> QED BY <1>5, <1>6

\* A key that is taken for new was last called before as many others as the list holds.
LEMMA SeenIsOnce ==
  ASSUME DedupInv, NEW c \in Callbacks, Seen(c)
  PROVE  OnceInWindow'
<1> DEFINE k   == KeyOf[frame[c]]
           dup == k \in Remembered
           n0  == Len(calls)
<1>1. k \in Keys /\ calls' = Append(calls, [key |-> k, seen |-> dup]) /\ dup \in BOOLEAN
  BY DedupTypes DEF Seen
<1>2. /\ DOMAIN calls' = 1..(n0 + 1) /\ calls'[n0 + 1] = [key |-> k, seen |-> dup]
      /\ \A n \in 1..n0 : calls'[n] = calls[n]
  BY <1>1, CallsGrow
<1>3. n0 \in Nat /\ DOMAIN calls = 1..n0
  BY DedupTypes
<1> HIDE DEF n0, k
<1>4. ASSUME NEW i \in 1..(n0 + 1), NEW j \in 1..(n0 + 1), i < j, calls'[i].key = calls'[j].key,
             ~calls'[i].seen, ~calls'[j].seen
      PROVE  \E m \in i..j : Cardinality({calls'[n].key : n \in (m + 1)..(j - 1)}) >= Capacity
  <2>1. i \in 1..n0 /\ calls'[i] = calls[i]
    BY <1>2, <1>3, <1>4
  <2>2. \A m \in i..j : {calls'[n].key : n \in (m + 1)..(j - 1)} = {calls[n].key : n \in (m + 1)..(j - 1)}
    <3>1. ASSUME NEW m \in i..j, NEW n \in (m + 1)..(j - 1) PROVE calls'[n] = calls[n]
      <4>1. n \in 1..n0
        BY <1>3, <1>4
      <4> QED BY <1>2, <4>1
    <3> QED BY <3>1
  <2>3. CASE j \in 1..n0
    <3>1. \E m \in i..j : Cardinality({calls[n].key : n \in (m + 1)..(j - 1)}) >= Capacity
      BY <1>2, <1>3, <1>4, <2>1, <2>3 DEF DedupInv, OnceInWindow
    <3> QED BY <2>2, <3>1
  <2>4. CASE j = n0 + 1
    <3>1. calls[i].key = k /\ ~dup
      <4>1. calls'[j] = [key |-> k, seen |-> dup]
        BY <1>2, <2>4
      <4>2. calls'[j].key = k /\ calls'[j].seen = dup
        <5> HIDE DEF dup
        <5> QED BY <4>1
      <4> QED BY <1>4, <2>1, <4>2, Zenon
    <3>2. k \in Called \ Remembered
      BY <1>3, <2>1, <3>1 DEF Called
    <3>3. PICK m \in DOMAIN calls : LastIn(calls, k, m)
      BY <3>2 DEF DedupInv, Window
    <3>4. Remembered \in SUBSET Since(m) /\ Len(eviction) = Capacity
      BY <3>2, <3>3 DEF DedupInv, Window
    <3>5. Cardinality(Remembered) = Capacity
      BY <3>4 DEF DedupInv, DedupTypeOK
    <3>6. Since(m) = {calls[n].key : n \in (m + 1)..(j - 1)}
      <4>1. j - 1 = Len(calls)
        BY <1>3, <2>4 DEF n0
      <4> QED BY <4>1 DEF Since
    <3>7. m + 1 \in Int /\ Len(calls) \in Int
      BY <1>3, <3>3 DEF n0
    <3>8. IsFiniteSet(Since(m))
      BY <3>7, SinceIsFinite DEF Since
    <3>9. Cardinality(Since(m)) >= Capacity
      <4>1. Cardinality(Remembered) <= Cardinality(Since(m)) /\ Cardinality(Since(m)) \in Nat
        BY <3>4, <3>8, FS_Subset, FS_CardinalityType
      <4> QED BY <3>5, <4>1
    <3>10. m \in i..j
      <4>1. i \notin (m + 1)..Len(calls)
        BY <3>1, <3>3 DEF LastIn
      <4> QED BY <1>3, <2>1, <2>4, <3>3, <4>1 DEF n0
    <3> QED BY <2>2, <3>6, <3>9, <3>10
  <2>5. \A n \in Nat : \A l \in 1..(n + 1) : l \in 1..n \/ l = n + 1
    OBVIOUS
  <2> QED BY <1>3, <2>3, <2>4, <2>5
<1> QED BY <1>2, <1>4 DEF OnceInWindow

\* No more calls are made than the bound of the model allows.
LEMMA CallsAreBounded ==
  ASSUME DedupInv, DedupNext
  PROVE  Len(calls') + Cardinality(Pending') <= MaxCalls
<1>1. /\ IsFiniteSet(Pending) /\ Cardinality(Pending) \in Nat /\ Len(calls) \in Nat
      /\ Len(calls) + Cardinality(Pending) <= MaxCalls /\ DOMAIN step = Callbacks
  <2>1. IsFiniteSet(Pending)
    <3>1. Pending \in SUBSET Callbacks
      BY DEF Pending
    <3> QED BY <3>1, FS_Subset
  <2> QED BY <2>1, FS_CardinalityType, DedupTypes DEF DedupInv, DedupTypeOK
<1>2. ASSUME NEW c \in Callbacks, NEW e \in Events, Receive(c, e)
      PROVE  Len(calls') + Cardinality(Pending') <= MaxCalls
  <2>1. calls' = calls /\ Pending' = Pending \cup {c} /\ Len(calls) + Cardinality(Pending) < MaxCalls
    BY <1>1, <1>2 DEF Receive, Pending, StepTo
  <2>2. Cardinality(Pending') <= Cardinality(Pending) + 1 /\ Cardinality(Pending') \in Nat
    <3>1. /\ IsFiniteSet(Pending \cup {c})
          /\ Cardinality(Pending \cup {c}) = IF c \in Pending THEN Cardinality(Pending) ELSE Cardinality(Pending) + 1
      BY <1>1, FS_AddElement
    <3> QED BY <1>1, <2>1, <3>1
  <2> QED BY <1>1, <2>1, <2>2
<1>3. ASSUME NEW c \in Callbacks, Seen(c)
      PROVE  Len(calls') + Cardinality(Pending') <= MaxCalls
  <2>1. Pending' = Pending \ {c} /\ c \in Pending
    BY <1>1, <1>3 DEF Seen, Pending, StepTo
  <2>2. Len(calls') = Len(calls) + 1
    BY <1>3, DedupTypes DEF Seen
  <2>3. Cardinality(Pending') = Cardinality(Pending) - 1
    BY <1>1, <2>1, FS_RemoveElement
  <2> QED BY <1>1, <2>2, <2>3
<1>4. ASSUME NEW c \in Callbacks, Deliver(c) \/ Acknowledge(c)
      PROVE  Len(calls') + Cardinality(Pending') <= MaxCalls
  <2>1. calls' = calls /\ Pending' = Pending
    BY <1>1, <1>4 DEF Deliver, Acknowledge, Pending, StepTo
  <2> QED BY <1>1, <2>1
<1>5. CASE Crash
  <2>1. calls' = <<>> /\ Pending' = {}
    BY <1>5 DEF Crash, Pending
  <2> QED BY <2>1, FS_EmptySet
<1> QED BY <1>2, <1>3, <1>4, <1>5 DEF DedupNext

\* An event that was taken for new is on its way until it is delivered, and a duplicate is
\* acked only behind it.
LEMMA OnItsWayStep ==
  ASSUME DedupInv, DedupNext
  PROVE  OnItsWay' /\ AckedIsDelivered'
<1>t. /\ DOMAIN step = Callbacks /\ DOMAIN frame = Callbacks /\ OnItsWay /\ AckedIsDelivered
  BY DEF DedupInv, DedupTypeOK
<1>1. ASSUME NEW c \in Callbacks, NEW e \in Events, Receive(c, e)
      PROVE  OnItsWay' /\ AckedIsDelivered'
  BY <1>t, <1>1 DEF Receive, StepTo, OnItsWay, AckedIsDelivered, Remembered
<1>2. ASSUME NEW c \in Callbacks, Seen(c)
      PROVE  OnItsWay' /\ AckedIsDelivered'
  <2> DEFINE k == KeyOf[frame[c]]
  <2>1. /\ step[c] = "dedup" /\ UNCHANGED <<frame, delivered, confirmed>>
        /\ step' = [step EXCEPT ![c] = IF k \in Remembered THEN "ack" ELSE "deliver"]
        /\ overtaken' = IF \E d \in Callbacks : step[d] = "deliver" /\ KeyOf[frame[d]] = k
                          THEN overtaken \cup {k} ELSE overtaken
    BY <1>2 DEF Seen, StepTo
  <2>2. Remembered' \subseteq Remembered \cup {k}
    BY <1>2, SeenKeepsWindow
  <2>3. \A d \in Callbacks : step[d] = "deliver" => step'[d] = "deliver"
    BY <1>t, <2>1
  <2>4. overtaken \subseteq overtaken'
    BY <2>1
  <2>5. k \in Remembered => k \in delivered' \cup overtaken'
    BY <1>t, <2>1 DEF OnItsWay
  <2>6. k \notin Remembered => step'[c] = "deliver" /\ KeyOf[frame'[c]] = k
    BY <1>t, <2>1
  <2>7. \A q \in Remembered' :
          q \in delivered' \cup overtaken' \/ \E d \in Callbacks : step'[d] = "deliver" /\ KeyOf[frame'[d]] = q
    BY <1>t, <2>1, <2>2, <2>3, <2>4, <2>5, <2>6 DEF OnItsWay
  <2>8. \A d \in Callbacks : step'[d] = "ack" => KeyOf[frame'[d]] \in delivered' \cup overtaken'
    BY <1>t, <2>1, <2>4, <2>5 DEF OnItsWay
  <2>9. AckedIsDelivered'
    BY <1>t, <2>1, <2>4 DEF AckedIsDelivered
  <2> QED BY <2>7, <2>8, <2>9 DEF OnItsWay
<1>3. ASSUME NEW c \in Callbacks, Deliver(c)
      PROVE  OnItsWay' /\ AckedIsDelivered'
  BY <1>t, <1>3 DEF Deliver, StepTo, OnItsWay, AckedIsDelivered, Remembered
<1>4. ASSUME NEW c \in Callbacks, Acknowledge(c)
      PROVE  OnItsWay' /\ AckedIsDelivered'
  BY <1>t, <1>4 DEF Acknowledge, StepTo, OnItsWay, AckedIsDelivered, Remembered
<1>5. CASE Crash
  BY <1>t, <1>5 DEF Crash, OnItsWay, AckedIsDelivered, Remembered
<1> QED BY <1>1, <1>2, <1>3, <1>4, <1>5 DEF DedupNext

Typed ==
  /\ step \in [Callbacks -> {"read", "dedup", "deliver", "ack"}] /\ frame \in [Callbacks -> Events]
  /\ delivered \subseteq Keys /\ confirmed \subseteq Events /\ overtaken \subseteq Keys
  /\ crashes \in 0..MaxCrashes

\* Only Seen and a crash touch the window.
LEMMA SameWindow ==
  ASSUME DedupInv, UNCHANGED <<eviction, calls>>
  PROVE  Window' /\ OnceInWindow'
<1> DEFINE Once(c) ==
      \A i, j \in DOMAIN c :
        i < j /\ c[i].key = c[j].key /\ ~c[i].seen /\ ~c[j].seen =>
          \E m \in i..j : Cardinality({c[n].key : n \in (m + 1)..(j - 1)}) >= Capacity
<1>3. OnceInWindow'
  <2>1. Once(calls)
    BY DEF DedupInv, OnceInWindow
  <2>2. Once(calls')
    <3> HIDE DEF Once
    <3> QED BY <2>1
  <2> QED BY <2>2 DEF OnceInWindow
<1> HIDE DEF Once
<1>1. Remembered' = Remembered /\ Called' = Called /\ \A n : Since(n)' = Since(n)
  BY DEF Remembered, Called, Since
<1>2. Window
  BY DEF DedupInv
<1> QED BY <1>1, <1>2, <1>3 DEF Window

\* The invariant is inductive.
LEMMA DedupStays ==
  ASSUME DedupInv, [DedupNext]_dedupVars
  PROVE  DedupInv'
<1>i. DedupTypeOK /\ Injective(eviction) /\ Window /\ OnceInWindow
  BY DEF DedupInv
<1>1. CASE DedupNext
  <2>0. Len(calls') \in Nat /\ Cardinality(Pending') \in Nat /\ calls' \in Seq(CallType)
    <3>1. Pending' \in SUBSET Callbacks
      BY DEF Pending
    <3>2. calls' \in Seq(CallType)
      <4>1. \A c \in Callbacks : Seen(c) => calls' = Append(calls, [key |-> KeyOf[frame[c]], seen |-> KeyOf[frame[c]] \in Remembered])
        BY DEF Seen
      <4>2. \A c \in Callbacks : [key |-> KeyOf[frame[c]], seen |-> KeyOf[frame[c]] \in Remembered] \in CallType
        BY DedupTypes DEF CallType
      <4>3. \/ calls' = calls \/ calls' = <<>>
            \/ \E c \in Callbacks : Seen(c)
        BY <1>1 DEF DedupNext, Receive, Deliver, Acknowledge, Crash
      <4>4. <<>> \in Seq(CallType)
        OBVIOUS
      <4>5. ASSUME NEW r \in CallType, calls' = Append(calls, r) PROVE calls' \in Seq(CallType)
        BY <4>5, DedupTypes
      <4> QED BY <4>1, <4>2, <4>3, <4>4, <4>5, DedupTypes
    <3> QED BY <3>1, <3>2, FS_Subset, FS_CardinalityType
  <2>1. Len(calls') <= MaxCalls
    BY <1>1, <2>0, CallsAreBounded
  <2>2. /\ eviction' \in Seq(Keys) /\ Injective(eviction') /\ Len(eviction') <= Capacity
        /\ Cardinality(Remembered') = Len(eviction') /\ Window' /\ OnceInWindow'
    <3>1. ASSUME NEW c \in Callbacks, Seen(c) 
          PROVE  /\ eviction' \in Seq(Keys) /\ Injective(eviction') /\ Len(eviction') <= Capacity
                 /\ Cardinality(Remembered') = Len(eviction') /\ Window' /\ OnceInWindow'
      <4>1. Cardinality(Remembered') = Len(eviction')
        BY <3>1, SeenKeepsWindow, ListCounts
      <4> QED BY <3>1, <4>1, SeenKeepsWindow, SeenIsOnce
    <3>2. CASE UNCHANGED <<eviction, calls>>
      <4>1. eviction' = eviction /\ calls' = calls /\ Remembered' = Remembered
        BY <3>2 DEF Remembered
      <4> QED BY <1>i, <3>2, <4>1, SameWindow DEF DedupTypeOK
    <3>3. CASE Crash
      <4>1. eviction' = <<>> /\ calls' = <<>> /\ Remembered' = {} /\ Called' = {}
        BY <3>3 DEF Crash, Remembered, Called
      <4> QED BY <4>1, FS_EmptySet DEF Injective, Window, OnceInWindow
    <3> QED BY <1>1, <3>1, <3>2, <3>3 DEF DedupNext, Receive, Deliver, Acknowledge
  <2>3. Typed'
    <3>1. ASSUME NEW c \in Callbacks, NEW e \in Events, Receive(c, e) PROVE Typed'
      BY <1>i, <3>1 DEF DedupTypeOK, Receive, StepTo, Typed
    <3>2. ASSUME NEW c \in Callbacks, Seen(c) PROVE Typed'
      BY <1>i, <3>2, DedupTypes DEF DedupTypeOK, Seen, StepTo, Typed
    <3>3. ASSUME NEW c \in Callbacks, Deliver(c) PROVE Typed'
      BY <1>i, <3>3, DedupTypes DEF DedupTypeOK, Deliver, StepTo, Typed
    <3>4. ASSUME NEW c \in Callbacks, Acknowledge(c) PROVE Typed'
      BY <1>i, <3>4 DEF DedupTypeOK, Acknowledge, StepTo, Typed
    <3>5. CASE Crash
      BY <1>i, <3>5 DEF DedupTypeOK, Crash, Typed
    <3> QED BY <1>1, <3>1, <3>2, <3>3, <3>4, <3>5 DEF DedupNext
  <2> QED BY <1>1, <2>0, <2>1, <2>2, <2>3, CallsAreBounded, OnItsWayStep DEF DedupInv, DedupTypeOK, CallType, Typed
<1>2. CASE UNCHANGED dedupVars
  <2> USE <1>2 DEF dedupVars
  <2>1. DedupTypeOK' /\ Pending' = Pending
    BY <1>i DEF DedupTypeOK, Remembered, Pending
  <2>2. OnItsWay' /\ AckedIsDelivered'
    BY DEF DedupInv, OnItsWay, AckedIsDelivered, Remembered
  <2>3. Injective(eviction') /\ Window' /\ OnceInWindow'
    BY <1>i, SameWindow
  <2> QED BY <2>1, <2>2, <2>3 DEF DedupInv
<1> QED BY <1>1, <1>2

\* For any number of callbacks and events, any capacity, and keys that events may share: the
\* list is that of the most recent keys, a key is new once within it, and what the cloud will
\* not send again has reached the hub, or was overtaken by its own redelivery
\* (lru.go:59-84, personal.go:336-353).
THEOREM DedupIsSafe == DedupSpec => []DedupSafe
<1>1. DedupInit => DedupInv
  BY DedupStart
<1>2. DedupInv /\ [DedupNext]_dedupVars => DedupInv'
  BY DedupStays
<1>3. DedupInv => DedupSafe
  BY WindowMeans DEF DedupInv, DedupSafe
<1> QED BY <1>1, <1>2, <1>3, PTL DEF DedupSpec
=============================================================================
