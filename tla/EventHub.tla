------------------------------ MODULE EventHub ------------------------------
(***************************************************************************)
(* The fan-out hub of the event bus daemon (internal/event/bus/hub.go)     *)
(* together with the goroutines that meet in it (daemon.go): the source    *)
(* callbacks that call Deliver, the consumer-stop RPC, Run's shutdown, and *)
(* per connection the handler and the writer that own the wire.            *)
(*                                                                         *)
(* A step is what one goroutine does between two points where another may  *)
(* run: a critical section, a channel operation, a write on the wire.      *)
(***************************************************************************)
EXTENDS Integers, Sequences, FiniteSets

CONSTANTS
  Conns,      \* IPC connections; each registers at most one consumer
  Types,      \* event types
  Wants,      \* Wants[c]: the event types c's compiled matcher lets through
  Subs,       \* the subscribe ids a consumer_stop request may name
  SubOf,      \* SubOf[c]: the SubscribeID in c's Hello
  Callbacks,  \* SDK callback goroutines that call emit, hence Deliver
  Run, Rpc,   \* the goroutines of daemon.Run and of a consumer_stop request
  NoOne,      \* owner of a free mutex
  Buf,        \* Hub.bufferSize
  MaxEvents   \* bound of the model: events the source emits in a behaviour

Actors  == Callbacks \cup {Run, Rpc}
Reasons == {"shutdown", "runtime_token_rejected", "subscription_stopped"}
Rejected == "runtime_token_rejected"

ASSUME HubAssumption ==
  /\ Buf \in Nat \ {0} /\ MaxEvents \in Nat
  /\ Wants \in [Conns -> SUBSET Types]
  /\ Run # Rpc /\ {Run, Rpc} \cap Callbacks = {} /\ NoOne \notin Actors
  /\ Types \cap Reasons = {}

\* What travels to a consumer: an event (body = its type) or a Bye (body = reason).
Frames == [kind : {"event", "bye"}, body : Types \cup Reasons, seq : Nat]
Event(t, n) == [kind |-> "event", body |-> t, seq |-> n]
Bye(reason) == [kind |-> "bye", body |-> reason, seq |-> 0]
Nothing == Bye("shutdown")   \* an unset local

VARIABLES
  consumers,             \* Hub.consumers, under Hub.mu
  stopCh,                \* Consumer.StopCh, capacity 1
  sendCh,                \* Consumer.SendCh, capacity Buf
  sendMu,                \* who holds Consumer.sendMu
  closed,                \* Consumer.closed, set together with close(SendCh)
  seq,                   \* Consumer.seq
  received, dropped,     \* Consumer.received and Consumer.dropped
  rowReceived, rowDropped, \* PerTypeCounters, by event type
  apc, todo, frame, evicted, pushed, \* per actor: where it is and its locals
  emitted,               \* events emitted so far (bounded by MaxEvents)
  handler,               \* per connection: where handleConnection is
  writer, inHand,        \* per connection: where the writer is, the frame it holds
  wire,                  \* what the peer has been sent after the HelloAck
  behind,                \* history: frames written while a stop was queued
  peer, open,            \* the peer's mood, and whether the bus side is open
  phase, terminal        \* Run's progress through shutdown; daemon.terminalReason

reg   == <<consumers, stopCh>>
chan  == <<sendCh, sendMu, closed, seq>>
count == <<received, dropped, rowReceived, rowDropped>>
act   == <<apc, todo, frame, evicted, pushed, emitted>>
conn  == <<handler, writer, inHand, wire, behind, peer, open>>
run   == <<phase, terminal>>
vars  == <<reg, chan, count, act, conn, run>>

HubType ==
  /\ consumers \subseteq Conns
  /\ stopCh \in [Conns -> {<<>>} \cup {<<r>> : r \in Reasons}]
ChanType ==
  /\ sendCh \in [Conns -> Seq(Frames)] /\ \A c \in Conns : Len(sendCh[c]) <= Buf
  /\ sendMu \in [Conns -> Actors \cup {NoOne}]
  /\ closed \in [Conns -> BOOLEAN]
  /\ seq \in [Conns -> Nat]
CountType ==
  /\ received \in [Conns -> Int] /\ dropped \in [Conns -> Nat]
  /\ rowReceived \in [Types -> Nat] /\ rowDropped \in [Types -> Nat]
ActType ==
  /\ apc \in [Actors -> {"idle", "visit", "try", "evict", "retry", "settle", "signal"}]
  /\ todo \in [Actors -> SUBSET Conns]
  /\ frame \in [Actors -> Frames]
  /\ evicted \in [Actors -> BOOLEAN] /\ pushed \in [Actors -> BOOLEAN]
  /\ emitted \in Nat
ConnType ==
  /\ handler \in [Conns -> {"new", "hello", "registered", "ack", "serving",
                            "unregister", "closing", "joining", "done"}]
  /\ writer \in [Conns -> {"off", "top", "select", "recheck", "write", "last", "done"}]
  /\ inHand \in [Conns -> Frames]
  /\ wire \in [Conns -> Seq(Frames)] /\ behind \in [Conns -> Nat]
  /\ peer \in [Conns -> {"reading", "stalled", "gone"}]
  /\ open \in [Conns -> BOOLEAN]
RunType ==
  /\ phase \in {"up", "rejected", "stopping", "draining", "cut"}
  /\ terminal \in BOOLEAN

TypeOK == HubType /\ ChanType /\ CountType /\ ActType /\ ConnType /\ RunType

Init ==
  /\ consumers = {}
  /\ stopCh = [c \in Conns |-> <<>>] /\ sendCh = [c \in Conns |-> <<>>]
  /\ sendMu = [c \in Conns |-> NoOne] /\ closed = [c \in Conns |-> FALSE]
  /\ seq = [c \in Conns |-> 0]
  /\ received = [c \in Conns |-> 0] /\ dropped = [c \in Conns |-> 0]
  /\ rowReceived = [t \in Types |-> 0] /\ rowDropped = [t \in Types |-> 0]
  /\ apc = [a \in Actors |-> "idle"] /\ todo = [a \in Actors |-> {}]
  /\ frame = [a \in Actors |-> Nothing]
  /\ evicted = [a \in Actors |-> FALSE] /\ pushed = [a \in Actors |-> FALSE]
  /\ emitted = 0
  /\ handler = [c \in Conns |-> "new"] /\ writer = [c \in Conns |-> "off"]
  /\ inHand = [c \in Conns |-> Nothing] /\ wire = [c \in Conns |-> <<>>]
  /\ behind = [c \in Conns |-> 0]
  /\ peer = [c \in Conns |-> "reading"] /\ open = [c \in Conns |-> TRUE]
  /\ phase = "up" /\ terminal = FALSE

-----------------------------------------------------------------------------
(* Pushing frames: Deliver (a source callback) and Broadcast (Run).        *)

\* Deliver: count the event and snapshot, under Hub.mu, who wants it.
Deliver(a, t) ==
  /\ apc[a] = "idle" /\ emitted < MaxEvents
  /\ emitted' = emitted + 1
  /\ rowReceived' = [rowReceived EXCEPT ![t] = @ + 1]
  /\ apc' = [apc EXCEPT ![a] = "visit"]
  /\ todo' = [todo EXCEPT ![a] = {c \in consumers : t \in Wants[c]}]
  /\ frame' = [frame EXCEPT ![a] = Event(t, 0)]
  /\ UNCHANGED <<reg, chan, received, dropped, rowDropped, evicted, pushed, conn, run>>

\* Mutant of Lock: the number comes from a counter shared by all deliveries.
Lock_SharedNumber(a, c) ==
  /\ apc[a] = "visit" /\ c \in todo[a] /\ sendMu[c] = NoOne /\ ~closed[c]
  /\ sendMu' = [sendMu EXCEPT ![c] = a]
  /\ IF frame[a].kind = "event"
       THEN /\ seq' = [seq EXCEPT ![c] = @ + 1]
            /\ frame' = [frame EXCEPT ![a] = Event(@.body, emitted)]
       ELSE UNCHANGED <<seq, frame>>
  /\ todo' = [todo EXCEPT ![a] = @ \ {c}]
  /\ apc' = [apc EXCEPT ![a] = "try"]
  /\ UNCHANGED <<reg, sendCh, closed, count, evicted, pushed, emitted, conn, run>>

\* deliver and enqueue take sendMu and give up on a closed consumer.
SkipClosed(a, c) ==
  /\ apc[a] = "visit" /\ c \in todo[a] /\ sendMu[c] = NoOne /\ closed[c]
  /\ todo' = [todo EXCEPT ![a] = @ \ {c}]
  /\ UNCHANGED <<reg, chan, count, apc, frame, evicted, pushed, emitted, conn, run>>

\* ... and otherwise number the frame if it is an event.
Lock(a, c) ==
  /\ apc[a] = "visit" /\ c \in todo[a] /\ sendMu[c] = NoOne /\ ~closed[c]
  /\ sendMu' = [sendMu EXCEPT ![c] = a]
  /\ IF frame[a].kind = "event"
       THEN /\ seq' = [seq EXCEPT ![c] = @ + 1]
            /\ frame' = [frame EXCEPT ![a] = Event(@.body, seq[c] + 1)]
       ELSE UNCHANGED <<seq, frame>>
  /\ todo' = [todo EXCEPT ![a] = @ \ {c}]
  /\ apc' = [apc EXCEPT ![a] = "try"]
  /\ UNCHANGED <<reg, sendCh, closed, count, evicted, pushed, emitted, conn, run>>

\* Mutant of Fits: one frame too many.
Fits_OffByOne(c) == Len(sendCh[c]) <= Buf

\* A non-blocking send of frame[a] to c's SendCh: did it fit, and the channel after.
Fits(c) == Len(sendCh[c]) < Buf
Sent(a, c) == IF Fits(c) THEN [sendCh EXCEPT ![c] = Append(@, frame[a])] ELSE sendCh

\* Mutant of Try: a blocking send.
Try_Blocks(a, c) ==
  /\ apc[a] = "try" /\ sendMu[c] = a /\ Fits(c)
  /\ sendCh' = Sent(a, c)
  /\ pushed' = [pushed EXCEPT ![a] = TRUE]
  /\ apc' = [apc EXCEPT ![a] = "settle"]
  /\ UNCHANGED <<reg, sendMu, closed, seq, count, todo, frame, evicted, emitted, conn, run>>

\* tryPushOrDropOldestLocked, first select.
Try(a, c) ==
  /\ apc[a] = "try" /\ sendMu[c] = a
  /\ sendCh' = Sent(a, c)
  /\ pushed' = [pushed EXCEPT ![a] = Fits(c)]
  /\ apc' = [apc EXCEPT ![a] = IF Fits(c) THEN "settle" ELSE "evict"]
  /\ UNCHANGED <<reg, sendMu, closed, seq, count, todo, frame, evicted, emitted, conn, run>>

\* Mutant of Evict: a Bye at the head of the channel is spared.
Evict_SparesBye(a, c) ==
  /\ apc[a] = "evict" /\ sendMu[c] = a
  /\ LET spare == sendCh[c] = <<>> \/ Head(sendCh[c]).kind = "bye"
     IN /\ evicted' = [evicted EXCEPT ![a] = ~spare]
        /\ sendCh' = [sendCh EXCEPT ![c] = IF spare THEN @ ELSE Tail(@)]
  /\ apc' = [apc EXCEPT ![a] = "retry"]
  /\ UNCHANGED <<reg, sendMu, closed, seq, count, todo, frame, pushed, emitted, conn, run>>

\* Mutant of Evict: the newest frame in the channel is popped.
Evict_Newest(a, c) ==
  /\ apc[a] = "evict" /\ sendMu[c] = a
  /\ evicted' = [evicted EXCEPT ![a] = sendCh[c] # <<>>]
  /\ sendCh' = [sendCh EXCEPT ![c] = IF @ = <<>> THEN @ ELSE SubSeq(@, 1, Len(@) - 1)]
  /\ apc' = [apc EXCEPT ![a] = "retry"]
  /\ UNCHANGED <<reg, sendMu, closed, seq, count, todo, frame, pushed, emitted, conn, run>>

\* ... second select: pop the oldest frame, unless the writer emptied the channel.
Evict(a, c) ==
  /\ apc[a] = "evict" /\ sendMu[c] = a
  /\ evicted' = [evicted EXCEPT ![a] = sendCh[c] # <<>>]
  /\ sendCh' = [sendCh EXCEPT ![c] = IF @ = <<>> THEN @ ELSE Tail(@)]
  /\ apc' = [apc EXCEPT ![a] = "retry"]
  /\ UNCHANGED <<reg, sendMu, closed, seq, count, todo, frame, pushed, emitted, conn, run>>

\* ... third select.
Retry(a, c) ==
  /\ apc[a] = "retry" /\ sendMu[c] = a
  /\ sendCh' = Sent(a, c)
  /\ pushed' = [pushed EXCEPT ![a] = Fits(c)]
  /\ apc' = [apc EXCEPT ![a] = "settle"]
  /\ UNCHANGED <<reg, sendMu, closed, seq, count, todo, frame, evicted, emitted, conn, run>>

N(b) == IF b THEN 1 ELSE 0

\* Mutant of Settle: the eviction is not taken back from received.
Settle_KeepsEvicted(a, c) ==
  /\ apc[a] = "settle" /\ sendMu[c] = a
  /\ IF frame[a].kind = "event"
       THEN /\ received' = [received EXCEPT ![c] = @ + N(pushed[a])]
            /\ dropped' = [dropped EXCEPT ![c] = @ + N(evicted[a]) + N(~pushed[a])]
            /\ rowDropped' = [rowDropped EXCEPT
                                ![frame[a].body] = @ + N(evicted[a] \/ ~pushed[a])]
       ELSE UNCHANGED <<received, dropped, rowDropped>>
  /\ sendMu' = [sendMu EXCEPT ![c] = NoOne]
  /\ apc' = [apc EXCEPT ![a] = "visit"]
  /\ evicted' = [evicted EXCEPT ![a] = FALSE]
  /\ pushed' = [pushed EXCEPT ![a] = FALSE]
  /\ UNCHANGED <<reg, sendCh, closed, seq, rowReceived, todo, frame, emitted, conn, run>>

\* Mutant of Settle: the new event stands in for the evicted one, nothing is dropped.
Settle_NoDrop(a, c) ==
  /\ apc[a] = "settle" /\ sendMu[c] = a
  /\ IF frame[a].kind = "event"
       THEN /\ received' = [received EXCEPT ![c] = @ - N(evicted[a]) + N(pushed[a])]
            /\ dropped' = [dropped EXCEPT ![c] = @ + N(~pushed[a])]
            /\ rowDropped' = [rowDropped EXCEPT ![frame[a].body] = @ + N(~pushed[a])]
       ELSE UNCHANGED <<received, dropped, rowDropped>>
  /\ sendMu' = [sendMu EXCEPT ![c] = NoOne]
  /\ apc' = [apc EXCEPT ![a] = "visit"]
  /\ evicted' = [evicted EXCEPT ![a] = FALSE]
  /\ pushed' = [pushed EXCEPT ![a] = FALSE]
  /\ UNCHANGED <<reg, sendCh, closed, seq, rowReceived, todo, frame, emitted, conn, run>>

\* deliver updates the counters (enqueue does not), then both release sendMu.
Settle(a, c) ==
  /\ apc[a] = "settle" /\ sendMu[c] = a
  /\ IF frame[a].kind = "event"
       THEN /\ received' = [received EXCEPT ![c] = @ - N(evicted[a]) + N(pushed[a])]
            /\ dropped' = [dropped EXCEPT ![c] = @ + N(evicted[a]) + N(~pushed[a])]
            /\ rowDropped' = [rowDropped EXCEPT
                                ![frame[a].body] = @ + N(evicted[a] \/ ~pushed[a])]
       ELSE UNCHANGED <<received, dropped, rowDropped>>
  /\ sendMu' = [sendMu EXCEPT ![c] = NoOne]
  /\ apc' = [apc EXCEPT ![a] = "visit"]
  /\ evicted' = [evicted EXCEPT ![a] = FALSE]
  /\ pushed' = [pushed EXCEPT ![a] = FALSE]
  /\ UNCHANGED <<reg, sendCh, closed, seq, rowReceived, todo, frame, emitted, conn, run>>

-----------------------------------------------------------------------------
(* Targeted stops: StopConsumers (the RPC) and StopAll (Run).              *)

\* StopConsumers: snapshot the consumers with one of the requested ids (a request
\* that names no live consumer changes nothing).
StopConsumers(ids) ==
  /\ apc[Rpc] = "idle"
  /\ \E c \in consumers : SubOf[c] \in ids
  /\ apc' = [apc EXCEPT ![Rpc] = "signal"]
  /\ todo' = [todo EXCEPT ![Rpc] = {c \in consumers : SubOf[c] \in ids}]
  /\ frame' = [frame EXCEPT ![Rpc] = Bye("subscription_stopped")]
  /\ UNCHANGED <<reg, chan, count, evicted, pushed, emitted, conn, run>>

\* A non-blocking send of the reason: dropped if one is already queued.
Signal(a, c) ==
  /\ apc[a] = "signal" /\ c \in todo[a]
  /\ stopCh' = [stopCh EXCEPT ![c] = IF @ = <<>> THEN <<frame[a].body>> ELSE @]
  /\ todo' = [todo EXCEPT ![a] = @ \ {c}]
  /\ UNCHANGED <<consumers, chan, count, apc, frame, evicted, pushed, emitted, conn, run>>

\* The loop over the snapshot is over.
Return(a) ==
  /\ apc[a] \in {"visit", "signal"} /\ todo[a] = {}
  /\ apc' = [apc EXCEPT ![a] = "idle"]
  /\ frame' = [frame EXCEPT ![a] = Nothing]
  /\ UNCHANGED <<reg, chan, count, todo, evicted, pushed, emitted, conn, run>>

-----------------------------------------------------------------------------
(* Run and shutdown.                                                       *)

\* The source failed with ErrRuntimeTokenRejected: publish the terminal reason.
SourceRejected ==
  /\ phase = "up"
  /\ phase' = "rejected" /\ terminal' = TRUE
  /\ UNCHANGED <<reg, chan, count, act, conn>>

\* shutdown, rejected: StopAll snapshots every registered consumer.
StopAll ==
  /\ phase = "rejected"
  /\ phase' = "stopping"
  /\ apc' = [apc EXCEPT ![Run] = "signal"]
  /\ todo' = [todo EXCEPT ![Run] = consumers]
  /\ frame' = [frame EXCEPT ![Run] = Bye(Rejected)]
  /\ UNCHANGED <<reg, chan, count, evicted, pushed, emitted, conn, terminal>>

\* shutdown, any other reason: Broadcast snapshots every registered consumer.
Broadcast ==
  /\ phase = "up"
  /\ phase' = "stopping"
  /\ apc' = [apc EXCEPT ![Run] = "visit"]
  /\ todo' = [todo EXCEPT ![Run] = consumers]
  /\ frame' = [frame EXCEPT ![Run] = Bye("shutdown")]
  /\ UNCHANGED <<reg, chan, count, evicted, pushed, emitted, conn, terminal>>

\* listener.Close and <-acceptDone: no connection is accepted from here on.
CloseListener ==
  /\ phase = "stopping" /\ apc[Run] = "idle"
  /\ phase' = "draining"
  /\ UNCHANGED <<reg, chan, count, act, conn, terminal>>

\* The drain timeout passed: close every accepted connection.
ForceClose ==
  /\ phase = "draining"
  /\ phase' = "cut"
  /\ open' = [c \in Conns |-> FALSE]
  /\ UNCHANGED <<reg, chan, count, act, handler, writer, inHand, wire, behind, peer, terminal>>

-----------------------------------------------------------------------------
(* The connection handler.                                                 *)

Broken(c)   == ~open[c] \/ peer[c] = "gone"      \* reads and writes fail
Writable(c) == open[c] /\ peer[c] = "reading"    \* otherwise a write blocks

Goto(c, from, to) == handler[c] = from /\ handler' = [handler EXCEPT ![c] = to]

Accept(c) ==
  /\ phase \in {"up", "rejected", "stopping"}
  /\ Goto(c, "new", "hello")
  /\ UNCHANGED <<reg, chan, count, act, writer, inHand, wire, behind, peer, open, run>>

HelloFails(c) ==
  /\ Broken(c)
  /\ Goto(c, "hello", "done")
  /\ open' = [open EXCEPT ![c] = FALSE]
  /\ UNCHANGED <<reg, chan, count, act, writer, inHand, wire, behind, peer, run>>

Register(c) ==
  /\ Goto(c, "hello", "registered")
  /\ consumers' = consumers \cup {c}
  /\ UNCHANGED <<stopCh, chan, count, act, writer, inHand, wire, behind, peer, open, run>>

\* The bus is already terminal: say so on the wire before unregistering.
RefuseTerminal(c) ==
  /\ terminal /\ (Writable(c) \/ Broken(c))
  /\ Goto(c, "registered", "unregister")
  /\ wire' = [wire EXCEPT ![c] = IF Broken(c) THEN @ ELSE Append(@, Bye(Rejected))]
  /\ UNCHANGED <<reg, chan, count, act, writer, inHand, behind, peer, open, run>>

NotTerminal(c) ==
  /\ ~terminal
  /\ Goto(c, "registered", "ack")
  /\ UNCHANGED <<reg, chan, count, act, writer, inHand, wire, behind, peer, open, run>>

\* The HelloAck is on the wire: start the writer goroutine.
AckSent(c) ==
  /\ Writable(c)
  /\ Goto(c, "ack", "serving")
  /\ writer' = [writer EXCEPT ![c] = "top"]
  /\ UNCHANGED <<reg, chan, count, act, inHand, wire, behind, peer, open, run>>

AckFails(c) ==
  /\ Broken(c)
  /\ Goto(c, "ack", "unregister")
  /\ UNCHANGED <<reg, chan, count, act, writer, inHand, wire, behind, peer, open, run>>

\* The reader loop ends on a read error ...
ReadFails(c) ==
  /\ Broken(c)
  /\ Goto(c, "serving", "unregister")
  /\ UNCHANGED <<reg, chan, count, act, writer, inHand, wire, behind, peer, open, run>>

\* ... or on the consumer's own Bye, with the connection still open.
ConsumerBye(c) ==
  /\ open[c] /\ peer[c] # "gone"
  /\ Goto(c, "serving", "unregister")
  /\ UNCHANGED <<reg, chan, count, act, writer, inHand, wire, behind, peer, open, run>>

\* Unregister, under Hub.mu.
Unregister(c) ==
  /\ Goto(c, "unregister", "closing")
  /\ consumers' = consumers \ {c}
  /\ UNCHANGED <<stopCh, chan, count, act, writer, inHand, wire, behind, peer, open, run>>

\* Mutant of CloseSend: the channel is closed without taking sendMu.
CloseSend_Unlocked(c) ==
  /\ Goto(c, "closing", "joining")
  /\ closed' = [closed EXCEPT ![c] = TRUE]
  /\ UNCHANGED <<reg, sendCh, sendMu, seq, count, act, writer, inHand, wire, behind, peer, open, run>>

\* Mutant of CloseSend: the handler waits for the writer before it closes the channel.
CloseSend_AfterJoin(c) ==
  /\ sendMu[c] = NoOne /\ writer[c] \in {"off", "done"}
  /\ Goto(c, "closing", "joining")
  /\ closed' = [closed EXCEPT ![c] = TRUE]
  /\ UNCHANGED <<reg, sendCh, sendMu, seq, count, act, writer, inHand, wire, behind, peer, open, run>>

\* closeSend, under sendMu.
CloseSend(c) ==
  /\ sendMu[c] = NoOne
  /\ Goto(c, "closing", "joining")
  /\ closed' = [closed EXCEPT ![c] = TRUE]
  /\ UNCHANGED <<reg, sendCh, sendMu, seq, count, act, writer, inHand, wire, behind, peer, open, run>>

\* <-writerDone (when a writer was started), then the deferred conn.Close.
Join(c) ==
  /\ writer[c] \in {"off", "done"}
  /\ Goto(c, "joining", "done")
  /\ open' = [open EXCEPT ![c] = FALSE]
  /\ UNCHANGED <<reg, chan, count, act, writer, inHand, wire, behind, peer, run>>

Handler(c) ==
  \/ HelloFails(c) \/ RefuseTerminal(c) \/ NotTerminal(c)
  \/ AckSent(c) \/ AckFails(c) \/ ReadFails(c)
  \/ Unregister(c) \/ CloseSend(c) \/ Join(c)

-----------------------------------------------------------------------------
(* The writer goroutine.                                                   *)

\* Mutant of TakeStop: StopCh is only polled, never waited for.
TakeStop_PollOnly(c) ==
  /\ writer[c] \in {"top", "recheck"} /\ stopCh[c] # <<>>
  /\ inHand' = [inHand EXCEPT ![c] = Bye(Head(stopCh[c]))]
  /\ stopCh' = [stopCh EXCEPT ![c] = <<>>]
  /\ writer' = [writer EXCEPT ![c] = "last"]
  /\ UNCHANGED <<consumers, chan, count, act, handler, wire, behind, peer, open, run>>

\* `case reason := <-c.StopCh`, offered at the top, in the select and at the re-check.
TakeStop(c) ==
  /\ writer[c] \in {"top", "select", "recheck"} /\ stopCh[c] # <<>>
  /\ inHand' = [inHand EXCEPT ![c] = Bye(Head(stopCh[c]))]
  /\ stopCh' = [stopCh EXCEPT ![c] = <<>>]
  /\ writer' = [writer EXCEPT ![c] = "last"]
  /\ UNCHANGED <<consumers, chan, count, act, handler, wire, behind, peer, open, run>>

\* Mutant of NoStopQueued: one select over both channels, without priority.
NoStopQueued_Never(c) == TRUE

\* The condition of the default branch of both polls of StopCh.
NoStopQueued(c) == stopCh[c] = <<>>

\* The poll at the top of the loop finds no stop.
NoStop(c) ==
  /\ writer[c] = "top" /\ NoStopQueued(c)
  /\ writer' = [writer EXCEPT ![c] = "select"]
  /\ UNCHANGED <<reg, chan, count, act, handler, inHand, wire, behind, peer, open, run>>

TakeFrame(c) ==
  /\ writer[c] = "select" /\ sendCh[c] # <<>>
  /\ inHand' = [inHand EXCEPT ![c] = Head(sendCh[c])]
  /\ sendCh' = [sendCh EXCEPT ![c] = Tail(@)]
  /\ writer' = [writer EXCEPT ![c] = "recheck"]
  /\ UNCHANGED <<reg, sendMu, closed, seq, count, act, handler, wire, behind, peer, open, run>>

\* !ok: the channel is closed and drained.
TakeClosed(c) ==
  /\ writer[c] = "select" /\ sendCh[c] = <<>> /\ closed[c]
  /\ writer' = [writer EXCEPT ![c] = "done"]
  /\ UNCHANGED <<reg, chan, count, act, handler, inHand, wire, behind, peer, open, run>>

\* The re-check finds none either: the frame will be written.
StillNoStop(c) ==
  /\ writer[c] = "recheck" /\ NoStopQueued(c)
  /\ writer' = [writer EXCEPT ![c] = "write"]
  /\ UNCHANGED <<reg, chan, count, act, handler, inHand, wire, behind, peer, open, run>>

WriteFrame(c) ==
  /\ writer[c] = "write" /\ Writable(c)
  /\ wire' = [wire EXCEPT ![c] = Append(@, inHand[c])]
  /\ behind' = [behind EXCEPT ![c] = @ + N(stopCh[c] # <<>>)]
  /\ inHand' = [inHand EXCEPT ![c] = Nothing]
  /\ writer' = [writer EXCEPT ![c] = "top"]
  /\ UNCHANGED <<reg, chan, count, act, handler, peer, open, run>>

WriteFails(c) ==
  /\ writer[c] = "write" /\ Broken(c)
  /\ writer' = [writer EXCEPT ![c] = "done"]
  /\ UNCHANGED <<reg, chan, count, act, handler, inHand, wire, behind, peer, open, run>>

\* The Bye of a stop: written if it can be, then the writer closes the connection.
WriteLast(c) ==
  /\ writer[c] = "last" /\ (Writable(c) \/ Broken(c))
  /\ wire' = [wire EXCEPT ![c] = IF Broken(c) THEN @ ELSE Append(@, inHand[c])]
  /\ open' = [open EXCEPT ![c] = FALSE]
  /\ writer' = [writer EXCEPT ![c] = "done"]
  /\ UNCHANGED <<reg, chan, count, act, handler, inHand, behind, peer, run>>

Writer(c) ==
  \/ TakeStop(c) \/ NoStop(c) \/ TakeFrame(c) \/ TakeClosed(c) \/ StillNoStop(c)
  \/ WriteFrame(c) \/ WriteFails(c) \/ WriteLast(c)

\* The consumer process at the other end: it may stop reading, resume, or vanish.
PeerMoves(c) ==
  /\ peer[c] # "gone"
  /\ peer' = [peer EXCEPT ![c] = IF @ = "reading" THEN "stalled" ELSE "reading"]
  /\ UNCHANGED <<reg, chan, count, act, handler, writer, inHand, wire, behind, open, run>>

PeerVanishes(c) ==
  /\ peer[c] # "gone"
  /\ peer' = [peer EXCEPT ![c] = "gone"]
  /\ UNCHANGED <<reg, chan, count, act, handler, writer, inHand, wire, behind, open, run>>

-----------------------------------------------------------------------------
Push(a, c) ==
  \/ SkipClosed(a, c) \/ Lock(a, c) \/ Try(a, c)
  \/ Evict(a, c) \/ Retry(a, c) \/ Settle(a, c)

Shutdown == StopAll \/ CloseListener \/ ForceClose

Next ==
  \/ \E a \in Callbacks, t \in Types : Deliver(a, t)
  \/ \E a \in Actors, c \in Conns : Push(a, c) \/ Signal(a, c)
  \/ \E a \in Actors : Return(a)
  \/ \E ids \in SUBSET Subs : StopConsumers(ids)
  \/ SourceRejected \/ Broadcast \/ Shutdown
  \/ \E c \in Conns : \/ Accept(c) \/ Register(c) \/ Handler(c) \/ ConsumerBye(c) \/ Writer(c)
                      \/ PeerMoves(c) \/ PeerVanishes(c)

Spec == Init /\ [][Next]_vars

\* Every goroutine that can run does run; nothing is assumed of the source, of the
\* peers (a Hello may never come), or of who asks for a stop or a shutdown.
Fairness ==
  /\ \A a \in Actors, c \in Conns : WF_vars(Push(a, c)) /\ WF_vars(Signal(a, c))
  /\ \A a \in Actors : WF_vars(Return(a))
  /\ \A c \in Conns : WF_vars(Handler(c)) /\ WF_vars(Writer(c))
  /\ WF_vars(Shutdown)

FairSpec == Spec /\ Fairness

-----------------------------------------------------------------------------
(* Properties.                                                             *)

\* A send on a closed channel panics and takes the bus down: whoever is about to
\* push to c holds c's sendMu and c is not closed, however stale the snapshot it
\* works from (hub.go, Unregister and closeSend).
NoSendOnClosed ==
  \A a \in Actors, c \in Conns :
    sendMu[c] = a => /\ apc[a] \in {"try", "evict", "retry", "settle"}
                     /\ apc[a] \in {"try", "retry"} => ~closed[c]

\* After the eviction the second push always succeeds, whatever the writer did in
\* between: the newest frame is never the one that is lost (hub.go:383-385).
RetryHasRoom ==
  \A a \in Actors, c \in Conns : apc[a] = "retry" /\ sendMu[c] = a => Fits(c)

\* Whenever nobody is pushing to c, each event numbered for c is counted exactly
\* once, as received or as dropped (hub.go, the table above tryPushOrDropOldestLocked).
EveryEventCounted ==
  \A c \in Conns : sendMu[c] = NoOne => seq[c] = received[c] + dropped[c]

\* Until shutdown puts a Bye in the channels, "received" is what was kept: the
\* events already written plus those still queued.
ReceivedMeansKept ==
  \A c \in Conns :
    phase = "up" /\ sendMu[c] = NoOne /\ writer[c] \in {"off", "top", "select"}
    => received[c] = Len(wire[c]) + Len(sendCh[c])

\* A stop does not wait behind the buffered events: at most the one frame that was
\* past the re-check when the stop arrived is written before it (daemon.go:544-568).
StopJumpsQueue == \A c \in Conns : behind[c] <= 1

\* emit never blocks: whatever the consumers do, a callback gets out of Deliver
\* (types.go:55, plan invariant 1 in bus/doc.go).
DeliverReturns == \A a \in Callbacks : apc[a] # "idle" ~> apc[a] = "idle"

\* A queued stop ends its connection's writer unless the peer stops reading.
StopIsServed ==
  \A c \in Conns :
    stopCh[c] # <<>> ~> writer[c] = "done" \/ handler[c] = "done" \/ peer[c] = "stalled"

\* After the forced close every handler goroutine ends, so shutdown is bounded: no
\* cycle between Unregister, sendMu and writerDone (daemon.go:598-603).
ShutdownDrains ==
  phase = "cut" ~> \A c \in Conns : handler[c] \in {"new", "done"}
=============================================================================
