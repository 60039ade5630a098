---------------------------- MODULE ConsumeMany ----------------------------
(***************************************************************************)
(* One consumer process with several subscriptions                         *)
(* (event/consume/run_many.go): RunMany opens one bus connection per       *)
(* subscription in turn, then one reader goroutine per connection hands    *)
(* its frames to the one loop that delivers events and decides how the     *)
(* command ends.  The bus at the other end is modelled by what it may      *)
(* write: events, a Bye, then the end of the connection.                   *)
(***************************************************************************)
EXTENDS Integers, Sequences

CONSTANTS
  N,           \* how many subscriptions
  MaxEvents,   \* Config.MaxEvents; 0 is no limit
  BusCrashes,  \* whether a connection may end without a Bye
  PipeCloses,  \* whether our stdout may go away or fail
  Sends        \* bound of the model: events the bus sends on one connection

ASSUME ConsumeAssumption ==
  /\ N \in Nat \ {0} /\ MaxEvents \in Nat /\ Sends \in Nat
  /\ BusCrashes \in BOOLEAN /\ PipeCloses \in BOOLEAN

Sessions == 1..N   \* in the order of specs

VARIABLES
  opening,    \* the session being opened, N + 1 when all are open
  step,       \* where opening it is
  wire,       \* per session: frames written by the bus and not read yet
  busSide,    \* per session: what the bus has done with its side
  sent,       \* per session: events the bus has written
  ourSide,    \* per session: whether our conn is open
  reader,     \* per session: where its reader goroutine is
  hand,       \* per session: the frame its reader has read
  frames,     \* the channel to the loop, capacity 2N
  subscribed, \* the code's active: sessions not stopped
  delivered,  \* the events delivered, in order
  byes,       \* sessions on which client_done was written
  ctx,        \* "live", or why it was cancelled
  outcome     \* how RunMany ended: its exit reason or its error

consumeVars == <<opening, step, wire, busSide, sent, ourSide, reader, hand, frames, subscribed,
          delivered, byes, ctx, outcome>>

Farewells == {"subscription_stopped", "runtime_token_rejected", "shutdown"}
Frame(s, kind, n) == [from |-> s, kind |-> kind, n |-> n]
End(s)    == Frame(s, "err", 0)
Nothing   == Frame(0, "none", 0)
Opened    == 1..(opening - 1)
Running   == outcome = "none" /\ opening = N + 1
Received  == Len(delivered)

Outcomes ==
  {"none", "open_error", "read_error", "sink_error", "rejected", "timeout", "signal", "limit",
   "bus_shutdown", "subscriptions_stopped"}

ConsumeTypeOK ==
  /\ opening \in 1..(N + 1) /\ step \in {"discover", "ack", "negotiate"}
  /\ busSide \in [Sessions -> {"none", "open", "bye", "closed"}]
  /\ sent \in [Sessions -> 0..Sends]
  /\ ourSide \in [Sessions -> {"none", "open", "closed"}]
  /\ reader \in [Sessions -> {"off", "reading", "offering", "gone"}]
  /\ Len(frames) <= 2 * N
  /\ subscribed \subseteq Sessions /\ byes \subseteq Sessions
  /\ ctx \in {"live", "timeout", "signal"} /\ outcome \in Outcomes
  /\ MaxEvents > 0 => Received <= MaxEvents
  /\ \A s \in Sessions : ourSide[s] = "none" => wire[s] = <<>> /\ reader[s] = "off"

ConsumeInit ==
  /\ opening = 1 /\ step = "discover"
  /\ wire = [s \in Sessions |-> <<>>] /\ busSide = [s \in Sessions |-> "none"]
  /\ sent = [s \in Sessions |-> 0] /\ ourSide = [s \in Sessions |-> "none"]
  /\ reader = [s \in Sessions |-> "off"] /\ hand = [s \in Sessions |-> Nothing]
  /\ frames = <<>> /\ subscribed = {} /\ delivered = <<>>
  /\ byes = {} /\ ctx = "live" /\ outcome = "none"

-----------------------------------------------------------------------------
(* Opening the sessions.                                                   *)

bus  == <<wire, busSide, sent>>
loop == <<frames, subscribed, delivered, byes>>

\* The deferred closeSessions and cancelRun.
EndWith(how) ==
  /\ outcome' = how
  /\ ourSide' = [s \in Sessions |-> IF ourSide[s] = "open" THEN "closed" ELSE ourSide[s]]

\* discoverBus connects; closeOnContext watches the connection from here on.
Discover ==
  /\ outcome = "none" /\ opening \in Sessions /\ step = "discover"
  /\ ourSide' = [ourSide EXCEPT ![opening] = IF ctx = "live" THEN "open" ELSE "closed"]
  /\ busSide' = [busSide EXCEPT ![opening] = "open"]
  /\ step' = "ack"
  /\ UNCHANGED <<opening, wire, sent, reader, hand, loop, ctx, outcome>>

\* The Hello is written and the HelloAck of the same bus process read; then the token,
\* if there is one, is negotiated.
Negotiate ==
  /\ outcome = "none" /\ opening \in Sessions /\ ourSide[opening] = "open"
  /\ \/ step = "ack" /\ step' = "negotiate" /\ UNCHANGED <<opening, subscribed, reader>>
     \/ /\ step = "negotiate" /\ step' = "discover"
        /\ opening' = opening + 1
        /\ IF opening' \in Sessions
             THEN UNCHANGED <<subscribed, reader>>
             ELSE subscribed' = Sessions /\ reader' = [s \in Sessions |-> "reading"]
  /\ UNCHANGED <<bus, ourSide, hand, frames, delivered, byes, ctx, outcome>>

\* Any of them fails: no bus, another process id, a refused token, a closed connection.
OpeningFails ==
  /\ outcome = "none" /\ opening \in Sessions
  /\ EndWith("open_error")
  /\ UNCHANGED <<opening, step, bus, reader, hand, loop, ctx>>

\* SIGINT or a closed stdin, or the --duration deadline: every open conn is closed.
Cancel(why) ==
  /\ ctx = "live" /\ outcome = "none"
  /\ ctx' = why
  /\ ourSide' = [s \in Sessions |-> IF ourSide[s] = "open" THEN "closed" ELSE ourSide[s]]
  /\ UNCHANGED <<opening, step, bus, reader, hand, loop, outcome>>

-----------------------------------------------------------------------------
(* The bus.                                                                *)

\* What the bus does once our side is closed is not seen.
Listening(s) == ourSide[s] = "open"
Write(s, f) == wire' = [wire EXCEPT ![s] = Append(@, f)]

BusSends(s) ==
  /\ Listening(s) /\ s \in Opened /\ busSide[s] = "open" /\ sent[s] < Sends
  /\ sent' = [sent EXCEPT ![s] = @ + 1]
  /\ Write(s, Frame(s, "event", sent'[s]))
  /\ UNCHANGED <<opening, step, busSide, ourSide, reader, hand, loop, ctx, outcome>>

BusSaysBye(s, why) ==
  /\ Listening(s) /\ s \in Opened /\ busSide[s] = "open"
  /\ busSide' = [busSide EXCEPT ![s] = "bye"]
  /\ Write(s, Frame(s, why, 0))
  /\ UNCHANGED <<opening, step, sent, ourSide, reader, hand, loop, ctx, outcome>>

BusCloses(s) ==
  /\ Listening(s)
  /\ busSide[s] = "bye" \/ (BusCrashes /\ busSide[s] = "open" /\ s \in Opened)
  /\ busSide' = [busSide EXCEPT ![s] = "closed"]
  /\ UNCHANGED <<opening, step, wire, sent, ourSide, reader, hand, loop, ctx, outcome>>

-----------------------------------------------------------------------------
(* readManySession.                                                        *)

\* What Read returns: the next frame, or an error once either side is closed.
Readable(s) == ourSide[s] = "open" /\ wire[s] # <<>>
Broken(s)   == ourSide[s] = "closed" \/ (busSide[s] = "closed" /\ wire[s] = <<>>)

\* Mutant of ReadFrame: the frame is read again.
ReadFrame_Twice(s) ==
  /\ reader[s] = "reading" /\ Readable(s)
  /\ hand' = [hand EXCEPT ![s] = Head(wire[s])]
  /\ wire' \in {wire, [wire EXCEPT ![s] = Tail(@)]}
  /\ reader' = [reader EXCEPT ![s] = "offering"]
  /\ UNCHANGED <<opening, step, busSide, sent, ourSide, loop, ctx, outcome>>

ReadFrame(s) ==
  /\ reader[s] = "reading" /\ Readable(s)
  /\ hand' = [hand EXCEPT ![s] = Head(wire[s])]
  /\ wire' = [wire EXCEPT ![s] = Tail(@)]
  /\ reader' = [reader EXCEPT ![s] = "offering"]
  /\ UNCHANGED <<opening, step, busSide, sent, ourSide, loop, ctx, outcome>>

ReadError(s) ==
  /\ reader[s] = "reading" /\ Broken(s)
  /\ hand' = [hand EXCEPT ![s] = End(s)]
  /\ reader' = [reader EXCEPT ![s] = "offering"]
  /\ UNCHANGED <<opening, step, bus, ourSide, loop, ctx, outcome>>

Capacity == 2 * N
HasRoom  == Len(frames) < Capacity

\* Mutant of Last: a reader goes on after a Bye.
Last_ErrorOnly(f) == f.kind = "err"

\* After an error or a Bye the reader returns.
Last(f) == f.kind \in Farewells \cup {"err"}

Offer(s) ==
  /\ reader[s] = "offering" /\ HasRoom
  /\ frames' = Append(frames, hand[s])
  /\ reader' = [reader EXCEPT ![s] = IF Last(hand[s]) THEN "gone" ELSE "reading"]
  /\ hand' = [hand EXCEPT ![s] = Nothing]
  /\ UNCHANGED <<opening, step, bus, ourSide, subscribed, delivered, byes, ctx, outcome>>

\* Mutant of Dismissed: the readers watch the caller's context.
Dismissed_ByCaller == ctx # "live"

\* `case <-ctx.Done()`: cancelled, or RunMany has returned and its deferred cancelRun ran.
Dismissed == ctx # "live" \/ outcome # "none"

OfferCancelled(s) ==
  /\ reader[s] = "offering" /\ Dismissed
  /\ reader' = [reader EXCEPT ![s] = "gone"]
  /\ UNCHANGED <<opening, step, bus, ourSide, hand, loop, ctx, outcome>>

-----------------------------------------------------------------------------
(* The loop.                                                               *)

LoopCancelled ==
  /\ Running /\ ctx # "live"
  /\ EndWith(ctx)
  /\ UNCHANGED <<opening, step, bus, reader, hand, loop, ctx>>

Take(kinds) ==
  /\ Running /\ frames # <<>> /\ Head(frames).kind \in kinds
  /\ frames' = Tail(frames)
From == Head(frames).from

\* A read error after the context is cancelled is the cancellation.
TakeError ==
  /\ Take({"err"})
  /\ EndWith(IF ctx = "live" THEN "read_error" ELSE ctx)
  /\ UNCHANGED <<opening, step, bus, reader, hand, subscribed, delivered, byes, ctx>>

\* With this event the limit is reached.
AtLimit == MaxEvents > 0 /\ Received + 1 >= MaxEvents

\* Mutant of TakeEvent: only the session of the last event is told.
TakeEvent_TellsOne ==
  /\ Take({"event"})
  /\ delivered' = Append(delivered, Head(frames))
  /\ IF AtLimit
       THEN EndWith("limit") /\ byes' = {From}
       ELSE UNCHANGED <<ourSide, outcome, byes>>
  /\ UNCHANGED <<opening, step, bus, reader, hand, subscribed, ctx>>

\* Deliver the event; at the limit say client_done on every active session and end.
TakeEvent ==
  /\ Take({"event"})
  /\ delivered' = Append(delivered, Head(frames))
  /\ IF AtLimit
       THEN EndWith("limit") /\ byes' = subscribed
       ELSE UNCHANGED <<ourSide, outcome, byes>>
  /\ UNCHANGED <<opening, step, bus, reader, hand, subscribed, ctx>>

\* ErrPipeClosed: whoever reads our output is gone.
TakeEventPipeClosed ==
  /\ PipeCloses
  /\ Take({"event"})
  /\ EndWith("signal") /\ byes' = subscribed
  /\ UNCHANGED <<opening, step, bus, reader, hand, subscribed, delivered, ctx>>

\* Any other failure to write the event out ends the command with it.
TakeEventFails ==
  /\ PipeCloses
  /\ Take({"event"})
  /\ EndWith("sink_error")
  /\ UNCHANGED <<opening, step, bus, reader, hand, subscribed, delivered, byes, ctx>>

\* Mutant of TakeStopped: a stopped subscription ends the command.
TakeStopped_EndsAll ==
  /\ Take({"subscription_stopped"})
  /\ EndWith("subscriptions_stopped")
  /\ UNCHANGED <<opening, step, bus, reader, hand, subscribed, delivered, byes, ctx>>

\* subscription_stopped ends one session; with none left the command ends.
TakeStopped ==
  /\ Take({"subscription_stopped"})
  /\ subscribed' = subscribed \ {From}
  /\ IF subscribed' = {}
       THEN EndWith("subscriptions_stopped")
       ELSE ourSide' = [ourSide EXCEPT ![From] = "closed"] /\ outcome' = outcome
  /\ UNCHANGED <<opening, step, bus, reader, hand, delivered, byes, ctx>>

\* Any other Bye ends the command: with the typed error, or as a shutdown.
TakeBye ==
  /\ Take(Farewells \ {"subscription_stopped"})
  /\ EndWith(IF Head(frames).kind = "shutdown" THEN "bus_shutdown" ELSE "rejected")
  /\ UNCHANGED <<opening, step, bus, reader, hand, subscribed, delivered, byes, ctx>>

-----------------------------------------------------------------------------
Loop == LoopCancelled \/ TakeError \/ TakeEvent \/ TakeEventPipeClosed \/ TakeEventFails
        \/ TakeStopped \/ TakeBye
Reader(s) == ReadFrame(s) \/ ReadError(s) \/ Offer(s) \/ OfferCancelled(s)

ConsumeNext ==
  \/ Discover \/ Negotiate \/ OpeningFails
  \/ \E why \in {"timeout", "signal"} : Cancel(why)
  \/ \E s \in Sessions :
       \/ BusSends(s) \/ BusCloses(s) \/ Reader(s)
       \/ \E why \in Farewells : BusSaysBye(s, why)
  \/ Loop

ConsumeSpec == ConsumeInit /\ [][ConsumeNext]_consumeVars

-----------------------------------------------------------------------------
(* Properties.                                                             *)

\* What is delivered of a subscription is what its bus connection carried, in order,
\* without gaps or repeats, though the readers share one channel (run_many.go:172-179).
DeliveredInOrder ==
  \A i \in DOMAIN delivered :
    LET f == delivered[i]
    IN /\ f.n = 1 \/ \E j \in 1..(i - 1) : delivered[j] = Frame(f.from, "event", f.n - 1)
       /\ \A j \in 1..(i - 1) : delivered[j] # f

\* As long as the bus says Bye before it closes a connection, and the user lets the
\* command run, it never ends in a read error: a reader stops at the Bye, so a stopped
\* subscription's end of file cannot pass for a failure of the others
\* (run_many.go:201-212, 305-307).
NoErrorAfterBye ==
  ~BusCrashes => outcome # "read_error"

\* The command reports that its subscriptions were stopped only when the bus has
\* stopped every one of them, one by one (run_many.go:243-255, 269-270).
AllWereStopped ==
  outcome = "subscriptions_stopped" =>
    subscribed = {} /\ \A s \in Sessions : busSide[s] \in {"bye", "closed"}

\* Whoever it ends for, at the limit every connection still in use is told, so that the
\* bus drops the consumers at once (run_many.go:231-235).
LimitTellsEveryone ==
  outcome = "limit" =>
    /\ Received = MaxEvents
    /\ \A s \in Sessions : s \in byes \/ busSide[s] \in {"bye", "closed"}

\* When the command has ended no reader is stuck on the channel nobody reads any more: each
\* can still take its next step, and is gone when it has no more (run_many.go:201-218,
\* 297-312).
NoReaderStuck ==
  outcome # "none" => \A s \in Sessions :
    /\ reader[s] = "reading" => Readable(s) \/ Broken(s)
    /\ reader[s] = "offering" => HasRoom \/ Dismissed

\* What RunMany promises for its subscriptions (run_many.go:53-312).
ConsumeSafe ==
  /\ ConsumeTypeOK /\ DeliveredInOrder /\ NoErrorAfterBye /\ AllWereStopped
  /\ LimitTellsEveryone /\ NoReaderStuck
=============================================================================
