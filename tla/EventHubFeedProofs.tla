------------------------- MODULE EventHubFeedProofs -------------------------
(***************************************************************************)
(* The hub, and what reaches a consumer, for any number of connections,    *)
(* callbacks, event types and events, and any buffer size: nobody pushes   *)
(* to a closed channel and no event goes uncounted; a stop is served       *)
(* before the backlog, "received" is what was kept, and the hub, its       *)
(* callbacks, a writer and a shutdown together implement the queue of      *)
(* LossyFifo.                                                              *)
(***************************************************************************)
EXTENDS EventHubFeed, SequenceTheorems, TLAPS

-----------------------------------------------------------------------------
(* Frames and channels.                                                    *)

LEMMA ByeIsFrame ==
  ASSUME NEW r \in Reasons
  PROVE  Bye(r) \in Frames /\ Bye(r).kind = "bye" /\ Bye(r).body = r
BY DEF Bye, Frames

LEMMA NothingIsFrame == Nothing \in Frames /\ Nothing.kind = "bye"
BY ByeIsFrame DEF Reasons, Nothing

LEMMA EventIsFrame ==
  ASSUME NEW t \in Types \cup Reasons, NEW n \in Nat
  PROVE  Event(t, n) \in Frames /\ Event(t, n).kind = "event"
BY DEF Event, Frames

\* What a non-blocking send and a receive leave in a channel.
LEMMA SentIsChannel ==
  ASSUME ChanType, ActType, HubAssumption, NEW a \in Actors, NEW c \in Conns
  PROVE  /\ Sent(a, c) \in [Conns -> Seq(Frames)]
         /\ \A d \in Conns : Len(Sent(a, c)[d]) <= Buf
<1>1. Append(sendCh[c], frame[a]) \in Seq(Frames)
      /\ Len(Append(sendCh[c], frame[a])) = Len(sendCh[c]) + 1
  BY DEF ChanType, ActType
<1> QED BY <1>1 DEF ChanType, Sent, Fits, HubAssumption

LEMMA TailIsChannel ==
  ASSUME ChanType, NEW c \in Conns, sendCh[c] # <<>>
  PROVE  /\ Head(sendCh[c]) \in Frames
         /\ Tail(sendCh[c]) \in Seq(Frames)
         /\ Len(Tail(sendCh[c])) = Len(sendCh[c]) - 1
BY DEF ChanType

LEMMA StopReason ==
  ASSUME HubType, NEW c \in Conns, stopCh[c] # <<>>
  PROVE  Head(stopCh[c]) \in Reasons
<1>1. PICK r \in Reasons : stopCh[c] = <<r>>
  BY DEF HubType
<1> QED BY <1>1

-----------------------------------------------------------------------------
(* Type correctness. TypeOK alone is not inductive: what Signal puts in a  *)
(* StopCh is a reason only because the signalling actors carry one.        *)

SignalsReasons == \A a \in Actors : apc[a] = "signal" => frame[a].body \in Reasons
TypeInv == TypeOK /\ SignalsReasons

LEMMA TypeInit == HubAssumption /\ Init => TypeInv
<1> SUFFICES ASSUME HubAssumption, Init PROVE TypeInv
  OBVIOUS
<1>1. HubType
  <2> DEFINE S == {<<>>} \cup {<<r>> : r \in Reasons}
  <2>1. <<>> \in S
    OBVIOUS
  <2>2. consumers \subseteq Conns
    BY DEF Init
  <2>3. stopCh \in [Conns -> S]
    <3> HIDE DEF S
    <3> QED BY <2>1 DEF Init
  <2> QED BY <2>2, <2>3, Zenon DEF HubType
<1>2. CountType
  BY DEF Init, CountType
<1>3. RunType
  BY DEF Init, RunType
<1>4. ChanType
  BY DEF Init, ChanType, HubAssumption
<1>5. ActType /\ SignalsReasons
  BY NothingIsFrame DEF Init, ActType, SignalsReasons
<1>6. ConnType
  BY NothingIsFrame DEF Init, ConnType
<1> QED BY <1>1, <1>2, <1>3, <1>4, <1>5, <1>6 DEF TypeInv, TypeOK

LEMMA TypeStep ==
  ASSUME TypeInv, HubAssumption, [Next]_vars
  PROVE  TypeInv'
<1> USE DEF TypeInv, TypeOK, reg, chan, count, act, conn, run
<1>0. CASE UNCHANGED vars
  BY <1>0 DEF vars, HubType, ChanType, CountType, ActType, ConnType, RunType, SignalsReasons
<1>1. ASSUME NEW a \in Callbacks, NEW t \in Types, Deliver(a, t)
      PROVE  TypeInv'
  <2>1. Event(t, 0) \in Frames /\ a \in Actors
    BY EventIsFrame DEF Actors
  <2>2. ActType' /\ SignalsReasons'
    BY <1>1, <2>1 DEF Deliver, ActType, HubType, SignalsReasons
  <2>3. CountType'
    BY <1>1 DEF Deliver, CountType
  <2> QED BY <1>1, <2>2, <2>3 DEF Deliver, HubType, ChanType, ConnType, RunType
<1>2. ASSUME NEW a \in Actors, NEW c \in Conns, Push(a, c)
      PROVE  TypeInv'
  <2>1. CASE SkipClosed(a, c)
    <3>1. ActType' /\ SignalsReasons'
      BY <2>1 DEF SkipClosed, ActType, SignalsReasons
    <3> QED BY <2>1, <3>1 DEF SkipClosed, HubType, ChanType, CountType, ConnType, RunType
  <2>2. CASE Lock(a, c)
    <3>1. seq[c] + 1 \in Nat
      BY DEF ChanType
    <3>2. Event(frame[a].body, seq[c] + 1) \in Frames
      BY <3>1, EventIsFrame DEF ActType, Frames
    <3>3. ActType' /\ SignalsReasons'
      BY <2>2, <3>2 DEF Lock, ActType, SignalsReasons
    <3>4. ChanType'
      BY <2>2, <3>1 DEF Lock, ChanType
    <3> QED BY <2>2, <3>3, <3>4 DEF Lock, HubType, CountType, ConnType, RunType
  <2>3. CASE Try(a, c)
    <3>1. ActType' /\ SignalsReasons'
      BY <2>3 DEF Try, Fits, ActType, SignalsReasons
    <3>2. ChanType'
      BY <2>3, SentIsChannel DEF Try, ChanType
    <3> QED BY <2>3, <3>1, <3>2 DEF Try, HubType, CountType, ConnType, RunType
  <2>4. CASE Evict(a, c)
    <3>1. ActType' /\ SignalsReasons'
      BY <2>4 DEF Evict, ActType, SignalsReasons
    <3>2. ChanType'
      BY <2>4, TailIsChannel DEF Evict, ChanType, HubAssumption
    <3> QED BY <2>4, <3>1, <3>2 DEF Evict, HubType, CountType, ConnType, RunType
  <2>5. CASE Retry(a, c)
    <3>1. ActType' /\ SignalsReasons'
      BY <2>5 DEF Retry, Fits, ActType, SignalsReasons
    <3>2. ChanType'
      BY <2>5, SentIsChannel DEF Retry, ChanType
    <3> QED BY <2>5, <3>1, <3>2 DEF Retry, HubType, CountType, ConnType, RunType
  <2>6. CASE Settle(a, c)
    <3>1. N(evicted[a]) \in Nat /\ N(pushed[a]) \in Nat /\ N(~pushed[a]) \in Nat
          /\ N(evicted[a] \/ ~pushed[a]) \in Nat
      BY DEF N
    <3>2. CountType'
      BY <2>6, <3>1 DEF Settle, CountType
    <3>3. ActType' /\ SignalsReasons'
      BY <2>6 DEF Settle, ActType, SignalsReasons
    <3>4. ChanType'
      BY <2>6 DEF Settle, ChanType
    <3> QED BY <2>6, <3>2, <3>3, <3>4 DEF Settle, HubType, ConnType, RunType
  <2> QED BY <1>2, <2>1, <2>2, <2>3, <2>4, <2>5, <2>6 DEF Push
<1>3. ASSUME NEW a \in Actors, NEW c \in Conns, Signal(a, c)
      PROVE  TypeInv'
  <2>1. frame[a].body \in Reasons
    BY <1>3 DEF Signal, SignalsReasons
  <2>2. HubType'
    BY <1>3, <2>1 DEF Signal, HubType
  <2>3. ActType' /\ SignalsReasons'
    BY <1>3 DEF Signal, ActType, SignalsReasons
  <2> QED BY <1>3, <2>2, <2>3 DEF Signal, ChanType, CountType, ConnType, RunType
<1>4. ASSUME NEW a \in Actors, Return(a)
      PROVE  TypeInv'
  <2>1. ActType' /\ SignalsReasons'
    BY <1>4, NothingIsFrame DEF Return, ActType, SignalsReasons
  <2> QED BY <1>4, <2>1 DEF Return, HubType, ChanType, CountType, ConnType, RunType
<1>5. ASSUME NEW ids \in SUBSET Subs, StopConsumers(ids)
      PROVE  TypeInv'
  <2>1. /\ "subscription_stopped" \in Reasons /\ Rpc \in Actors
        /\ Bye("subscription_stopped") \in Frames
        /\ Bye("subscription_stopped").body = "subscription_stopped"
    BY ByeIsFrame DEF Reasons, Actors
  <2>2. ActType' /\ SignalsReasons'
    BY <1>5, <2>1 DEF StopConsumers, ActType, HubType, SignalsReasons
  <2> QED BY <1>5, <2>2 DEF StopConsumers, HubType, ChanType, CountType, ConnType, RunType
<1>6. CASE StopAll \/ Broadcast
  <2>1. /\ Rejected \in Reasons /\ Run \in Actors
        /\ Bye(Rejected) \in Frames /\ Bye("shutdown") \in Frames
        /\ Bye(Rejected).body = Rejected
    BY ByeIsFrame DEF Reasons, Rejected, Actors
  <2>2. ActType' /\ SignalsReasons'
    BY <1>6, <2>1 DEF StopAll, Broadcast, ActType, HubType, SignalsReasons
  <2> QED BY <1>6, <2>2 DEF StopAll, Broadcast, HubType, ChanType, CountType, ConnType,
                            RunType
<1>7. CASE SourceRejected \/ CloseListener \/ ForceClose
  BY <1>7, ZenonT(40) DEF SourceRejected, CloseListener, ForceClose, HubType, ChanType, CountType, ActType, ConnType, RunType, SignalsReasons
<1>8. ASSUME NEW c \in Conns,
             Accept(c) \/ Register(c) \/ ConsumerBye(c) \/ Handler(c)
      PROVE  TypeInv'
  <2>1. CASE Accept(c)
    <3>1. ConnType'
      BY <2>1 DEF Accept, Goto, ConnType
    <3> QED BY <2>1, <3>1 DEF Accept, HubType, ChanType, CountType,
            ActType, RunType, SignalsReasons
  <2>2. CASE Register(c)
    <3>1. ConnType' /\ HubType'
      BY <2>2 DEF Register, Goto, ConnType, HubType
    <3> QED BY <2>2, <3>1 DEF Register, ChanType, CountType, ActType,
            RunType, SignalsReasons
  <2>3. CASE HelloFails(c)
    <3>1. ConnType'
      BY <2>3 DEF HelloFails, Goto, ConnType
    <3> QED BY <2>3, <3>1 DEF HelloFails, HubType, ChanType, CountType,
            ActType, RunType, SignalsReasons
  <2>4. CASE RefuseTerminal(c)
    <3>1. Append(wire[c], Bye(Rejected)) \in Seq(Frames)
      BY ByeIsFrame DEF ConnType, Reasons, Rejected
    <3>2. ConnType'
      BY <2>4, <3>1 DEF RefuseTerminal, Goto, ConnType
    <3> QED BY <2>4, <3>2 DEF RefuseTerminal, HubType, ChanType, CountType,
            ActType, RunType, SignalsReasons
  <2>5. CASE NotTerminal(c)
    <3>1. ConnType'
      BY <2>5 DEF NotTerminal, Goto, ConnType
    <3> QED BY <2>5, <3>1 DEF NotTerminal, HubType, ChanType, CountType,
            ActType, RunType, SignalsReasons
  <2>6. CASE AckSent(c)
    <3>1. ConnType'
      BY <2>6 DEF AckSent, Goto, ConnType
    <3> QED BY <2>6, <3>1 DEF AckSent, HubType, ChanType, CountType,
            ActType, RunType, SignalsReasons
  <2>7. CASE AckFails(c)
    <3>1. ConnType'
      BY <2>7 DEF AckFails, Goto, ConnType
    <3> QED BY <2>7, <3>1 DEF AckFails, HubType, ChanType, CountType,
            ActType, RunType, SignalsReasons
  <2>8. CASE ReadFails(c)
    <3>1. ConnType'
      BY <2>8 DEF ReadFails, Goto, ConnType
    <3> QED BY <2>8, <3>1 DEF ReadFails, HubType, ChanType, CountType,
            ActType, RunType, SignalsReasons
  <2>9. CASE ConsumerBye(c)
    <3>1. ConnType'
      BY <2>9 DEF ConsumerBye, Goto, ConnType
    <3> QED BY <2>9, <3>1 DEF ConsumerBye, HubType, ChanType, CountType,
            ActType, RunType, SignalsReasons
  <2>10. CASE Unregister(c)
    <3>1. ConnType' /\ HubType'
      BY <2>10 DEF Unregister, Goto, ConnType, HubType
    <3> QED BY <2>10, <3>1 DEF Unregister, ChanType, CountType, ActType,
            RunType, SignalsReasons
  <2>11. CASE CloseSend(c)
    <3>1. ConnType' /\ ChanType'
      BY <2>11 DEF CloseSend, Goto, ConnType, ChanType
    <3> QED BY <2>11, <3>1 DEF CloseSend, HubType, CountType, ActType,
            RunType, SignalsReasons
  <2>12. CASE Join(c)
    <3>1. ConnType'
      BY <2>12 DEF Join, Goto, ConnType
    <3> QED BY <2>12, <3>1 DEF Join, HubType, ChanType, CountType,
            ActType, RunType, SignalsReasons
  <2> QED BY <1>8, <2>1, <2>2, <2>3, <2>4, <2>5, <2>6, <2>7, <2>8, <2>9, <2>10, <2>11, <2>12
      DEF Handler
<1>9. ASSUME NEW c \in Conns, Writer(c) \/ PeerMoves(c) \/ PeerVanishes(c)
      PROVE  TypeInv'
  <2>1. CASE TakeStop(c)
    <3>1. Bye(Head(stopCh[c])) \in Frames
      BY <2>1, StopReason, ByeIsFrame DEF TakeStop
    <3>2. ConnType' /\ HubType'
      BY <2>1, <3>1 DEF TakeStop, ConnType, HubType
    <3> QED BY <2>1, <3>2 DEF TakeStop, ChanType, CountType, ActType,
            RunType, SignalsReasons
  <2>2. CASE NoStop(c)
    <3>1. ConnType'
      BY <2>2 DEF NoStop, ConnType
    <3> QED BY <2>2, <3>1 DEF NoStop, HubType, ChanType, CountType,
            ActType, RunType, SignalsReasons
  <2>3. CASE TakeFrame(c)
    <3>1. ConnType' /\ ChanType'
      BY <2>3, TailIsChannel DEF TakeFrame, ConnType, ChanType, HubAssumption
    <3> QED BY <2>3, <3>1 DEF TakeFrame, HubType, CountType, ActType,
            RunType, SignalsReasons
  <2>4. CASE TakeClosed(c)
    <3>1. ConnType'
      BY <2>4 DEF TakeClosed, ConnType
    <3> QED BY <2>4, <3>1 DEF TakeClosed, HubType, ChanType, CountType,
            ActType, RunType, SignalsReasons
  <2>5. CASE StillNoStop(c)
    <3>1. ConnType'
      BY <2>5 DEF StillNoStop, ConnType
    <3> QED BY <2>5, <3>1 DEF StillNoStop, HubType, ChanType, CountType,
            ActType, RunType, SignalsReasons
  <2>6. CASE WriteFrame(c)
    <3>1. Append(wire[c], inHand[c]) \in Seq(Frames) /\ N(stopCh[c] # <<>>) \in Nat
      BY DEF ConnType, N
    <3>2. ConnType'
      BY <2>6, <3>1, NothingIsFrame DEF WriteFrame, ConnType
    <3> QED BY <2>6, <3>2 DEF WriteFrame, HubType, ChanType, CountType,
            ActType, RunType, SignalsReasons
  <2>7. CASE WriteFails(c)
    <3>1. ConnType'
      BY <2>7 DEF WriteFails, ConnType
    <3> QED BY <2>7, <3>1 DEF WriteFails, HubType, ChanType, CountType,
            ActType, RunType, SignalsReasons
  <2>8. CASE WriteLast(c)
    <3>1. Append(wire[c], inHand[c]) \in Seq(Frames) /\ N(stopCh[c] # <<>>) \in Nat
      BY DEF ConnType, N
    <3>2. ConnType'
      BY <2>8, <3>1, NothingIsFrame DEF WriteLast, ConnType
    <3> QED BY <2>8, <3>2 DEF WriteLast, HubType, ChanType, CountType,
            ActType, RunType, SignalsReasons
  <2>9. CASE PeerMoves(c)
    <3>1. ConnType'
      BY <2>9 DEF PeerMoves, ConnType
    <3> QED BY <2>9, <3>1 DEF PeerMoves, HubType, ChanType, CountType,
            ActType, RunType, SignalsReasons
  <2>10. CASE PeerVanishes(c)
    <3>1. ConnType'
      BY <2>10 DEF PeerVanishes, ConnType
    <3> QED BY <2>10, <3>1 DEF PeerVanishes, HubType, ChanType, CountType,
            ActType, RunType, SignalsReasons
  <2> QED BY <1>9, <2>1, <2>2, <2>3, <2>4, <2>5, <2>6, <2>7, <2>8, <2>9, <2>10 DEF Writer
<1> QED BY <1>0, <1>1, <1>2, <1>3, <1>4, <1>5, <1>6, <1>7, <1>8, <1>9 DEF Next, Shutdown

\* Every variable keeps its type, no channel holds more than Buf frames and no StopCh
\* more than one reason, in every reachable state.
THEOREM TypeCorrect == Spec => []TypeOK
<1>1. Init => TypeInv
  BY HubAssumption, TypeInit
<1>2. TypeInv /\ [Next]_vars => TypeInv'
  BY HubAssumption, TypeStep
<1>3. TypeInv => TypeOK
  BY DEF TypeInv
<1> QED BY <1>1, <1>2, <1>3, PTL DEF Spec
-----------------------------------------------------------------------------
(* What sendMu buys: no send on a closed channel, a second push that always *)
(* fits, and no event left uncounted. The three rest on one inductive       *)
(* invariant about who holds which sendMu.                                  *)
Pushing == {"try", "evict", "retry", "settle"}

\* Whoever holds a sendMu is in the middle of a push, and a held sendMu keeps its
\* channel open: closeSend has to take it first.
HolderPushes ==
  \A a \in Actors, c \in Conns : sendMu[c] = a => apc[a] \in Pushing /\ ~closed[c]

\* A push takes one sendMu and releases it before it takes the next.
OneAtATime ==
  \A a \in Actors, c, d \in Conns : sendMu[c] = a /\ sendMu[d] = a => c = d

\* Run touches no consumer before it starts to shut down.
RunIdles == phase \in {"up", "rejected"} => apc[Run] = "idle"

\* An event numbered but not settled yet is owed to the counters.
Owed(c) == N(sendMu[c] # NoOne /\ frame[sendMu[c]].kind = "event")
Ledger  == \A c \in Conns : seq[c] = received[c] + dropped[c] + Owed(c)

LockInv == HolderPushes /\ OneAtATime /\ RunIdles /\ RetryHasRoom /\ Ledger

LEMMA LockInit == HubAssumption /\ Init => LockInv
<1> SUFFICES ASSUME HubAssumption, Init PROVE LockInv
  OBVIOUS
<1>1. HolderPushes /\ OneAtATime /\ RetryHasRoom
  BY DEF HubAssumption, Init, HolderPushes, OneAtATime, RetryHasRoom
<1>2. RunIdles
  BY DEF Init, RunIdles, Actors
<1>3. Ledger
  BY DEF Init, Ledger, Owed, N
<1> QED BY <1>1, <1>2, <1>3 DEF LockInv

\* A step of an actor that holds no sendMu, and touches none, may change its own
\* program counter and frame at will.
LEMMA LockFrame ==
  ASSUME LockInv, HubAssumption, TypeOK, NEW a \in Actors,
         \A c \in Conns : sendMu[c] # a,
         \A b \in Actors \ {a} : apc'[b] = apc[b] /\ frame'[b] = frame[b],
         UNCHANGED <<chan, received, dropped>>, RunIdles'
  PROVE  LockInv'
<1> USE DEF LockInv, TypeOK, chan
<1>1. HolderPushes' /\ OneAtATime'
  BY DEF HolderPushes, OneAtATime
<1>2. RetryHasRoom'
  BY DEF RetryHasRoom, Fits
<1>3. Ledger'
  BY DEF Ledger, Owed, ChanType
<1> QED BY <1>1, <1>2, <1>3

LEMMA PushKeepsLockInv ==
  ASSUME TypeOK, LockInv, HubAssumption, NEW a \in Actors, NEW c \in Conns, Push(a, c)
  PROVE  LockInv'
<1> USE DEF LockInv, TypeOK
<1>0. NoOne \notin Actors
  BY DEF HubAssumption
<1>1. CASE SkipClosed(a, c)
  BY <1>1 DEF SkipClosed, HolderPushes, OneAtATime, RunIdles, RetryHasRoom, Fits, Ledger,
              Owed, chan, count, run
<1>2. CASE Lock(a, c)
  <2>1. \A d \in Conns : sendMu[d] # a
    BY <1>2 DEF Lock, HolderPushes, Pushing
  <2>2. HolderPushes' /\ OneAtATime'
    BY <1>2, <2>1, <1>0 DEF Lock, HolderPushes, OneAtATime, Pushing, ChanType, ActType
  <2>3. RunIdles'
    BY <1>2 DEF Lock, RunIdles, run, ActType
  <2>4. RetryHasRoom'
    BY <1>2, <2>1 DEF Lock, RetryHasRoom, Fits, ChanType, ActType
  <2>5. Ledger'
    <3> SUFFICES ASSUME NEW d \in Conns
                 PROVE  seq'[d] = received'[d] + dropped'[d] + Owed(d)'
      BY DEF Ledger
    <3>1. seq[d] \in Int /\ received[d] \in Int /\ dropped[d] \in Int
      BY DEF ChanType, CountType
    <3>2. CASE d = c
      <4>1. seq[c] = received[c] + dropped[c]
        BY <1>2, <3>1, <3>2 DEF Lock, Ledger, Owed, N
      <4>2. CASE frame[a].kind = "event"
        <5>1. Owed(c)' = 1 /\ seq'[c] = seq[c] + 1
          BY <1>2, <4>2, <1>0 DEF Lock, Owed, N, Event, ChanType, ActType
        <5> QED BY <1>2, <5>1, <4>1, <3>1, <3>2 DEF Lock, count
      <4>3. CASE frame[a].kind # "event"
        <5>1. Owed(c)' = 0 /\ seq'[c] = seq[c]
          BY <1>2, <4>3, <1>0 DEF Lock, Owed, N, ChanType
        <5> QED BY <1>2, <5>1, <4>1, <3>1, <3>2 DEF Lock, count
      <4> QED BY <4>2, <4>3
    <3>3. CASE d # c
      <4>1. seq'[d] = seq[d] /\ sendMu'[d] = sendMu[d]
        BY <1>2, <3>3 DEF Lock, ChanType
      <4>2. sendMu[d] # NoOne => frame'[sendMu[d]] = frame[sendMu[d]]
        BY <1>2, <2>1 DEF Lock, ChanType, ActType
      <4>3. Owed(d)' = Owed(d)
        BY <4>1, <4>2 DEF Owed, N
      <4> QED BY <1>2, <4>1, <4>3 DEF Lock, count, Ledger
    <3> QED BY <3>2, <3>3
  <2> QED BY <2>2, <2>3, <2>4, <2>5
<1>3. CASE Try(a, c) \/ Evict(a, c) \/ Retry(a, c)
  <2>1. sendMu[c] = a /\ apc'[a] \in Pushing
    BY <1>3 DEF Try, Evict, Retry, Pushing, ActType
  <2>2. /\ \A b \in Actors \ {a} : apc'[b] = apc[b]
        /\ \A d \in Conns \ {c} : sendCh'[d] = sendCh[d]
        /\ UNCHANGED <<sendMu, closed, seq, count, frame, phase>>
    BY <1>3 DEF Try, Evict, Retry, Sent, run, ActType, ChanType
  <2>3. HolderPushes' /\ OneAtATime'
    BY <2>1, <2>2 DEF HolderPushes, OneAtATime
  <2>4. RunIdles'
    BY <1>3, <2>2 DEF Try, Evict, Retry, RunIdles, Actors
  <2>5. apc'[a] = "retry" => Len(sendCh'[c]) < Buf
    <3>1. CASE Evict(a, c)
      BY <3>1, TailIsChannel DEF Evict, ChanType, HubAssumption
    <3>2. CASE Try(a, c) \/ Retry(a, c)
      BY <3>2 DEF Try, Retry, ActType
    <3> QED BY <1>3, <3>1, <3>2
  <2>6. RetryHasRoom'
    <3> SUFFICES ASSUME NEW b \in Actors, NEW d \in Conns, apc'[b] = "retry", sendMu'[d] = b
                 PROVE  Len(sendCh'[d]) < Buf
      BY DEF RetryHasRoom, Fits
    <3>1. CASE d = c
      BY <2>1, <2>2, <2>5, <3>1
    <3>2. CASE d # c
      <4>1. b # a
        BY <2>1, <2>2, <3>2 DEF OneAtATime
      <4> QED BY <2>2, <3>2, <4>1 DEF RetryHasRoom, Fits
    <3> QED BY <3>1, <3>2
  <2>7. Ledger'
    BY <2>2 DEF Ledger, Owed, count
  <2> QED BY <2>3, <2>4, <2>6, <2>7
<1>4. CASE Settle(a, c)
  <2>1. /\ sendMu[c] = a /\ sendMu'[c] = NoOne
        /\ \A d \in Conns \ {c} : sendMu'[d] = sendMu[d] /\ sendMu[d] # a
    BY <1>4 DEF Settle, ChanType, OneAtATime
  <2>2. HolderPushes' /\ OneAtATime'
    BY <1>4, <2>1, <1>0 DEF Settle, HolderPushes, OneAtATime, ActType
  <2>3. RunIdles'
    BY <1>4 DEF Settle, RunIdles, run, ActType
  <2>4. RetryHasRoom'
    BY <1>4, <2>1, <1>0 DEF Settle, RetryHasRoom, Fits, ActType
  <2>5. Ledger'
    <3> SUFFICES ASSUME NEW d \in Conns
                 PROVE  seq'[d] = received'[d] + dropped'[d] + Owed(d)'
      BY DEF Ledger
    <3>1. /\ seq[d] \in Int /\ received[d] \in Int /\ dropped[d] \in Int
          /\ seq'[d] = seq[d]
      BY <1>4 DEF Settle, ChanType, CountType
    <3>2. CASE d = c
      <4>1. Owed(c)' = 0
        BY <2>1 DEF Owed, N
      <4>2. CASE frame[a].kind = "event"
        <5>1. Owed(c) = 1
          BY <2>1, <4>2, <1>0 DEF Owed, N
        <5>2. /\ N(evicted[a]) \in Int /\ N(pushed[a]) \in Int
              /\ N(pushed[a]) + N(~pushed[a]) = 1
          BY DEF N
        <5>3. /\ received'[c] = received[c] - N(evicted[a]) + N(pushed[a])
              /\ dropped'[c] = dropped[c] + N(evicted[a]) + N(~pushed[a])
          BY <1>4, <4>2 DEF Settle, CountType
        <5>4. N(~pushed[a]) \in Int
          BY DEF N
        <5>5. received'[c] + dropped'[c] = received[c] + dropped[c] + 1
          BY <5>2, <5>3, <5>4, <3>1, <3>2
        <5> QED BY <3>1, <3>2, <4>1, <5>1, <5>5 DEF Ledger, CountType
      <4>3. CASE frame[a].kind # "event"
        <5>1. Owed(c) = 0
          BY <2>1, <4>3 DEF Owed, N
        <5> QED BY <1>4, <3>1, <3>2, <4>1, <4>3, <5>1 DEF Settle, Ledger
      <4> QED BY <4>2, <4>3
    <3>3. CASE d # c
      <4>1. received'[d] = received[d] /\ dropped'[d] = dropped[d]
        BY <1>4, <3>3 DEF Settle, CountType
      <4>2. Owed(d)' = Owed(d)
        BY <1>4, <2>1, <3>3 DEF Settle, Owed, N
      <4> QED BY <3>1, <4>1, <4>2 DEF Ledger
    <3> QED BY <3>2, <3>3
  <2> QED BY <2>2, <2>3, <2>4, <2>5
<1> QED BY <1>1, <1>2, <1>3, <1>4 DEF Push

LEMMA LockStep ==
  ASSUME TypeOK, LockInv, HubAssumption, [Next]_vars
  PROVE  LockInv'
<1> USE DEF LockInv, TypeOK
<1>0. Run \notin Callbacks /\ Run # Rpc /\ Run \in Actors /\ Rpc \in Actors
  BY DEF HubAssumption, Actors
<1>1. ASSUME NEW a \in Callbacks, NEW t \in Types, Deliver(a, t)
      PROVE  LockInv'
  <2>1. a \in Actors /\ a # Run /\ \A c \in Conns : sendMu[c] # a
    BY <1>0, <1>1 DEF Deliver, Actors, HolderPushes, Pushing
  <2>2. \A b \in Actors \ {a} : apc'[b] = apc[b] /\ frame'[b] = frame[b]
    BY <1>1 DEF Deliver, ActType
  <2>3. RunIdles'
    BY <1>0, <1>1, <2>1, <2>2 DEF Deliver, RunIdles, run
  <2> QED BY <1>1, <2>1, <2>2, <2>3, LockFrame DEF Deliver
<1>2. ASSUME NEW a \in Actors, NEW c \in Conns, Push(a, c)
      PROVE  LockInv'
  BY <1>2, PushKeepsLockInv
<1>3. ASSUME NEW a \in Actors, Return(a)
      PROVE  LockInv'
  <2>1. \A c \in Conns : sendMu[c] # a
    BY <1>3 DEF Return, HolderPushes, Pushing
  <2>2. \A b \in Actors \ {a} : apc'[b] = apc[b] /\ frame'[b] = frame[b]
    BY <1>3 DEF Return, ActType
  <2>3. RunIdles'
    BY <1>0, <1>3 DEF Return, RunIdles, run, ActType
  <2> QED BY <1>3, <2>1, <2>2, <2>3, LockFrame DEF Return, count
<1>4. ASSUME NEW ids \in SUBSET Subs, StopConsumers(ids)
      PROVE  LockInv'
  <2>1. \A c \in Conns : sendMu[c] # Rpc
    BY <1>0, <1>4 DEF StopConsumers, HolderPushes, Pushing
  <2>2. \A b \in Actors \ {Rpc} : apc'[b] = apc[b] /\ frame'[b] = frame[b]
    BY <1>4 DEF StopConsumers, ActType
  <2>3. RunIdles'
    BY <1>0, <1>4, <2>2 DEF StopConsumers, RunIdles, run
  <2> QED BY <1>0, <1>4, <2>1, <2>2, <2>3, LockFrame DEF StopConsumers, count
<1>5. CASE StopAll \/ Broadcast
  <2>1. \A c \in Conns : sendMu[c] # Run
    BY <1>0, <1>5 DEF StopAll, Broadcast, RunIdles, HolderPushes, Pushing
  <2>2. \A b \in Actors \ {Run} : apc'[b] = apc[b] /\ frame'[b] = frame[b]
    BY <1>5 DEF StopAll, Broadcast, ActType
  <2>3. RunIdles'
    BY <1>5 DEF StopAll, Broadcast, RunIdles
  <2> QED BY <1>0, <1>5, <2>1, <2>2, <2>3, LockFrame DEF StopAll, Broadcast, count
<1>6. ASSUME UNCHANGED <<chan, received, dropped, apc, frame>>,
             phase' \in {"up", "rejected"} => phase \in {"up", "rejected"}
      PROVE  LockInv'
  BY <1>6 DEF chan, HolderPushes, OneAtATime, RunIdles, RetryHasRoom, Fits, Ledger, Owed
<1>7. CASE SourceRejected \/ CloseListener \/ ForceClose \/ UNCHANGED vars
  BY <1>6, <1>7 DEF SourceRejected, CloseListener, ForceClose, vars, count, act, run
<1>8. ASSUME NEW a \in Actors, NEW c \in Conns, Signal(a, c)
      PROVE  LockInv'
  BY <1>6, <1>8 DEF Signal, count, run
<1>9. ASSUME NEW c \in Conns, CloseSend(c)
      PROVE  LockInv'
  <2>1. sendMu[c] = NoOne /\ \A d \in Conns \ {c} : closed'[d] = closed[d]
    BY <1>9 DEF CloseSend, ChanType
  <2>2. UNCHANGED <<sendCh, sendMu, seq, count, apc, frame, phase>>
    BY <1>9 DEF CloseSend, act, run
  <2>3. HolderPushes' /\ OneAtATime' /\ RunIdles'
    BY <2>1, <2>2 DEF HolderPushes, OneAtATime, RunIdles, HubAssumption
  <2>4. RetryHasRoom' /\ Ledger'
    BY <2>2 DEF RetryHasRoom, Fits, Ledger, Owed, count
  <2> QED BY <2>3, <2>4
<1>10. ASSUME NEW c \in Conns, TakeFrame(c)
       PROVE  LockInv'
  <2>1. UNCHANGED <<sendMu, closed, seq, count, apc, frame, phase>>
    BY <1>10 DEF TakeFrame, act, run
  <2>2. \A d \in Conns : Len(sendCh'[d]) <= Len(sendCh[d]) /\ Len(sendCh[d]) \in Nat
                         /\ Len(sendCh'[d]) \in Nat
    BY <1>10, TailIsChannel DEF TakeFrame, ChanType
  <2>3. RetryHasRoom'
    BY <2>1, <2>2 DEF RetryHasRoom, Fits, HubAssumption
  <2> QED BY <2>1, <2>3 DEF HolderPushes, OneAtATime, RunIdles, Ledger, Owed, count
<1>11. ASSUME NEW c \in Conns,
              Accept(c) \/ Register(c) \/ ConsumerBye(c) \/ PeerMoves(c) \/ PeerVanishes(c)
       PROVE  LockInv'
  BY <1>6, <1>11 DEF Accept, Register, ConsumerBye, PeerMoves, PeerVanishes, count, act, run
<1>12. ASSUME NEW c \in Conns, Handler(c)
       PROVE  LockInv'
  BY <1>6, <1>9, <1>12 DEF Handler, HelloFails, RefuseTerminal, NotTerminal, AckSent,
       AckFails, ReadFails, Unregister, Join, count, act, run
<1>13. ASSUME NEW c \in Conns, Writer(c)
       PROVE  LockInv'
  BY <1>6, <1>10, <1>13 DEF Writer, TakeStop, NoStop, TakeClosed, StillNoStop, WriteFrame,
       WriteFails, WriteLast, count, act, run
<1> QED BY <1>1, <1>2, <1>3, <1>4, <1>5, <1>7, <1>8, <1>11, <1>12, <1>13 DEF Next, Shutdown

THEOREM LockInvariant == Spec => []LockInv
<1>1. Init => LockInv
  BY HubAssumption, LockInit
<1>2. TypeOK /\ LockInv /\ [Next]_vars => LockInv'
  BY HubAssumption, LockStep
<1> QED BY <1>1, <1>2, TypeCorrect, PTL DEF Spec

\* No goroutine ever sends on a channel that closeSend has closed.
THEOREM NeverSendsOnClosed == Spec => []NoSendOnClosed
<1>1. LockInv => NoSendOnClosed
  BY DEF LockInv, HolderPushes, Pushing, NoSendOnClosed
<1> QED BY <1>1, LockInvariant, PTL

\* The newest frame always finds room after an eviction.
THEOREM RetryAlwaysFits == Spec => []RetryHasRoom
<1>1. LockInv => RetryHasRoom
  BY DEF LockInv
<1> QED BY <1>1, LockInvariant, PTL

\* Each event numbered for a consumer ends up counted exactly once.
THEOREM EventsCounted == Spec => []EveryEventCounted
<1>1. TypeOK /\ LockInv => EveryEventCounted
  <2> SUFFICES ASSUME TypeOK, LockInv, NEW c \in Conns, sendMu[c] = NoOne
               PROVE  seq[c] = received[c] + dropped[c]
    BY DEF EveryEventCounted
  <2>1. Owed(c) = 0
    BY DEF Owed, N
  <2> QED BY <2>1 DEF LockInv, Ledger, TypeOK, CountType, ChanType
<1> QED BY <1>1, LockInvariant, TypeCorrect, PTL

-----------------------------------------------------------------------------
(* What the feed of a consumer adds.                                       *)

Byes == {Bye(r) : r \in Reasons}

\* What each goroutine pushes: callbacks events, Run a farewell, the stop request nothing.
PushesItsKind ==
  /\ \A a \in Callbacks : apc[a] \in {"visit"} \cup Pushing
                            => frame[a].kind = "event" /\ frame[a].body \in Types
  /\ apc[Run] \in {"visit"} \cup Pushing => frame[Run] \in Byes
  /\ apc[Rpc] \in {"idle", "signal"}

\* The event in hand carries the number its consumer has reached.
NumberedLast ==
  \A a \in Callbacks, c \in Conns :
    sendMu[c] = a => frame[a] = Event(frame[a].body, seq[c])

\* The outcome of a push is unset until it is known.
OutcomeUnset ==
  \A a \in Actors : /\ apc[a] # "settle" => ~pushed[a]
                    /\ apc[a] \notin {"retry", "settle"} => ~evicted[a]

\* A writer runs only after the acknowledgement, and stops over a Bye.
WriterAfterAck ==
  \A c \in Conns : /\ handler[c] \in {"new", "hello", "registered", "ack"} => writer[c] = "off"
                   /\ writer[c] = "last" => inHand[c] \in Byes

UpIsNotTerminal == phase = "up" => ~terminal

\* A frame written past a queued stop is the last one: the next poll finds the stop.
StopNext ==
  \A c \in Conns :
    \/ behind[c] = 0
    \/ behind[c] = 1 /\ writer[c] = "top" /\ stopCh[c] # <<>>
    \/ behind[c] = 1 /\ writer[c] \in {"last", "done"}

\* "received" while a push is under way and while the writer has a frame in hand.
Unsettled(c) == IF sendMu[c] = NoOne THEN 0
                ELSE N(pushed[sendMu[c]]) - N(evicted[sendMu[c]])
Carried(c)   == N(writer[c] \in {"recheck", "write"})
Written(c)   == Len(wire[c])
Queued(c)    == Len(sendCh[c])
Kept ==
  \A c \in Conns :
    phase = "up" /\ writer[c] \notin {"last", "done"}
    => received[c] + Unsettled(c) = Written(c) + Queued(c) + Carried(c)

FeedInv ==
  /\ PushesItsKind /\ NumberedLast /\ OutcomeUnset /\ WriterAfterAck /\ UpIsNotTerminal
  /\ StopNext /\ Kept

LEMMA FeedInit == HubAssumption /\ Init => FeedInv
<1> SUFFICES ASSUME HubAssumption, Init PROVE FeedInv
  OBVIOUS
<1> USE DEF Init
<1>1. PushesItsKind /\ NumberedLast /\ OutcomeUnset
  BY DEF HubAssumption, PushesItsKind, NumberedLast, OutcomeUnset, Pushing, Actors
<1>2. WriterAfterAck /\ UpIsNotTerminal /\ StopNext
  BY DEF WriterAfterAck, UpIsNotTerminal, StopNext
<1>3. Kept
  BY DEF Kept, Unsettled, Carried, Written, Queued, N
<1> QED BY <1>1, <1>2, <1>3 DEF FeedInv

\* Only the goroutines that deliver, broadcast or stop touch what a push is made of.
Pushes == <<apc, frame, evicted, pushed, sendMu, seq, received>>

LEMMA ActorsPush ==
  ASSUME [Next]_vars
  PROVE  \/ \E a \in Callbacks, t \in Types : Deliver(a, t)
         \/ \E a \in Actors, c \in Conns : Push(a, c)
         \/ \E a \in Actors : Return(a)
         \/ \E ids \in SUBSET Subs : StopConsumers(ids)
         \/ StopAll \/ Broadcast
         \/ UNCHANGED Pushes
<1> USE DEF Pushes, chan, count, act
<1>1. CASE SourceRejected \/ CloseListener \/ ForceClose \/ UNCHANGED vars
  BY <1>1 DEF SourceRejected, CloseListener, ForceClose, vars
<1>2. ASSUME NEW a \in Actors, NEW c \in Conns, Signal(a, c) PROVE UNCHANGED Pushes
  BY <1>2 DEF Signal
<1>3. ASSUME NEW c \in Conns,
             Accept(c) \/ Register(c) \/ ConsumerBye(c) \/ PeerMoves(c) \/ PeerVanishes(c)
      PROVE  UNCHANGED Pushes
  BY <1>3 DEF Accept, Register, ConsumerBye, PeerMoves, PeerVanishes
<1>4. ASSUME NEW c \in Conns, Handler(c) PROVE UNCHANGED Pushes
  BY <1>4 DEF Handler, HelloFails, RefuseTerminal, NotTerminal, AckSent, AckFails, ReadFails,
              Unregister, CloseSend, Join
<1>5. ASSUME NEW c \in Conns, Writer(c) PROVE UNCHANGED Pushes
  BY <1>5 DEF Writer, TakeStop, NoStop, TakeFrame, TakeClosed, StillNoStop, WriteFrame,
              WriteFails, WriteLast
<1> QED BY <1>1, <1>2, <1>3, <1>4, <1>5 DEF Next, Shutdown

LEMMA PushesItsKindStep ==
  ASSUME TypeInv, FeedInv, HubAssumption, [Next]_vars
  PROVE  PushesItsKind'
<1> USE DEF TypeInv, TypeOK, ActType, FeedInv, PushesItsKind, Pushing
<1>0. Run \notin Callbacks /\ Rpc \notin Callbacks /\ Run # Rpc
      /\ Run \in Actors /\ Rpc \in Actors /\ Callbacks \subseteq Actors
  BY DEF HubAssumption, Actors
<1>1. ASSUME NEW a \in Callbacks, NEW t \in Types, Deliver(a, t) PROVE PushesItsKind'
  <2>1. Event(t, 0).kind = "event" /\ Event(t, 0).body = t
    BY DEF Event
  <2> QED BY <1>0, <1>1, <2>1 DEF Deliver
<1>2. ASSUME NEW a \in Actors, NEW c \in Conns, Push(a, c) PROVE PushesItsKind'
  <2>1. apc[a] \in {"visit"} \cup Pushing /\ a # Rpc
    BY <1>0, <1>2 DEF Push, SkipClosed, Lock, Try, Evict, Retry, Settle
  <2>2. \A b \in Actors \ {a} : apc'[b] = apc[b] /\ frame'[b] = frame[b]
    BY <1>2 DEF Push, SkipClosed, Lock, Try, Evict, Retry, Settle
  <2>3. CASE a \in Callbacks
    <3>1. frame'[a].kind = "event" /\ frame'[a].body = frame[a].body
      <4>1. CASE Lock(a, c)
        BY <4>1, <2>1, <2>3, <1>0 DEF Lock, Event
      <4> QED BY <1>2, <2>1, <2>3, <4>1 DEF Push, SkipClosed, Try, Evict, Retry, Settle
    <3> QED BY <1>0, <2>1, <2>2, <2>3, <3>1
  <2>4. CASE a = Run
    <3>1. frame[a] \in Byes /\ frame[a].kind = "bye"
      BY <2>1, <2>4, ByeIsFrame DEF Byes
    <3>2. frame'[a] = frame[a]
      BY <1>2, <3>1 DEF Push, SkipClosed, Lock, Try, Evict, Retry, Settle
    <3> QED BY <1>0, <2>2, <2>4, <3>1, <3>2
  <2> QED BY <2>1, <2>3, <2>4 DEF Actors
<1>3. ASSUME NEW a \in Actors, Return(a) PROVE PushesItsKind'
  BY <1>0, <1>3 DEF Return
<1>4. ASSUME NEW ids \in SUBSET Subs, StopConsumers(ids) PROVE PushesItsKind'
  BY <1>0, <1>4 DEF StopConsumers
<1>5. CASE StopAll \/ Broadcast
  BY <1>0, <1>5 DEF StopAll, Broadcast, Byes, Reasons
<1>6. CASE UNCHANGED Pushes
  BY <1>6 DEF Pushes
<1> QED BY <1>1, <1>2, <1>3, <1>4, <1>5, <1>6, ActorsPush

LEMMA OutcomeUnsetStep ==
  ASSUME TypeInv, LockInv, FeedInv, HubAssumption, [Next]_vars
  PROVE  OutcomeUnset'
<1> USE DEF TypeInv, TypeOK, ActType, FeedInv, OutcomeUnset
<1>1. ASSUME NEW a \in Callbacks, NEW t \in Types, Deliver(a, t) PROVE OutcomeUnset'
  BY <1>1 DEF Deliver, Actors
<1>2. ASSUME NEW a \in Actors, NEW c \in Conns, Push(a, c) PROVE OutcomeUnset'
  BY <1>2 DEF Push, SkipClosed, Lock, Try, Evict, Retry, Settle
<1>3. ASSUME NEW a \in Actors, Return(a) PROVE OutcomeUnset'
  BY <1>3 DEF Return
<1>4. ASSUME NEW ids \in SUBSET Subs, StopConsumers(ids) PROVE OutcomeUnset'
  BY <1>4 DEF StopConsumers, Actors
<1>5. CASE StopAll \/ Broadcast
  BY <1>5 DEF StopAll, Broadcast, LockInv, RunIdles, Actors
<1>6. CASE UNCHANGED Pushes
  BY <1>6 DEF Pushes
<1> QED BY <1>1, <1>2, <1>3, <1>4, <1>5, <1>6, ActorsPush

LEMMA NumberedLastStep ==
  ASSUME TypeInv, LockInv, FeedInv, HubAssumption, [Next]_vars
  PROVE  NumberedLast'
<1> USE DEF TypeInv, TypeOK, FeedInv, LockInv, HolderPushes, NumberedLast, Pushing
<1>0. Callbacks \subseteq Actors /\ NoOne \notin Actors
      /\ Run \notin Callbacks /\ Rpc \notin Callbacks
  BY DEF HubAssumption, Actors
<1>1. ASSUME NEW a \in Callbacks, NEW t \in Types, Deliver(a, t) PROVE NumberedLast'
  BY <1>0, <1>1 DEF Deliver, chan, ActType
<1>2. ASSUME NEW a \in Actors, NEW c \in Conns, Push(a, c) PROVE NumberedLast'
  <2>1. CASE Lock(a, c)
    <3> SUFFICES ASSUME NEW b \in Callbacks, NEW d \in Conns, sendMu'[d] = b
                 PROVE  frame'[b] = Event(frame'[b].body, seq'[d])
      OBVIOUS
    <3>1. CASE d = c
      <4>1. b = a
        BY <2>1, <3>1 DEF Lock, ChanType
      <4>2. frame[a].kind = "event"
        BY <2>1, <4>1 DEF Lock, PushesItsKind
      <4>3. frame'[a] = Event(frame[a].body, seq[c] + 1) /\ seq'[c] = seq[c] + 1
        BY <2>1, <4>2 DEF Lock, ChanType, ActType
      <4> QED BY <3>1, <4>1, <4>3 DEF Event
    <3>2. CASE d # c
      <4>1. sendMu[d] = b /\ b # a
        BY <2>1, <3>2, <1>0 DEF Lock, ChanType
      <4> QED BY <2>1, <3>2, <4>1, <1>0 DEF Lock, ChanType, ActType
    <3> QED BY <3>1, <3>2
  <2>2. CASE Settle(a, c)
    BY <1>0, <2>2 DEF Settle, ChanType
  <2> QED BY <1>2, <2>1, <2>2 DEF Push, SkipClosed, Try, Evict, Retry, chan
<1>3. ASSUME NEW a \in Actors, Return(a) PROVE NumberedLast'
  BY <1>0, <1>3 DEF Return, chan, ActType
<1>4. ASSUME NEW ids \in SUBSET Subs, StopConsumers(ids) PROVE NumberedLast'
  BY <1>0, <1>4 DEF StopConsumers, chan, ActType
<1>5. CASE StopAll \/ Broadcast
  BY <1>0, <1>5 DEF StopAll, Broadcast, chan, ActType
<1>6. CASE UNCHANGED Pushes
  BY <1>6 DEF Pushes
<1> QED BY <1>1, <1>2, <1>3, <1>4, <1>5, <1>6, ActorsPush

\* Only the handler, the writer and their peer touch a connection; a stop queued for it is
\* taken by its writer alone.
LEMMA ConnectionsMove ==
  ASSUME TypeInv, [Next]_vars
  PROVE  \/ \E c \in Conns : Handler(c) \/ Writer(c)
         \/ /\ UNCHANGED <<writer, inHand, wire, behind, terminal>>
            /\ \A c \in Conns : /\ stopCh[c] # <<>> => stopCh'[c] # <<>>
                                /\ handler'[c] \in {"new", "hello", "registered", "ack"}
                                     => handler[c] \in {"new", "hello", "registered", "ack"}
            /\ phase' = "up" => phase = "up"
         \/ SourceRejected
<1> USE DEF TypeInv, TypeOK, HubType, ConnType, conn, run, reg
<1>1. ASSUME NEW a \in Actors, NEW c \in Conns, Push(a, c)
      PROVE  UNCHANGED <<conn, run, reg>>
  BY <1>1 DEF Push, SkipClosed, Lock, Try, Evict, Retry, Settle
<1>2. ASSUME NEW a \in Actors, Return(a) PROVE UNCHANGED <<conn, run, reg>>
  BY <1>2 DEF Return
<1>3. ASSUME NEW a \in Callbacks, NEW t \in Types, Deliver(a, t) PROVE UNCHANGED <<conn, run, reg>>
  BY <1>3 DEF Deliver
<1>4. ASSUME NEW ids \in SUBSET Subs, StopConsumers(ids) PROVE UNCHANGED <<conn, run, reg>>
  BY <1>4 DEF StopConsumers
<1>5. ASSUME NEW a \in Actors, NEW c \in Conns, Signal(a, c)
      PROVE  /\ UNCHANGED <<conn, run>>
             /\ \A d \in Conns : stopCh[d] # <<>> => stopCh'[d] # <<>>
  BY <1>5 DEF Signal
<1>6. CASE StopAll \/ Broadcast \/ CloseListener
  BY <1>6 DEF StopAll, Broadcast, CloseListener
<1>7. CASE ForceClose
  BY <1>7 DEF ForceClose
<1>8. ASSUME NEW c \in Conns, Accept(c) \/ Register(c) \/ ConsumerBye(c)
      PROVE  /\ UNCHANGED <<writer, inHand, wire, behind, terminal, stopCh, phase>>
             /\ \A d \in Conns : handler'[d] \in {"new", "hello", "registered", "ack"}
                                   => handler[d] \in {"new", "hello", "registered", "ack"}
  BY <1>8 DEF Accept, Register, ConsumerBye, Goto
<1>9. ASSUME NEW c \in Conns, PeerMoves(c) \/ PeerVanishes(c)
      PROVE  UNCHANGED <<writer, inHand, wire, behind, terminal, stopCh, phase, handler>>
  BY <1>9 DEF PeerMoves, PeerVanishes
<1>10. CASE UNCHANGED vars
  BY <1>10 DEF vars
<1> QED BY <1>1, <1>2, <1>3, <1>4, <1>5, <1>6, <1>7, <1>8, <1>9, <1>10 DEF Next, Shutdown

LEMMA ConnectionStep ==
  ASSUME TypeInv, FeedInv, HubAssumption, [Next]_vars
  PROVE  WriterAfterAck' /\ UpIsNotTerminal' /\ StopNext'
<1> DEFINE Goal == WriterAfterAck' /\ UpIsNotTerminal' /\ StopNext'
<1> USE DEF TypeInv, TypeOK, HubType, ConnType, FeedInv, WriterAfterAck, UpIsNotTerminal, StopNext
<1>1. ASSUME NEW c \in Conns, Handler(c) PROVE Goal
  <2>1. CASE AckSent(c)
    BY <2>1 DEF AckSent, Goto, run, reg
  <2>2. CASE ~AckSent(c)
    <3>1. UNCHANGED <<writer, inHand, behind, phase, terminal, stopCh>>
      BY <1>1, <2>2 DEF Handler, HelloFails, RefuseTerminal, NotTerminal, AckFails, ReadFails,
                        Unregister, CloseSend, Join, run, reg
    <3>2. \A d \in Conns : handler'[d] \in {"new", "hello", "registered", "ack"}
                            => handler[d] \in {"new", "hello", "registered", "ack"}
      BY <1>1, <2>2 DEF Handler, HelloFails, RefuseTerminal, NotTerminal, AckFails, ReadFails,
                        Unregister, CloseSend, Join, Goto
    <3> QED BY <3>1, <3>2
  <2> QED BY <2>1, <2>2
<1>2. ASSUME NEW c \in Conns, Writer(c) PROVE Goal
  <2>0. UNCHANGED <<handler, phase, terminal>>
    BY <1>2 DEF Writer, TakeStop, NoStop, TakeFrame, TakeClosed, StillNoStop, WriteFrame,
                WriteFails, WriteLast, run
  <2>1. CASE TakeStop(c)
    <3>1. Bye(Head(stopCh[c])) \in Byes
      BY <2>1, StopReason DEF TakeStop, Byes
    <3> QED BY <2>0, <2>1, <3>1 DEF TakeStop
  <2>2. CASE NoStop(c) \/ StillNoStop(c)
    BY <2>0, <2>2, ZenonT(40) DEF NoStop, StillNoStop, NoStopQueued, reg
  <2>3. CASE TakeFrame(c) \/ TakeClosed(c) \/ WriteFails(c) \/ WriteLast(c)
    BY <2>0, <2>3, ZenonT(40) DEF TakeFrame, TakeClosed, WriteFails, WriteLast, reg
  <2>4. CASE WriteFrame(c)
    BY <2>0, <2>4 DEF WriteFrame, N, reg
  <2> QED BY <1>2, <2>1, <2>2, <2>3, <2>4 DEF Writer
<1>3. CASE SourceRejected
  BY <1>3 DEF SourceRejected, conn, reg
<1>4. ASSUME UNCHANGED <<writer, inHand, behind, terminal>>, phase' = "up" => phase = "up",
             \A c \in Conns : /\ stopCh[c] # <<>> => stopCh'[c] # <<>>
                              /\ handler'[c] \in {"new", "hello", "registered", "ack"}
                                   => handler[c] \in {"new", "hello", "registered", "ack"}
      PROVE  Goal
  BY <1>4
<1> HIDE DEF TypeInv, TypeOK, HubType, ConnType, FeedInv, WriterAfterAck, UpIsNotTerminal,
             StopNext
<1> QED BY <1>1, <1>2, <1>3, <1>4, ConnectionsMove

\* Both sides of the account: what is counted as received, and what was kept.
Booked(c) == received[c] + Unsettled(c)
Stocked(c) == Written(c) + Queued(c) + Carried(c)

LEMMA AccountTypes ==
  ASSUME TypeInv, NEW c \in Conns
  PROVE  /\ received[c] \in Int /\ Unsettled(c) \in Int
         /\ Written(c) \in Nat /\ Queued(c) \in Nat /\ Carried(c) \in Nat
BY DEF Written, Queued, TypeInv, TypeOK, CountType, ConnType, ChanType, Unsettled, Carried, N

\* A push books what it stocks: the outcome of each of its steps is owed to "received" until
\* the push is settled.
LEMMA PushKeeps ==
  ASSUME TypeInv, TypeInv', LockInv, FeedInv, HubAssumption, NEW a \in Actors, NEW c \in Conns,
         Push(a, c), phase = "up", NEW d \in Conns
  PROVE  Booked(d)' - Queued(d)' = Booked(d) - Queued(d)
<1> USE DEF Booked
<1>0. NoOne \notin Actors
  BY DEF HubAssumption
<1>1. /\ received[d] \in Int /\ Unsettled(d) \in Int /\ Queued(d) \in Int
      /\ received'[d] \in Int /\ Unsettled(d)' \in Int /\ Queued(d)' \in Int
  BY DEF Queued, TypeInv, TypeOK, CountType, ChanType, Unsettled, N
<1>2. CASE d # c
  <2>1. sendMu'[d] = sendMu[d] /\ sendCh'[d] = sendCh[d] /\ received'[d] = received[d]
    BY <1>2, ZenonT(40) DEF TypeInv, TypeOK, Push, SkipClosed, Lock, Try, Evict, Retry, Settle, Sent, chan,
                count, ChanType,
                CountType
  <2>2. \A b \in Actors \ {a} : pushed'[b] = pushed[b] /\ evicted'[b] = evicted[b]
    BY DEF TypeInv, TypeOK, Push, SkipClosed, Lock, Try, Evict, Retry, Settle, ActType
  <2>3. sendMu[d] # a \/ (pushed'[a] = pushed[a] /\ evicted'[a] = evicted[a])
    BY <1>2 DEF Push, SkipClosed, Lock, Try, Evict, Retry, Settle, LockInv, OneAtATime
  <2>4. sendMu[d] = NoOne \/ sendMu[d] \in Actors
    BY DEF TypeInv, TypeOK, ChanType
  <2>5. Unsettled(d)' = Unsettled(d)
    BY <2>1, <2>2, <2>3, <2>4 DEF Unsettled, N
  <2> QED BY <1>1, <2>1, <2>5 DEF Queued
<1>3. CASE d = c
  <2>1. CASE SkipClosed(a, c)
    <3>1. UNCHANGED <<received, sendMu, pushed, evicted, sendCh>>
      BY <2>1 DEF SkipClosed, chan, count
    <3>2. Unsettled(c)' = Unsettled(c)
      BY <3>1 DEF Unsettled
    <3> QED BY <1>1, <3>1, <3>2, <1>3 DEF Queued
  <2>2. CASE Lock(a, c)
    <3>1. UNCHANGED <<received, sendCh, pushed, evicted>> /\ sendMu[c] = NoOne /\ sendMu'[c] = a
      BY <2>2 DEF TypeInv, TypeOK, Lock, count, ChanType
    <3>2. ~pushed[a] /\ ~evicted[a]
      BY <2>2 DEF Lock, FeedInv, OutcomeUnset
    <3>3. Unsettled(c) = 0 /\ Unsettled(c)' = 0
      BY <1>0, <3>1, <3>2 DEF Unsettled, N
    <3> QED BY <1>1, <1>3, <3>1, <3>3 DEF Queued
  <2>3. CASE Try(a, c) \/ Retry(a, c)
    <3>1. /\ UNCHANGED <<received, sendMu, evicted>> /\ sendMu[c] = a /\ ~pushed[a]
          /\ pushed'[a] <=> Fits(c)
          /\ sendCh'[c] = IF Fits(c) THEN Append(sendCh[c], frame[a]) ELSE sendCh[c]
      BY <2>3 DEF TypeInv, TypeOK, FeedInv, OutcomeUnset, Try, Retry, count, ActType, ChanType, Sent
    <3>2. CASE Fits(c)
      <4>1. Unsettled(c)' = Unsettled(c) + 1
        BY <1>0, <3>1, <3>2 DEF Unsettled, N
      <4>2. Queued(c)' = Queued(c) + 1
        BY <3>1, <3>2 DEF Queued, TypeInv, TypeOK, ChanType, ActType
      <4> QED BY <1>1, <1>3, <3>1, <4>1, <4>2
    <3>3. CASE ~Fits(c)
      <4>1. Unsettled(c)' = Unsettled(c)
        BY <1>0, <3>1, <3>3 DEF Unsettled, N
      <4> QED BY <1>1, <1>3, <3>1, <3>3, <4>1 DEF Queued
    <3> QED BY <3>2, <3>3
  <2>4. CASE Evict(a, c)
    <3>1. /\ UNCHANGED <<received, sendMu, pushed>> /\ sendMu[c] = a /\ ~evicted[a]
          /\ evicted'[a] <=> sendCh[c] # <<>>
          /\ sendCh'[c] = IF sendCh[c] = <<>> THEN sendCh[c] ELSE Tail(sendCh[c])
      BY <2>4 DEF TypeInv, TypeOK, FeedInv, OutcomeUnset, Evict, count, ActType, ChanType
    <3>2. CASE sendCh[c] # <<>>
      <4>1. Unsettled(c)' = Unsettled(c) - 1
        BY <1>0, <3>1, <3>2 DEF Unsettled, N
      <4>2. Queued(c)' = Queued(c) - 1
        BY <3>1, <3>2, TailIsChannel DEF Queued, TypeInv, TypeOK
      <4> QED BY <1>1, <1>3, <3>1, <4>1, <4>2
    <3>3. CASE sendCh[c] = <<>>
      <4>1. Unsettled(c)' = Unsettled(c)
        BY <1>0, <3>1, <3>3 DEF Unsettled, N
      <4> QED BY <1>1, <1>3, <3>1, <3>3, <4>1 DEF Queued
    <3> QED BY <3>2, <3>3
  <2>5. CASE Settle(a, c)
    <3>1. a \in Callbacks
      BY <2>5 DEF FeedInv, Settle, PushesItsKind, LockInv, RunIdles, Actors
    <3>2. frame[a].kind = "event"
      BY <2>5, <3>1 DEF FeedInv, Settle, PushesItsKind, Pushing
    <3>3. /\ UNCHANGED sendCh /\ sendMu[c] = a /\ sendMu'[c] = NoOne
          /\ received'[c] = received[c] - N(evicted[a]) + N(pushed[a])
      BY <2>5, <3>2 DEF TypeInv, TypeOK, Settle, CountType, ChanType
    <3>4. received'[c] = received[c] + Unsettled(c) /\ Unsettled(c)' = 0
      BY <1>0, <1>1, <1>3, <3>3 DEF Unsettled, N
    <3> QED BY <1>1, <1>3, <3>3, <3>4 DEF Queued
  <2> QED BY <2>1, <2>2, <2>3, <2>4, <2>5 DEF Push
<1> QED BY <1>2, <1>3

LEMMA KeptStep ==
  ASSUME TypeInv, TypeInv', LockInv, FeedInv, HubAssumption, [Next]_vars
  PROVE  Kept'
<1> SUFFICES ASSUME phase' = "up", NEW c \in Conns, writer'[c] \notin {"last", "done"}
             PROVE  Booked(c)' = Stocked(c)'
  BY DEF Kept, Booked, Stocked
<1>a. writer[c] \notin {"last", "done"} /\ phase = "up" => Booked(c) = Stocked(c)
  BY DEF FeedInv, Kept, Booked, Stocked
<1>b. /\ received[c] \in Int /\ Unsettled(c) \in Int
      /\ Written(c) \in Nat /\ Queued(c) \in Nat /\ Carried(c) \in Nat
  BY AccountTypes
<1>c. Booked(c) \in Int /\ Booked(c)' \in Int /\ Queued(c)' \in Int
  BY <1>b DEF Queued, TypeInv, TypeOK, Booked, CountType, ChanType, Unsettled, N
<1>1. ASSUME UNCHANGED <<received, sendMu, pushed, evicted, sendCh, wire>>, phase = "up",
             writer[c] \notin {"last", "done"},
             writer'[c] \in {"recheck", "write"} <=> writer[c] \in {"recheck", "write"}
      PROVE  Booked(c)' = Stocked(c)'
  <2>1. Unsettled(c)' = Unsettled(c) /\ Carried(c)' = Carried(c)
    BY <1>1 DEF Unsettled, Carried, N
  <2> QED BY <1>a, <1>1, <2>1 DEF Booked, Stocked, Written, Queued
<1>2. ASSUME NEW a \in Actors, NEW d \in Conns, Push(a, d) PROVE Booked(c)' = Stocked(c)'
  <2>1. phase = "up" /\ writer[c] \notin {"last", "done"}
    BY <1>2 DEF Push, SkipClosed, Lock, Try, Evict, Retry, Settle, conn, run
  <2>2. Written(c)' = Written(c) /\ Carried(c)' = Carried(c)
    BY <1>2 DEF Written, Push, SkipClosed, Lock, Try, Evict, Retry, Settle, conn, Carried
  <2>3. Booked(c)' - Queued(c)' = Booked(c) - Queued(c)
    BY <1>2, <2>1, PushKeeps
  <2>4. Booked(c) = Stocked(c)
    BY <1>a, <2>1
  <2> QED BY <1>b, <1>c, <2>2, <2>3, <2>4, SMTT(40) DEF Stocked
<1>3. ASSUME NEW a \in Callbacks, NEW t \in Types, Deliver(a, t) PROVE Booked(c)' = Stocked(c)'
  BY <1>1, <1>3 DEF Deliver, chan, conn, run
<1>4. ASSUME NEW a \in Actors, NEW d \in Conns, Return(a) \/ Signal(a, d)
      PROVE  Booked(c)' = Stocked(c)'
  BY <1>1, <1>4 DEF Return, Signal, chan, count, conn, run
<1>5. ASSUME NEW ids \in SUBSET Subs, StopConsumers(ids) PROVE Booked(c)' = Stocked(c)'
  BY <1>1, <1>5 DEF StopConsumers, chan, count, conn, run
<1>6. CASE SourceRejected \/ StopAll \/ Broadcast \/ CloseListener \/ ForceClose
  BY <1>6 DEF SourceRejected, StopAll, Broadcast, CloseListener, ForceClose
<1>7. CASE UNCHANGED vars
  BY <1>1, <1>7 DEF vars, chan, count, act, conn, run
<1>8. ASSUME NEW d \in Conns,
             Accept(d) \/ Register(d) \/ ConsumerBye(d) \/ PeerMoves(d) \/ PeerVanishes(d)
      PROVE  Booked(c)' = Stocked(c)'
  BY <1>1, <1>8 DEF Accept, Register, ConsumerBye, PeerMoves, PeerVanishes, chan, count, act, run
<1>9. ASSUME NEW d \in Conns, Handler(d) PROVE Booked(c)' = Stocked(c)'
  <2>1. CASE RefuseTerminal(d)
    BY <2>1 DEF FeedInv, RefuseTerminal, UpIsNotTerminal, run
  <2>2. CASE AckSent(d)
    BY <1>1, <2>2 DEF TypeInv, TypeOK, FeedInv, AckSent, Goto, WriterAfterAck, chan, count,
                act, run, ConnType
  <2> QED BY <1>1, <1>9, <2>1, <2>2
          DEF Handler, HelloFails, NotTerminal, AckFails, ReadFails, Unregister, CloseSend, Join,
              chan, count, act, run
<1>10. ASSUME NEW d \in Conns, Writer(d) PROVE Booked(c)' = Stocked(c)'
  <2>0. UNCHANGED <<phase, received, sendMu, pushed, evicted>>
    BY <1>10 DEF Writer, TakeStop, NoStop, TakeFrame, TakeClosed, StillNoStop, WriteFrame,
                 WriteFails, WriteLast, chan, count, act, run
  <2>1. CASE d # c
    <3>1. sendCh'[c] = sendCh[c] /\ wire'[c] = wire[c] /\ writer'[c] = writer[c]
      BY <1>10, <2>1, SMTT(20) DEF TypeInv, TypeOK, ChanType, ConnType, Writer, TakeStop, NoStop, TakeFrame,
                         TakeClosed, StillNoStop, WriteFrame, WriteFails, WriteLast, chan
    <3>2. Unsettled(c)' = Unsettled(c) /\ Carried(c)' = Carried(c)
      BY <2>0, <3>1 DEF Unsettled, Carried, N
    <3> QED BY <1>a, <2>0, <3>1, <3>2 DEF Booked, Stocked, Written, Queued
  <2>2. CASE d = c /\ (TakeStop(c) \/ TakeClosed(c) \/ WriteFails(c) \/ WriteLast(c))
    BY <2>2 DEF TypeInv, TypeOK, TakeStop, TakeClosed, WriteFails, WriteLast, ConnType
  <2>3. CASE d = c /\ (NoStop(c) \/ StillNoStop(c))
    BY <1>1, <2>0, <2>3 DEF TypeInv, TypeOK, NoStop, StillNoStop, chan, ConnType
  <2>4. CASE d = c /\ TakeFrame(c)
    <3>1. /\ Queued(c)' = Queued(c) - 1 /\ Written(c)' = Written(c)
          /\ writer[c] = "select" /\ writer'[c] = "recheck"
      BY <2>4, TailIsChannel DEF Queued, Written, TypeInv, TypeOK, TakeFrame, ChanType, ConnType
    <3>2. Booked(c)' = Booked(c) /\ Carried(c)' = Carried(c) + 1
      BY <2>0, <3>1 DEF Booked, Unsettled, Carried, N
    <3> QED BY <1>a, <1>b, <1>c, <2>0, <3>1, <3>2 DEF Stocked
  <2>5. CASE d = c /\ WriteFrame(c)
    <3>1. /\ Written(c)' = Written(c) + 1 /\ Queued(c)' = Queued(c)
          /\ writer[c] = "write" /\ writer'[c] = "top"
      BY <2>5 DEF Queued, Written, TypeInv, TypeOK, WriteFrame, chan, ConnType
    <3>2. Booked(c)' = Booked(c) /\ Carried(c)' = Carried(c) - 1
      BY <2>0, <3>1 DEF Booked, Unsettled, Carried, N
    <3> QED BY <1>a, <1>b, <1>c, <2>0, <3>1, <3>2 DEF Stocked
  <2> QED BY <1>10, <2>1, <2>2, <2>3, <2>4, <2>5 DEF Writer
<1> QED BY <1>2, <1>3, <1>4, <1>5, <1>6, <1>7, <1>8, <1>9, <1>10 DEF Next, Shutdown

\* The hub's connections, whatever callbacks, stops, peers and a shutdown do together.
THEOREM FeedInvariant == Spec => [](TypeInv /\ LockInv /\ FeedInv)
<1>1. Init => TypeInv /\ LockInv /\ FeedInv
  BY HubAssumption, TypeInit, LockInit, FeedInit
<1>2. TypeInv /\ LockInv /\ FeedInv /\ [Next]_vars => (TypeInv /\ LockInv /\ FeedInv)'
  <2>1. ASSUME TypeInv, LockInv, FeedInv, [Next]_vars PROVE TypeInv' /\ LockInv'
    <3>1. TypeInv'
      BY <2>1, HubAssumption, TypeStep
    <3>2. LockInv'
      BY <2>1, HubAssumption, LockStep DEF TypeInv
    <3> QED BY <3>1, <3>2
  <2>2. ASSUME TypeInv, LockInv, FeedInv, [Next]_vars PROVE FeedInv'
    BY <2>1, <2>2, HubAssumption, PushesItsKindStep, NumberedLastStep, OutcomeUnsetStep,
       ConnectionStep, KeptStep DEF FeedInv
  <2> QED BY <2>1, <2>2
<1> QED BY <1>1, <1>2, PTL DEF Spec

\* A stop waits for one frame at most, however many are buffered (daemon.go:544-568).
THEOREM StopsJumpTheQueue == Spec => []StopJumpsQueue
<1>1. FeedInv => StopJumpsQueue
  BY DEF FeedInv, StopNext, StopJumpsQueue
<1> QED BY <1>1, FeedInvariant, PTL

\* "received" is what was written or is still queued: evictions, failed pushes and a
\* writer at work never make it drift (hub.go:280-330).
THEOREM ReceivedIsKept == Spec => []ReceivedMeansKept
<1>1. TypeInv /\ FeedInv => ReceivedMeansKept
  <2> SUFFICES ASSUME TypeInv, FeedInv, NEW c \in Conns, phase = "up", sendMu[c] = NoOne,
                      writer[c] \in {"off", "top", "select"}
               PROVE  received[c] = Written(c) + Queued(c)
    BY DEF ReceivedMeansKept, Written, Queued
  <2>1. received[c] + Unsettled(c) = Written(c) + Queued(c) + Carried(c)
    BY DEF FeedInv, Kept
  <2>2. Unsettled(c) = 0 /\ Carried(c) = 0
    BY DEF Unsettled, Carried, N
  <2>3. received[c] \in Int /\ Written(c) \in Nat /\ Queued(c) \in Nat
    BY AccountTypes
  <2> QED BY <2>1, <2>2, <2>3
<1> QED BY <1>1, FeedInvariant, PTL

-----------------------------------------------------------------------------
(* Sequences, as the refinement needs them: one frame in hand, the channel *)
(* behind it.                                                              *)

LEMMA OneThen ==
  ASSUME NEW f \in Frames, NEW s \in Seq(Frames)
  PROVE  /\ <<f>> \o s \in Seq(Frames) /\ <<f>> \o s # <<>>
         /\ Len(<<f>> \o s) = Len(s) + 1
         /\ Head(<<f>> \o s) = f /\ Tail(<<f>> \o s) = s
<1>1. <<f>> \in Seq(Frames) /\ Len(<<f>>) = 1
  OBVIOUS
<1>2. /\ <<f>> \o s \in Seq(Frames) /\ Len(<<f>> \o s) = Len(s) + 1
      /\ \A i \in 1..Len(s) + 1 : (<<f>> \o s)[i] = IF i <= 1 THEN f ELSE s[i - 1]
  BY <1>1, ConcatProperties
<1>3. <<f>> \o s # <<>>
  BY <1>2, LenProperties
<1>4. Head(<<f>> \o s) = f
  BY <1>2
<1>5. Tail(<<f>> \o s) = s
  <2>1. /\ Tail(<<f>> \o s) \in Seq(Frames) /\ Len(Tail(<<f>> \o s)) = Len(s)
        /\ \A i \in 1..Len(s) : Tail(<<f>> \o s)[i] = (<<f>> \o s)[i + 1]
    BY <1>2, <1>3, HeadTailProperties, LenProperties
  <2>2. \A i \in 1..Len(s) : Tail(<<f>> \o s)[i] = s[i]
    BY <1>2, <2>1, LenProperties
  <2> QED BY <2>1, <2>2, SeqEqual
<1> QED BY <1>2, <1>3, <1>4, <1>5

LEMMA HeadThenTail ==
  ASSUME NEW s \in Seq(Frames), s # <<>>
  PROVE  <<Head(s)>> \o Tail(s) = s
<1>1. /\ Head(s) \in Frames /\ Tail(s) \in Seq(Frames) /\ Len(Tail(s)) = Len(s) - 1
      /\ \A i \in 1..Len(Tail(s)) : Tail(s)[i] = s[i + 1]
  BY HeadTailProperties
<1>2. <<Head(s)>> \in Seq(Frames) /\ Len(<<Head(s)>>) = 1 /\ Len(s) \in Nat \ {0}
  BY <1>1, EmptySeq
<1>3. /\ <<Head(s)>> \o Tail(s) \in Seq(Frames) /\ Len(<<Head(s)>> \o Tail(s)) = Len(s)
      /\ \A i \in 1..Len(s) : (<<Head(s)>> \o Tail(s))[i]
                              = IF i <= 1 THEN Head(s) ELSE Tail(s)[i - 1]
  BY <1>1, <1>2, ConcatProperties
<1>4. \A i \in 1..Len(s) : (<<Head(s)>> \o Tail(s))[i] = s[i]
  BY <1>1, <1>2, <1>3
<1> QED BY <1>3, <1>4, SeqEqual

LEMMA AppendBehind ==
  ASSUME NEW h \in Seq(Frames), NEW s \in Seq(Frames), NEW f \in Frames
  PROVE  h \o Append(s, f) = Append(h \o s, f)
<1>1. Append(s, f) = s \o <<f>> /\ Append(h \o s, f) = (h \o s) \o <<f>>
  BY AppendIsConcat, ConcatProperties
<1>2. <<f>> \in Seq(Frames)
  OBVIOUS
<1> QED BY <1>1, <1>2, ConcatAssociative

LEMMA WithoutFirst ==
  ASSUME NEW s \in Seq(Frames), s # <<>>
  PROVE  1 \in DOMAIN s \cap {1, 2} /\ Feed!Without(s, 1) = Tail(s)
<1>1. /\ Tail(s) \in Seq(Frames) /\ Len(Tail(s)) = Len(s) - 1
      /\ \A i \in 1..Len(Tail(s)) : Tail(s)[i] = s[i + 1]
  BY HeadTailProperties
<1>2. Len(s) \in Nat \ {0} /\ DOMAIN s = 1..Len(s)
  BY EmptySeq, LenProperties
<1>3. Tail(s) = [i \in 1..Len(s) - 1 |-> Tail(s)[i]]
  BY <1>1, LenProperties
<1>4. \A i \in 1..Len(s) - 1 : Tail(s)[i] = IF i < 1 THEN s[i] ELSE s[i + 1]
  BY <1>1, <1>2
<1> QED BY <1>2, <1>3, <1>4 DEF Feed!Without

LEMMA WithoutSecond ==
  ASSUME NEW f \in Frames, NEW s \in Seq(Frames), s # <<>>
  PROVE  /\ 2 \in DOMAIN (<<f>> \o s) \cap {1, 2}
         /\ Feed!Without(<<f>> \o s, 2) = <<f>> \o Tail(s)
<1> DEFINE p == <<f>> \o s
           q == <<f>> \o Tail(s)
<1>1. /\ Tail(s) \in Seq(Frames) /\ Len(Tail(s)) = Len(s) - 1 /\ Len(s) \in Nat \ {0}
      /\ \A i \in 1..Len(s) - 1 : Tail(s)[i] = s[i + 1]
  BY HeadTailProperties, EmptySeq
<1>2. <<f>> \in Seq(Frames) /\ Len(<<f>>) = 1
  OBVIOUS
<1>3. /\ p \in Seq(Frames) /\ Len(p) = Len(s) + 1
      /\ \A i \in 1..Len(s) + 1 : p[i] = IF i <= 1 THEN f ELSE s[i - 1]
  BY <1>2, ConcatProperties
<1>4. /\ q \in Seq(Frames) /\ Len(q) = Len(s)
      /\ \A i \in 1..Len(s) : q[i] = IF i <= 1 THEN f ELSE Tail(s)[i - 1]
  BY <1>1, <1>2, ConcatProperties
<1> HIDE DEF p, q
<1>5. DOMAIN p = 1..Len(p)
  BY <1>3, LenProperties
<1>6. q = [i \in 1..Len(p) - 1 |-> q[i]]
  BY <1>1, <1>3, <1>4, LenProperties
<1>7. \A i \in 1..Len(p) - 1 : q[i] = IF i < 2 THEN p[i] ELSE p[i + 1]
  BY <1>1, <1>3, <1>4
<1>8. 2 \in DOMAIN p \cap {1, 2} /\ Feed!Without(p, 2) = q
  BY <1>1, <1>3, <1>5, <1>6, <1>7 DEF Feed!Without
<1> QED BY <1>8 DEF p, q

-----------------------------------------------------------------------------
(* The refinement, step by step.                                           *)

\* The mapping by name: what is being placed, whether a place was freed for it, what is
\* accepted and not yet delivered, whether the feed is over.
Due     == {frame[a] : a \in Placing}
Spent   == \E a \in Placing : apc[a] = "retry"
Pending == InWritersHand \o sendCh[Who]
Over    == phase # "up" \/ writer[Who] \in {"last", "done"}
HubInv  == HubAssumption /\ FeedAssumption /\ TypeInv /\ LockInv /\ FeedInv

Stutters == /\ seq'[Who] = seq[Who] /\ wire'[Who] = wire[Who]
            /\ Due' = Due /\ (Spent' <=> Spent) /\ Pending' = Pending /\ (Over' <=> Over)

LEMMA StutterForm == Stutters => UNCHANGED Feed!feed
BY DEF Stutters, Feed!feed, Due, Spent, Pending, Over

LEMMA OfferForm ==
  ASSUME NEW e \in Types, Due = {}, seq'[Who] = seq[Who] + 1,
         Due' = {Feed!Item(e, seq[Who] + 1)}, (Spent' <=> Spent), Pending' = Pending,
         wire'[Who] = wire[Who], (Over' <=> Over)
  PROVE  Feed!Next
BY DEF Feed!Next, Feed!Offer, Due, Spent, Pending, Over

LEMMA FreeForm ==
  ASSUME Due # {}, ~Spent, Spent', Pending' = Pending \/ Feed!GiveUpOldest,
         seq'[Who] = seq[Who], Due' = Due, wire'[Who] = wire[Who], (Over' <=> Over)
  PROVE  Feed!Next
BY DEF Feed!Next, Feed!FreeAPlace, Due, Spent, Pending, Over

LEMMA PlaceForm ==
  ASSUME Len(Pending) < Buf + 1, \E i \in Due : Pending' = Append(Pending, i), Due' = {}, ~Spent',
         seq'[Who] = seq[Who], wire'[Who] = wire[Who], (Over' <=> Over)
  PROVE  Feed!Next
BY DEF Feed!Next, Feed!Place, Due, Spent, Pending, Over

LEMMA DeliverForm ==
  ASSUME Pending # <<>>, wire'[Who] = Append(wire[Who], Head(Pending)), Pending' = Tail(Pending),
         seq'[Who] = seq[Who], Due' = Due, (Spent' <=> Spent), (Over' <=> Over)
  PROVE  Feed!Next
BY DEF Feed!Next, Feed!Deliver, Due, Spent, Pending, Over

LEMMA EndForm ==
  ASSUME ~Over, Over', Pending' = Pending \/ (Pending # <<>> /\ Pending' = Tail(Pending)),
         seq'[Who] = seq[Who], Due' = Due, (Spent' <=> Spent), wire'[Who] = wire[Who]
  PROVE  Feed!Next
BY DEF Feed!Next, Feed!End, Due, Spent, Pending, Over

LEMMA AbandonForm ==
  ASSUME Over, Over', Feed!GiveUpOldest,
         seq'[Who] = seq[Who], Due' = Due, (Spent' <=> Spent), wire'[Who] = wire[Who]
  PROVE  Feed!Next
BY DEF Feed!Next, Feed!Abandon, Due, Spent, Pending, Over

LEMMA FarewellForm ==
  ASSUME Over, Over', NEW f \in Reasons, seq'[Who] = seq[Who], Due' = Due, (Spent' <=> Spent),
         \/ Len(Pending) < Buf + 1 /\ Pending' = Append(Pending, Bye(f)) /\ wire'[Who] = wire[Who]
         \/ wire'[Who] = Append(wire[Who], Bye(f)) /\ Pending' = Pending
  PROVE  Feed!Next
BY DEF Feed!Next, Feed!SayFarewell, Feed!Farewell, Bye, Due, Spent, Pending, Over

LEMMA PendingType ==
  ASSUME HubInv
  PROVE  /\ Who \in Conns /\ InWritersHand \in Seq(Frames) /\ sendCh[Who] \in Seq(Frames)
         /\ inHand[Who] \in Frames /\ InWritersHand \in {<<>>, <<inHand[Who]>>}
         /\ Pending \in Seq(Frames) /\ Len(InWritersHand) \in {0, 1}
         /\ Len(Pending) = Len(InWritersHand) + Queued(Who) /\ Queued(Who) \in Nat
<1>1. Who \in Conns /\ sendCh[Who] \in Seq(Frames) /\ inHand[Who] \in Frames
  BY DEF HubInv, FeedAssumption, TypeInv, TypeOK, ChanType, ConnType
<1>2. InWritersHand \in Seq(Frames) /\ Len(InWritersHand) \in {0, 1}
  BY <1>1 DEF InWritersHand
<1>3. InWritersHand \in {<<>>, <<inHand[Who]>>}
  BY DEF InWritersHand
<1> QED BY <1>1, <1>2, <1>3, ConcatProperties, LenProperties DEF Pending, Queued

LEMMA ActorKinds ==
  ASSUME HubInv
  PROVE  Callbacks \subseteq Actors /\ Run \in Actors /\ Run \notin Callbacks /\ NoOne \notin Actors
         /\ Rpc \notin Callbacks
BY DEF HubInv, HubAssumption, Actors

\* What is being placed depends only on the holder of Who's sendMu.
LEMMA SamePlacing ==
  ASSUME HubInv, sendMu'[Who] = sendMu[Who],
         \A a \in Callbacks : sendMu[Who] = a => apc'[a] = apc[a] /\ frame'[a] = frame[a]
  PROVE  Due' = Due /\ (Spent' <=> Spent)
<1>1. Placing' = Placing
  BY DEF Placing
<1>2. \A a \in Placing : apc'[a] = apc[a] /\ frame'[a] = frame[a]
  BY DEF Placing
<1> QED BY <1>1, <1>2 DEF Due, Spent

\* An actor that starts, ends or signals holds no sendMu.
LEMMA QuietStep ==
  ASSUME HubInv, NEW b \in Actors, UNCHANGED <<chan, conn, phase>>,
         apc[b] \notin Pushing, \A a \in Actors \ {b} : apc'[a] = apc[a] /\ frame'[a] = frame[a]
  PROVE  Stutters
<1>1. sendMu[Who] # b
  BY PendingType DEF HubInv, LockInv, HolderPushes
<1>2. Due' = Due /\ (Spent' <=> Spent)
  BY <1>1, SamePlacing, ActorKinds DEF chan
<1>3. Pending' = Pending /\ (Over' <=> Over)
  BY DEF Pending, InWritersHand, Over, chan, conn
<1> QED BY <1>2, <1>3 DEF Stutters, chan, conn

LEMMA ElsewherePush ==
  ASSUME HubInv, NEW a \in Actors, NEW c \in Conns, c # Who, Push(a, c)
  PROVE  Stutters
<1>1. sendMu[Who] # a
  BY PendingType DEF HubInv, LockInv, HolderPushes, OneAtATime, Pushing, Push, SkipClosed, Lock,
                     Try, Evict, Retry, Settle
<1>2. /\ sendMu'[Who] = sendMu[Who] /\ seq'[Who] = seq[Who] /\ sendCh'[Who] = sendCh[Who]
      /\ \A b \in Actors \ {a} : apc'[b] = apc[b] /\ frame'[b] = frame[b]
  BY PendingType DEF HubInv, TypeInv, TypeOK, ChanType, ActType, Push, SkipClosed, Lock, Try, Evict,
                     Retry, Settle, Sent, chan
<1>3. UNCHANGED <<writer, inHand, wire, phase>>
  BY DEF Push, SkipClosed, Lock, Try, Evict, Retry, Settle, conn, run
<1>4. Due' = Due /\ (Spent' <=> Spent)
  BY <1>1, <1>2, SamePlacing, ActorKinds
<1>5. Pending' = Pending /\ (Over' <=> Over)
  BY <1>2, <1>3 DEF Pending, InWritersHand, Over
<1> QED BY <1>2, <1>3, <1>4, <1>5 DEF Stutters

\* Who's holder alone is placing.
LEMMA HolderPlaces ==
  ASSUME HubInv, NEW a \in Actors, sendMu[Who] = a
  PROVE  Placing = IF a \in Callbacks /\ apc[a] \in {"try", "evict", "retry"} THEN {a} ELSE {}
BY DEF Placing

\* Run pushes farewells, and only when the feed is over.
LEMMA RunSaysBye ==
  ASSUME HubInv, NEW a \in Actors, a \notin Callbacks, apc[a] \in {"visit"} \cup Pushing
  PROVE  Over /\ \E r \in Reasons : frame[a] = Bye(r)
<1>1. a = Run
  BY DEF HubInv, FeedInv, PushesItsKind, Actors, Pushing
<1>2. frame[Run] \in Byes
  BY <1>1 DEF HubInv, FeedInv, PushesItsKind
<1>3. phase # "up"
  BY <1>1 DEF HubInv, LockInv, RunIdles, Pushing
<1> QED BY <1>1, <1>2, <1>3 DEF Over, Byes

\* Taking sendMu numbers the event: it is offered.
LEMMA LockOffers ==
  ASSUME HubInv, NEW a \in Actors, Lock(a, Who)
  PROVE  Feed!Next \/ Stutters
<1>0. Who \in Conns
  BY PendingType
<1>1. /\ sendMu[Who] = NoOne /\ sendMu'[Who] = a /\ apc'[a] = "try"
      /\ UNCHANGED <<sendCh, writer, inHand, wire, phase>>
  BY <1>0 DEF Lock, conn, run, HubInv, TypeInv, TypeOK, ChanType, ActType
<1>2. Pending' = Pending /\ (Over' <=> Over) /\ wire'[Who] = wire[Who]
  BY <1>1 DEF Pending, InWritersHand, Over
<1>3. Placing = {} /\ Due = {} /\ ~Spent
  <2>1. Placing = {}
    BY <1>1, ActorKinds DEF Placing
  <2> QED BY <2>1 DEF Due, Spent
<1>4. CASE a \in Callbacks
  <2>1. frame[a].kind = "event" /\ frame[a].body \in Types
    BY <1>4 DEF Lock, HubInv, FeedInv, PushesItsKind
  <2>2. seq'[Who] = seq[Who] + 1 /\ frame'[a] = Event(frame[a].body, seq[Who] + 1)
    BY <1>0, <2>1 DEF Lock, HubInv, TypeInv, TypeOK, ChanType, ActType
  <2>3. Placing' = {a}
    BY <1>1, <1>4 DEF Placing
  <2>4. Due' = {Feed!Item(frame[a].body, seq[Who] + 1)} /\ ~Spent'
    BY <1>1, <2>2, <2>3 DEF Due, Spent, Feed!Item, Event
  <2> QED BY <1>2, <1>3, <2>1, <2>2, <2>4, OfferForm
<1>5. CASE a \notin Callbacks
  <2>1. frame[a].kind # "event"
    BY <1>5, RunSaysBye, ByeIsFrame DEF Lock
  <2>2. seq' = seq
    BY <2>1 DEF Lock
  <2>3. Placing' = {}
    BY <1>1, <1>5 DEF Placing
  <2>4. Due' = {} /\ ~Spent'
    BY <2>3 DEF Due, Spent
  <2> QED BY <1>2, <1>3, <2>2, <2>4 DEF Stutters
<1> QED BY <1>4, <1>5

\* A push that fits places the event, or adds the farewell.
LEMMA PushPlaces ==
  ASSUME HubInv, NEW a \in Actors, Try(a, Who) \/ Retry(a, Who)
  PROVE  Feed!Next \/ Stutters
<1>0. Who \in Conns
  BY PendingType
<1>1. /\ sendMu[Who] = a /\ sendMu'[Who] = a /\ apc[a] \in {"try", "retry"}
      /\ UNCHANGED <<seq, frame, writer, inHand, wire, phase>>
      /\ frame[a] \in Frames
  BY <1>0 DEF Try, Retry, conn, run, HubInv, TypeInv, TypeOK, ActType
<1>2. (Over' <=> Over) /\ seq'[Who] = seq[Who] /\ wire'[Who] = wire[Who]
      /\ InWritersHand' = InWritersHand
  BY <1>1 DEF InWritersHand, Over
<1>3. CASE Fits(Who)
  <2>1. sendCh'[Who] = Append(sendCh[Who], frame[a]) /\ apc'[a] = "settle"
    BY <1>0, <1>3 DEF Try, Retry, Sent, HubInv, TypeInv, TypeOK, ChanType, ActType
  <2>2. Pending' = Append(Pending, frame[a])
    BY <1>1, <1>2, <2>1, PendingType, AppendBehind, ZenonT(40) DEF Pending
  <2>3. Len(Pending) < Buf + 1
    <3>1. Queued(Who) < Buf /\ Buf \in Nat
      BY <1>3 DEF Fits, Queued, HubInv, HubAssumption
    <3>2. /\ Len(Pending) = Len(InWritersHand) + Queued(Who)
          /\ Len(InWritersHand) \in {0, 1} /\ Queued(Who) \in Nat
      BY PendingType
    <3>3. \A h, q \in Nat : h \in {0, 1} /\ q < Buf => h + q < Buf + 1
      BY <3>1
    <3>4. Len(InWritersHand) \in Nat
      BY <3>2
    <3>5. Len(InWritersHand) + Queued(Who) < Buf + 1
      BY <3>1, <3>2, <3>3, <3>4
    <3> QED BY <3>2, <3>5
  <2>4. Placing' = {} /\ Due' = {} /\ ~Spent'
    <3>1. Placing' = {}
      BY <1>1, <2>1 DEF Placing
    <3> QED BY <3>1 DEF Due, Spent
  <2>5. CASE a \in Callbacks
    <3>1. frame[a] \in Due
      BY <1>1, <2>5 DEF Due, Placing
    <3> QED BY <1>2, <2>2, <2>3, <2>4, <3>1, PlaceForm
  <2>6. CASE a \notin Callbacks
    <3>1. Over /\ \E r \in Reasons : frame[a] = Bye(r)
      BY <1>1, <2>6, RunSaysBye DEF Pushing
    <3>2. Due = {} /\ ~Spent
      BY <1>1, <2>6 DEF Due, Spent, Placing
    <3> QED BY <1>2, <2>2, <2>3, <2>4, <3>1, <3>2, FarewellForm
  <2> QED BY <2>5, <2>6
<1>4. CASE ~Fits(Who)
  <2>1. apc[a] = "try" /\ apc'[a] = "evict"
    BY <1>0, <1>1, <1>4 DEF Try, Retry, HubInv, LockInv, RetryHasRoom, TypeInv, TypeOK, ActType
  <2>2. sendCh' = sendCh
    BY <1>4 DEF Try, Retry, Sent
  <2>3. Placing' = Placing /\ Due' = Due
    <3>1. Placing' = Placing
      BY <1>1, <2>1 DEF Placing
    <3> QED BY <1>1, <3>1 DEF Due
  <2>4. ~Spent /\ ~Spent'
    BY <1>1, <2>1 DEF Spent, Placing
  <2> QED BY <1>2, <2>2, <2>3, <2>4 DEF Stutters, Pending
<1> QED BY <1>3, <1>4

\* What is lost is the oldest frame of the channel, or the one in the writer's hand.
LEMMA PopIsGivenUp ==
  ASSUME HubInv, sendCh[Who] # <<>>, sendCh'[Who] = Tail(sendCh[Who]),
         InWritersHand' = InWritersHand
  PROVE  Feed!GiveUpOldest
<1>1. Pending' = InWritersHand \o Tail(sendCh[Who])
  BY DEF Pending
<1>2. sendCh[Who] \in Seq(Frames) /\ Tail(sendCh[Who]) \in Seq(Frames)
  BY PendingType, HeadTailProperties
<1>3. \E i \in DOMAIN Pending \cap {1, 2} : Pending' = Feed!Without(Pending, i)
  <2>1. CASE InWritersHand = <<>>
    <3>1. Pending = sendCh[Who] /\ Pending' = Tail(sendCh[Who])
      BY <1>1, <1>2, <2>1, ConcatEmptySeq DEF Pending
    <3> QED BY <1>2, <3>1, WithoutFirst
  <2>2. CASE InWritersHand = <<inHand[Who]>>
    <3>1. inHand[Who] \in Frames
      BY PendingType
    <3> QED BY <1>1, <1>2, <2>2, <3>1, WithoutSecond DEF Pending
  <2> QED BY <2>1, <2>2, PendingType
<1> QED BY <1>3 DEF Feed!GiveUpOldest, Pending

LEMMA HandIsGivenUp ==
  ASSUME HubInv, InWritersHand # <<>>, InWritersHand' = <<>>, sendCh'[Who] = sendCh[Who]
  PROVE  Pending # <<>> /\ Pending' = Tail(Pending) /\ Feed!GiveUpOldest
<1>1. /\ inHand[Who] \in Frames /\ sendCh[Who] \in Seq(Frames)
      /\ InWritersHand = <<inHand[Who]>>
  BY PendingType
<1>2. Pending = <<inHand[Who]>> \o sendCh[Who]
  BY <1>1 DEF Pending
<1>3. Pending' = sendCh[Who]
  BY <1>1, ConcatEmptySeq DEF Pending
<1>4. Pending # <<>> /\ Tail(Pending) = sendCh[Who] /\ Pending \in Seq(Frames)
  BY <1>1, <1>2, OneThen
<1>5. \E i \in DOMAIN Pending \cap {1, 2} : Pending' = Feed!Without(Pending, i)
  BY <1>3, <1>4, WithoutFirst
<1> QED BY <1>3, <1>4, <1>5 DEF Feed!GiveUpOldest, Pending

\* An eviction frees a place for the event, once; for a farewell it abandons a frame.
LEMMA EvictFrees ==
  ASSUME HubInv, NEW a \in Actors, Evict(a, Who)
  PROVE  Feed!Next \/ Stutters
<1>0. Who \in Conns
  BY PendingType
<1>1. /\ sendMu[Who] = a /\ sendMu'[Who] = a /\ apc[a] = "evict" /\ apc'[a] = "retry"
      /\ UNCHANGED <<seq, frame, writer, inHand, wire, phase>>
  BY <1>0 DEF Evict, conn, run, HubInv, TypeInv, TypeOK, ActType
<1>2. (Over' <=> Over) /\ seq'[Who] = seq[Who] /\ wire'[Who] = wire[Who]
      /\ InWritersHand' = InWritersHand
  BY <1>1 DEF InWritersHand, Over
<1>3. Placing' = Placing /\ Due' = Due
  <2>1. Placing' = Placing
    BY <1>1 DEF Placing
  <2> QED BY <1>1, <2>1 DEF Due
<1>4. sendCh'[Who] = IF sendCh[Who] = <<>> THEN sendCh[Who] ELSE Tail(sendCh[Who])
  BY <1>0 DEF Evict, HubInv, TypeInv, TypeOK, ChanType
<1>5. Pending' = Pending \/ Feed!GiveUpOldest
  BY <1>2, <1>4, PopIsGivenUp DEF Pending
<1>6. CASE a \in Callbacks
  <2>1. Due # {} /\ ~Spent /\ Spent'
    BY <1>1, <1>6 DEF Due, Spent, Placing
  <2> QED BY <1>2, <1>3, <1>5, <2>1, FreeForm
<1>7. CASE a \notin Callbacks
  <2>1. Over
    BY <1>1, <1>7, RunSaysBye DEF Pushing
  <2>2. ~Spent /\ ~Spent'
    BY <1>1, <1>7 DEF Spent, Placing
  <2> QED BY <1>2, <1>3, <1>5, <2>1, <2>2, AbandonForm DEF Stutters
<1> QED BY <1>6, <1>7

\* Settling and skipping a closed consumer place nothing.
LEMMA SettleStutters ==
  ASSUME HubInv, NEW a \in Actors, Settle(a, Who) \/ SkipClosed(a, Who)
  PROVE  Stutters
<1>0. Who \in Conns
  BY PendingType
<1>1. UNCHANGED <<sendCh, seq, frame, writer, inHand, wire, phase>>
  BY DEF Settle, SkipClosed, chan, conn, run
<1>2. Pending' = Pending /\ (Over' <=> Over) /\ seq'[Who] = seq[Who] /\ wire'[Who] = wire[Who]
  BY <1>1 DEF Pending, InWritersHand, Over
<1>3. Placing = {} /\ Placing' = {}
  <2>1. CASE Settle(a, Who)
    BY <1>0, <2>1, ActorKinds DEF Settle, Placing, HubInv, TypeInv, TypeOK, ChanType
  <2>2. CASE SkipClosed(a, Who)
    BY <2>2, ActorKinds DEF SkipClosed, Placing, chan
  <2> QED BY <2>1, <2>2
<1>4. Due' = Due /\ (Spent' <=> Spent)
  BY <1>3 DEF Due, Spent
<1> QED BY <1>2, <1>4 DEF Stutters

LEMMA PushRefines ==
  ASSUME HubInv, NEW a \in Actors, NEW c \in Conns, Push(a, c)
  PROVE  Feed!Next \/ Stutters
BY ElsewherePush, LockOffers, PushPlaces, EvictFrees, SettleStutters DEF Push

\* The goroutines that only set out, come back or signal.
LEMMA ActorStutters ==
  ASSUME HubInv,
         \/ \E a \in Callbacks, t \in Types : Deliver(a, t)
         \/ \E a \in Actors, c \in Conns : Signal(a, c)
         \/ \E a \in Actors : Return(a)
         \/ \E ids \in SUBSET Subs : StopConsumers(ids)
  PROVE  Stutters
<1> USE DEF HubInv, TypeInv, TypeOK, ActType, Pushing, run
<1>1. ASSUME NEW a \in Callbacks, NEW t \in Types, Deliver(a, t) PROVE Stutters
  BY <1>1, QuietStep, ActorKinds DEF Deliver
<1>2. ASSUME NEW a \in Actors, NEW c \in Conns, Signal(a, c) PROVE Stutters
  BY <1>2, QuietStep DEF Signal
<1>3. ASSUME NEW a \in Actors, Return(a) PROVE Stutters
  BY <1>3, QuietStep DEF Return
<1>4. ASSUME NEW ids \in SUBSET Subs, StopConsumers(ids) PROVE Stutters
  <2>1. Rpc \in Actors
    BY DEF Actors
  <2> QED BY <1>4, <2>1, QuietStep DEF StopConsumers
<1> QED BY <1>1, <1>2, <1>3, <1>4

\* Leaving "up" ends the feed, once.
LEMMA ShutdownRefines ==
  ASSUME HubInv, SourceRejected \/ Broadcast \/ Shutdown
  PROVE  Feed!Next \/ Stutters
<1>1. UNCHANGED <<chan, writer, inHand, wire>> /\ phase' # "up"
  BY DEF SourceRejected, Broadcast, Shutdown, StopAll, CloseListener, ForceClose, conn
<1>2. \A a \in Callbacks : apc'[a] = apc[a] /\ frame'[a] = frame[a]
  BY ActorKinds DEF SourceRejected, Broadcast, Shutdown, StopAll, CloseListener, ForceClose, act,
                    HubInv, TypeInv, TypeOK, ActType
<1>3. Due' = Due /\ (Spent' <=> Spent)
  BY <1>1, <1>2, SamePlacing DEF chan
<1>4. Pending' = Pending /\ Over' /\ seq'[Who] = seq[Who] /\ wire'[Who] = wire[Who]
  BY <1>1 DEF Pending, InWritersHand, Over, chan
<1>5. CASE Over
  BY <1>3, <1>4, <1>5 DEF Stutters
<1>6. CASE ~Over
  BY <1>3, <1>4, <1>6, EndForm
<1> QED BY <1>5, <1>6

\* A step of no actor leaves what is being placed alone.
LEMMA SameActors ==
  ASSUME HubInv, UNCHANGED <<apc, frame, sendMu, seq>>
  PROVE  Due' = Due /\ (Spent' <=> Spent) /\ seq'[Who] = seq[Who]
BY SamePlacing

\* Another connection's handler or writer, and any peer, do not touch Who's feed.
LEMMA OthersStutter ==
  ASSUME HubInv, NEW c \in Conns,
         \/ Accept(c) \/ Register(c) \/ ConsumerBye(c) \/ PeerMoves(c) \/ PeerVanishes(c)
         \/ c # Who /\ (Handler(c) \/ Writer(c))
  PROVE  Stutters
<1> USE DEF chan, act, run, conn
<1>1. UNCHANGED <<apc, frame, sendMu, seq, phase>>
  <2>1. CASE Accept(c) \/ Register(c) \/ ConsumerBye(c) \/ PeerMoves(c) \/ PeerVanishes(c)
    BY <2>1 DEF Accept, Register, ConsumerBye, PeerMoves, PeerVanishes
  <2>2. CASE Handler(c)
    BY <2>2 DEF Handler, HelloFails, RefuseTerminal, NotTerminal, AckSent, AckFails, ReadFails,
                Unregister, CloseSend, Join
  <2>3. CASE Writer(c)
    BY <2>3 DEF Writer, TakeStop, NoStop, TakeFrame, TakeClosed, StillNoStop, WriteFrame,
                WriteFails, WriteLast
  <2> QED BY <2>1, <2>2, <2>3
<1>2. /\ sendCh'[Who] = sendCh[Who] /\ writer'[Who] = writer[Who]
      /\ inHand'[Who] = inHand[Who] /\ wire'[Who] = wire[Who]
  <2> USE PendingType DEF HubInv, TypeInv, TypeOK, ChanType, ConnType
  <2>1. CASE Accept(c) \/ Register(c) \/ ConsumerBye(c) \/ PeerMoves(c) \/ PeerVanishes(c)
    BY <2>1 DEF Accept, Register, ConsumerBye, PeerMoves, PeerVanishes
  <2>2. CASE c # Who /\ Handler(c)
    BY <2>2 DEF Handler, HelloFails, RefuseTerminal, NotTerminal, AckSent, AckFails, ReadFails,
                Unregister, CloseSend, Join
  <2>3. CASE c # Who /\ Writer(c)
    BY <2>3 DEF Writer, TakeStop, NoStop, TakeFrame, TakeClosed, StillNoStop, WriteFrame,
                WriteFails, WriteLast
  <2> QED BY <2>1, <2>2, <2>3
<1>3. Pending' = Pending /\ (Over' <=> Over)
  BY <1>1, <1>2 DEF Pending, InWritersHand, Over
<1> QED BY <1>1, <1>2, <1>3, SameActors DEF Stutters

\* Who's handler only refuses it a feed that is over already.
LEMMA HandlerRefines ==
  ASSUME HubInv, Handler(Who)
  PROVE  Feed!Next \/ Stutters
<1>0. Who \in Conns
  BY PendingType
<1>1. UNCHANGED <<apc, frame, sendMu, seq, phase, sendCh, inHand>>
  BY DEF Handler, HelloFails, RefuseTerminal, NotTerminal, AckSent, AckFails, ReadFails,
         Unregister, CloseSend, Join, chan, act, run
<1>2. Due' = Due /\ (Spent' <=> Spent) /\ seq'[Who] = seq[Who]
  BY <1>1, SameActors
<1>3. CASE RefuseTerminal(Who)
  <2>1. writer' = writer /\ Over
    BY <1>3 DEF RefuseTerminal, HubInv, FeedInv, UpIsNotTerminal, Over
  <2>2. Pending' = Pending /\ Over'
    BY <1>1, <2>1 DEF Pending, InWritersHand, Over
  <2>3. wire'[Who] = IF Broken(Who) THEN wire[Who] ELSE Append(wire[Who], Bye(Rejected))
    BY <1>0, <1>3 DEF RefuseTerminal, HubInv, TypeInv, TypeOK, ConnType
  <2>4. Rejected \in Reasons
    BY DEF Rejected, Reasons
  <2> QED BY <1>2, <2>1, <2>2, <2>3, <2>4, FarewellForm DEF Stutters
<1>4. CASE AckSent(Who)
  <2>1. writer[Who] = "off" /\ writer'[Who] = "top" /\ wire' = wire
    BY <1>0, <1>4 DEF AckSent, Goto, HubInv, FeedInv, WriterAfterAck, TypeInv, TypeOK, ConnType
  <2>2. Pending' = Pending /\ (Over' <=> Over)
    BY <1>1, <2>1 DEF Pending, InWritersHand, Over
  <2> QED BY <1>2, <2>1, <2>2 DEF Stutters
<1>5. CASE ~RefuseTerminal(Who) /\ ~AckSent(Who)
  <2>1. UNCHANGED <<writer, wire>>
    BY <1>5 DEF Handler, HelloFails, NotTerminal, AckFails, ReadFails, Unregister, CloseSend, Join
  <2>2. Pending' = Pending /\ (Over' <=> Over)
    BY <1>1, <2>1 DEF Pending, InWritersHand, Over
  <2> QED BY <1>2, <2>1, <2>2 DEF Stutters
<1> QED BY <1>3, <1>4, <1>5

\* A writer that stops ends the feed, and may take the frame in its hand with it.
LEMMA WriterEnds ==
  ASSUME HubInv, Due' = Due, (Spent' <=> Spent), seq'[Who] = seq[Who], wire'[Who] = wire[Who],
         Over', sendCh'[Who] = sendCh[Who], InWritersHand' = <<>>
  PROVE  Feed!Next \/ Stutters
<1>1. CASE InWritersHand = <<>>
  <2>1. Pending' = Pending
    BY <1>1 DEF Pending
  <2> QED BY <2>1, EndForm DEF Stutters
<1>2. CASE InWritersHand # <<>>
  <2>1. Pending # <<>> /\ Pending' = Tail(Pending) /\ Feed!GiveUpOldest
    BY <1>2, HandIsGivenUp
  <2> QED BY <2>1, EndForm, AbandonForm
<1> QED BY <1>1, <1>2

\* Who's writer moves a frame from the channel to its hand and from there to the wire.
LEMMA WriterRefines ==
  ASSUME HubInv, Writer(Who)
  PROVE  Feed!Next \/ Stutters
<1>0. Who \in Conns
  BY PendingType
<1>1. UNCHANGED <<apc, frame, sendMu, seq, phase>>
  BY DEF Writer, TakeStop, NoStop, TakeFrame, TakeClosed, StillNoStop, WriteFrame, WriteFails,
         WriteLast, chan, act, run
<1>2. Due' = Due /\ (Spent' <=> Spent) /\ seq'[Who] = seq[Who]
  BY <1>1, SameActors
<1> USE DEF HubInv, TypeInv, TypeOK, ChanType, ConnType, chan
<1>3. CASE TakeStop(Who) \/ TakeClosed(Who) \/ WriteFails(Who)
  <2>1. /\ wire'[Who] = wire[Who] /\ sendCh'[Who] = sendCh[Who]
        /\ writer'[Who] \in {"last", "done"}
    BY <1>0, <1>3 DEF TakeStop, TakeClosed, WriteFails
  <2>2. Over' /\ InWritersHand' = <<>>
    BY <2>1 DEF Over, InWritersHand
  <2> QED BY <1>2, <2>1, <2>2, WriterEnds
<1>4. CASE NoStop(Who) \/ StillNoStop(Who)
  <2>1. /\ UNCHANGED <<wire, sendCh, inHand>>
        /\ \/ writer[Who] = "top" /\ writer'[Who] = "select"
           \/ writer[Who] = "recheck" /\ writer'[Who] = "write"
    BY <1>0, <1>4 DEF NoStop, StillNoStop
  <2>2. Pending' = Pending /\ (Over' <=> Over)
    BY <1>1, <2>1 DEF Pending, InWritersHand, Over
  <2> QED BY <1>2, <2>1, <2>2 DEF Stutters
<1>5. CASE TakeFrame(Who)
  <2>1. /\ writer[Who] = "select" /\ writer'[Who] = "recheck" /\ sendCh[Who] # <<>>
        /\ sendCh'[Who] = Tail(sendCh[Who]) /\ inHand'[Who] = Head(sendCh[Who])
        /\ wire'[Who] = wire[Who]
    BY <1>0, <1>5 DEF TakeFrame
  <2>2. InWritersHand = <<>> /\ InWritersHand' = <<Head(sendCh[Who])>>
    BY <2>1 DEF InWritersHand
  <2>3. Pending = sendCh[Who]
    BY <2>2, PendingType, ConcatEmptySeq DEF Pending
  <2>4. Pending' = <<Head(sendCh[Who])>> \o Tail(sendCh[Who])
    BY <2>1, <2>2 DEF Pending
  <2>5. Pending' = Pending
    BY <2>1, <2>3, <2>4, PendingType, HeadThenTail
  <2>6. Over' <=> Over
    BY <1>1, <2>1 DEF Over
  <2> QED BY <1>2, <2>1, <2>5, <2>6 DEF Stutters
<1>6. CASE WriteFrame(Who)
  <2>1. /\ writer[Who] = "write" /\ writer'[Who] = "top" /\ sendCh'[Who] = sendCh[Who]
        /\ wire'[Who] = Append(wire[Who], inHand[Who])
    BY <1>0, <1>6 DEF WriteFrame
  <2>2. InWritersHand = <<inHand[Who]>> /\ InWritersHand' = <<>>
    BY <2>1 DEF InWritersHand
  <2>3. Pending # <<>> /\ Head(Pending) = inHand[Who]
    BY <2>2, PendingType, OneThen DEF Pending
  <2>4. Pending' = Tail(Pending)
    BY <2>1, <2>2, HandIsGivenUp
  <2>5. Over' <=> Over
    BY <1>1, <2>1 DEF Over
  <2> QED BY <1>2, <2>1, <2>3, <2>4, <2>5, DeliverForm
<1>7. CASE WriteLast(Who)
  <2>1. /\ writer[Who] = "last" /\ writer'[Who] = "done" /\ sendCh'[Who] = sendCh[Who]
        /\ wire'[Who] = IF Broken(Who) THEN wire[Who] ELSE Append(wire[Who], inHand[Who])
    BY <1>0, <1>7 DEF WriteLast
  <2>2. \E r \in Reasons : inHand[Who] = Bye(r)
    BY <1>0, <2>1 DEF FeedInv, WriterAfterAck, Byes
  <2>3. Over /\ Over' /\ Pending' = Pending
    BY <2>1 DEF Over, Pending, InWritersHand
  <2> QED BY <1>2, <2>1, <2>2, <2>3, FarewellForm DEF Stutters
<1> QED BY <1>3, <1>4, <1>5, <1>6, <1>7 DEF Writer

LEMMA FeedInitial == HubInv /\ Init => Feed!Init
<1> SUFFICES ASSUME HubInv, Init PROVE Feed!Init
  OBVIOUS
<1>1. Who \in Conns
  BY PendingType
<1>2. /\ seq[Who] = 0 /\ wire[Who] = <<>> /\ sendCh[Who] = <<>> /\ writer[Who] = "off"
      /\ \A a \in Callbacks : apc[a] = "idle"
  BY <1>1 DEF Init, Actors
<1>3. Placing = {}
  BY <1>2 DEF Placing
<1>4. InWritersHand \o sendCh[Who] = <<>>
  BY <1>2, PendingType, ConcatEmptySeq DEF InWritersHand
<1> QED BY <1>2, <1>3, <1>4 DEF Feed!Init

LEMMA FeedStep ==
  ASSUME HubInv, [Next]_vars
  PROVE  [Feed!Next]_Feed!feed
<1>1. CASE UNCHANGED vars
  <2>1. UNCHANGED <<apc, frame, sendMu, seq, phase, sendCh, inHand, writer, wire>>
    BY <1>1 DEF vars, chan, act, run, conn
  <2>2. Pending' = Pending /\ (Over' <=> Over)
    BY <2>1 DEF Pending, InWritersHand, Over
  <2> QED BY <2>1, <2>2, SameActors, StutterForm DEF Stutters
<1>2. ASSUME NEW c \in Conns,
             \/ Accept(c) \/ Register(c) \/ Handler(c) \/ ConsumerBye(c) \/ Writer(c)
             \/ PeerMoves(c) \/ PeerVanishes(c)
      PROVE  Feed!Next \/ Stutters
  BY <1>2, OthersStutter, HandlerRefines, WriterRefines
<1>3. CASE Next
  BY <1>2, <1>3, ActorStutters, PushRefines, ShutdownRefines, StutterForm DEF Next
<1> QED BY <1>1, <1>3

\* Every connection's feed is a lossy queue, whatever the number of connections, callbacks
\* and events and the size of the channels (hub.go:333-385, daemon.go:534-594): the contract
\* of bus/doc.go, LossyFifo, is implemented step by step.
THEOREM HubIsLossyFifo == Spec => FeedIsLossyFifo
<1>1. Init /\ TypeInv /\ LockInv /\ FeedInv => Feed!Init
  BY HubAssumption, FeedAssumption, FeedInitial DEF HubInv
<1>2. TypeInv /\ LockInv /\ FeedInv /\ [Next]_vars => [Feed!Next]_Feed!feed
  BY HubAssumption, FeedAssumption, FeedStep DEF HubInv
<1> QED BY <1>1, <1>2, FeedInvariant, PTL DEF Spec, FeedIsLossyFifo, Feed!Spec
=============================================================================
