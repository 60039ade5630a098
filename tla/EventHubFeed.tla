---------------------------- MODULE EventHubFeed ----------------------------
(***************************************************************************)
(* The hub, its callbacks and one connection's writer together implement   *)
(* LossyFifo for that connection's consumer.                               *)
(***************************************************************************)
EXTENDS EventHub

CONSTANT Who   \* the connection whose feed is watched: any of Conns

ASSUME FeedAssumption == Who \in Conns

\* The callback that is placing an event in Who's channel.
Placing == {a \in Callbacks : sendMu[Who] = a /\ apc[a] \in {"try", "evict", "retry"}}

\* Accepted and not on the wire: in the writer's hand, then in the channel.
InWritersHand ==
  IF writer[Who] \in {"recheck", "write"} THEN <<inHand[Who]>> ELSE <<>>

Feed == INSTANCE LossyFifo WITH
  Events    <- Types,
  Farewells <- Reasons,
  Cap       <- Buf + 1,
  offered   <- seq[Who],
  due       <- {frame[a] : a \in Placing},
  spent     <- \E a \in Placing : apc[a] = "retry",
  pending   <- InWritersHand \o sendCh[Who],
  delivered <- wire[Who],
  over      <- phase # "up" \/ writer[Who] \in {"last", "done"}

\* Concurrent callbacks, evictions, a writer that is stopped and a shutdown together
\* give Who a lossy queue: an event is given up only to place a newer one, at most one
\* for each, and the newer one is always placed; none is reordered or repeated
\* (hub.go:333-385, daemon.go:534-594).
FeedIsLossyFifo == Feed!Spec
=============================================================================
