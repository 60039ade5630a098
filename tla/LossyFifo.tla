----------------------------- MODULE LossyFifo ------------------------------
(***************************************************************************)
(* What the hub promises to one consumer (hub.go:280-330, the drop-oldest  *)
(* contract of bus/doc.go): a bounded queue of numbered events that makes  *)
(* room for a new event by giving up an old one, never by refusing the new *)
(* one, and neither reorders nor repeats.  While an event is being placed  *)
(* at most one older event is given up for it; with no event to place      *)
(* nothing is lost, until the feed is over (shutdown, or the writer is     *)
(* done): then the rest may be abandoned and farewells may be added.       *)
(***************************************************************************)
EXTENDS Naturals, Sequences

CONSTANTS
  Events, Farewells,  \* what an event and a farewell may say
  Cap                 \* places for items not yet delivered

VARIABLES
  offered,    \* events offered so far; an event carries its number
  due,        \* the event being placed, if any
  spent,      \* whether a place has been freed for it already
  pending,    \* accepted, not yet delivered
  delivered,  \* what the consumer has been sent
  over        \* nothing is promised any more but the order

feed == <<offered, due, spent, pending, delivered, over>>

Item(e, n)  == [kind |-> "event", body |-> e, seq |-> n]
Farewell(f) == [kind |-> "bye", body |-> f, seq |-> 0]
Without(s, i) == [j \in 1..(Len(s) - 1) |-> IF j < i THEN s[j] ELSE s[j + 1]]

Init ==
  /\ offered = 0 /\ due = {} /\ spent = FALSE
  /\ pending = <<>> /\ delivered = <<>> /\ over \in BOOLEAN

Offer(e) ==
  /\ due = {}
  /\ offered' = offered + 1
  /\ due' = {Item(e, offered + 1)}
  /\ UNCHANGED <<spent, pending, delivered, over>>

\* The oldest item goes, or the next one when the oldest is being written already.
GiveUpOldest ==
  \E i \in DOMAIN pending \cap {1, 2} : pending' = Without(pending, i)

FreeAPlace ==
  /\ due # {} /\ ~spent
  /\ spent' = TRUE
  /\ pending' = pending \/ GiveUpOldest
  /\ UNCHANGED <<offered, due, delivered, over>>

Place ==
  /\ Len(pending) < Cap
  /\ \E i \in due : pending' = Append(pending, i)
  /\ due' = {} /\ spent' = FALSE
  /\ UNCHANGED <<offered, delivered, over>>

Deliver ==
  /\ pending # <<>>
  /\ delivered' = Append(delivered, Head(pending))
  /\ pending' = Tail(pending)
  /\ UNCHANGED <<offered, due, spent, over>>

\* The feed is over; an item in the writer's hands may go with it.
End ==
  /\ ~over /\ over' = TRUE
  /\ pending' \in {pending} \cup {Tail(p) : p \in {pending} \ {<<>>}}
  /\ UNCHANGED <<offered, due, spent, delivered>>

Abandon ==
  /\ over /\ GiveUpOldest
  /\ UNCHANGED <<offered, due, spent, delivered, over>>

SayFarewell ==
  /\ over
  /\ \E f \in Farewells :
       \/ Len(pending) < Cap /\ pending' = Append(pending, Farewell(f)) /\ delivered' = delivered
       \/ delivered' = Append(delivered, Farewell(f)) /\ pending' = pending
  /\ UNCHANGED <<offered, due, spent, over>>

Next ==
  \/ \E e \in Events : Offer(e)
  \/ FreeAPlace \/ Place \/ Deliver \/ End \/ Abandon \/ SayFarewell

Spec == Init /\ [][Next]_feed
=============================================================================
