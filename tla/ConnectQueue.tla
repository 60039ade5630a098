--------------------------- MODULE ConnectQueue ---------------------------
(* The inbound side of the robot connector (src/internal/helpers): the       *)
(* stream callback drops redelivered messages (msgDedup), acknowledges at    *)
(* once and submits the turn to a queue that runs one turn at a time per     *)
(* conversation and batches what arrives meanwhile (convQueue).  What a      *)
(* batch does is left to the module ConnectApproval.                         *)
EXTENDS Naturals, FiniteSets, SequencesExt

CONSTANTS Convs,        \* conversation ids
          Messages,     \* message ids
          ConvOf,       \* the conversation of each message
          Alone,        \* messages that are a command, a decision or a retry
          Limit,        \* msgDedup.limit (10000 in runStreamConnector)
          MaxDeliveries \* bound: how often the platform delivers one message

(* A turn is one delivery of a message. *)
Turns == [msg: Messages, nth: 1..MaxDeliveries]
Conv(t) == ConvOf[t.msg]

VARIABLES delivered,  \* how often each message has been delivered
          seen,       \* msgDedup.seen
          callbacks,  \* turns that passed dedup.first and are not submitted yet
          running,    \* conversations with an entry in convQueue.states
          pending,    \* convQueueState.pending of each conversation
          drains,     \* the goroutines of convQueue.drain, by their first turn
          entered,    \* history: the turns of each conversation as they were submitted
          ended,      \* history: the turns whose batch has been processed, in that order
          handled,    \* history: the turns of those batches that the merge has kept
          between     \* history: for each message in seen, the others that were first since

vars == <<delivered, seen, callbacks, running, pending, drains, entered, ended, handled, between>>

NoDrain == [pc |-> "none", batch |-> <<>>]
Alive(d) == drains[d].pc # "none"
Drains(c) == {d \in Turns: Alive(d) /\ Conv(d) = c}

TypeOK == /\ delivered \in [Messages -> 0..MaxDeliveries]
          /\ seen \subseteq Messages /\ Cardinality(seen) <= Limit
          /\ callbacks \subseteq Turns
          /\ running \subseteq Convs
          /\ \A c \in Convs: IsInjective(pending[c]) /\ ToSet(pending[c]) \subseteq {t \in Turns: Conv(t) = c}
          /\ \A d \in Turns: /\ drains[d].pc \in {"none", "process", "next"}
                             /\ ToSet(drains[d].batch) \subseteq {t \in Turns: Conv(t) = Conv(d)}
                             /\ (Alive(d) <=> drains[d].batch # <<>>)

Init == /\ delivered = [m \in Messages |-> 0]
        /\ seen = {} /\ callbacks = {} /\ running = {}
        /\ pending = [c \in Convs |-> <<>>]
        /\ drains = [t \in Turns |-> NoDrain]
        /\ entered = [c \in Convs |-> <<>>]
        /\ ended = [c \in Convs |-> <<>>]
        /\ handled = {}
        /\ between = [m \in Messages |-> {}]

-----------------------------------------------------------------------------
\* Mutant of Remembered: the limit is applied after the id was added.
Remembered_ThenCleared(m) == IF Cardinality(seen \cup {m}) >= Limit THEN {} ELSE seen \cup {m}

(* msgDedup.first: the set is cleared before the id that would exceed it. *)
Remembered(m) == (IF Cardinality(seen) >= Limit THEN {} ELSE seen) \cup {m}

(* The callback of one delivery up to the acknowledgement's dedup check.     *)
(* The SDK runs one goroutine per frame: callbacks overtake each other.      *)
Deliver(m) == /\ delivered[m] < MaxDeliveries
              /\ delivered' = [delivered EXCEPT ![m] = @ + 1]
              /\ IF m \in seen
                 THEN UNCHANGED <<seen, callbacks, between>>
                 ELSE /\ seen' = Remembered(m)
                      /\ callbacks' = callbacks \cup {[msg |-> m, nth |-> delivered[m] + 1]}
                      /\ between' = [o \in Messages |-> IF o = m THEN {} ELSE between[o] \cup {m}]
              /\ UNCHANGED <<running, pending, drains, entered, ended, handled>>

\* Mutant of Starts: submit looks at the pending batch, not at running.
Starts_IfEmpty(c) == pending[c] = <<>>

(* Whether submit starts a drain of its own. *)
Starts(c) == c \notin running

Submit(t) == /\ t \in callbacks
             /\ callbacks' = callbacks \ {t}
             /\ entered' = [entered EXCEPT ![Conv(t)] = Append(@, t)]
             /\ IF Starts(Conv(t))
                THEN /\ running' = running \cup {Conv(t)}
                     /\ drains' = [drains EXCEPT ![t] = [pc |-> "process", batch |-> <<t>>]]
                     /\ UNCHANGED pending
                ELSE /\ pending' = [pending EXCEPT ![Conv(t)] = Append(@, t)]
                     /\ UNCHANGED <<running, drains>>
             /\ UNCHANGED <<delivered, seen, ended, handled, between>>

Words(batch) == {i \in DOMAIN batch: batch[i].msg \in Alone}

\* Mutant of Merged: the first of the commands and decisions is kept.
Merged_First(batch) == IF Words(batch) = {} THEN ToSet(batch) ELSE {batch[Min(Words(batch))]}

(* mergeConnectQueuedTurns: one prompt of all, but a command or a decision   *)
(* stays alone, the latest one, and what came with it is dropped.            *)
Merged(batch) == IF Words(batch) = {} THEN ToSet(batch) ELSE {batch[Max(Words(batch))]}

(* process(batch) returns. *)
Process(d) == /\ drains[d].pc = "process"
              /\ drains' = [drains EXCEPT ![d].pc = "next"]
              /\ ended' = [ended EXCEPT ![Conv(d)] = @ \o drains[d].batch]
              /\ handled' = handled \cup Merged(drains[d].batch)
              /\ UNCHANGED <<delivered, seen, callbacks, running, pending, entered, between>>

\* Mutant of Taken: only the latest message of the burst.
Taken_Latest(c) == IF pending[c] = <<>> THEN <<>> ELSE <<Last(pending[c])>>

(* What drain takes next: everything that is pending. *)
Taken(c) == pending[c]

\* Mutant of TakeNext: the entry is kept when nothing is pending.
TakeNext_KeepsEntry(d) == LET c == Conv(d) IN
            /\ drains[d].pc = "next"
            /\ drains' = [drains EXCEPT ![d] = IF pending[c] = <<>> THEN NoDrain
                                               ELSE [pc |-> "process", batch |-> Taken(c)]]
            /\ pending' = [pending EXCEPT ![c] = <<>>]
            /\ UNCHANGED <<delivered, seen, callbacks, running, entered, ended, handled, between>>

(* The rest of drain's loop under q.mu: the next batch, or the end. *)
TakeNext(d) == LET c == Conv(d) IN
            /\ drains[d].pc = "next"
            /\ IF pending[c] = <<>>
               THEN /\ running' = running \ {c}
                    /\ drains' = [drains EXCEPT ![d] = NoDrain]
               ELSE /\ drains' = [drains EXCEPT ![d] = [pc |-> "process", batch |-> Taken(c)]]
                    /\ UNCHANGED running
            /\ pending' = [pending EXCEPT ![c] = <<>>]
            /\ UNCHANGED <<delivered, seen, callbacks, entered, ended, handled, between>>

Next == \/ \E m \in Messages: Deliver(m)
        \/ \E t \in Turns: Submit(t) \/ Process(t) \/ TakeNext(t)

Spec == Init /\ [][Next]_vars

(* The connector's goroutines run on.  Process is free not to return: the    *)
(* agent has no time limit unless one is configured (Timeout 0).             *)
Fairness == \A t \in Turns: WF_vars(Submit(t)) /\ WF_vars(TakeNext(t))
FairSpec == Spec /\ Fairness

-----------------------------------------------------------------------------
(* Turns of one conversation never run in parallel (connect_queue.go:20-21:  *)
(* two turns racing on one session corrupt the transcript).                  *)
OneTurnAtATime == \A c \in Convs: Cardinality(Drains(c)) <= 1

(* Turns are batched in the order in which they were submitted and no batch *)
(* leaves one out: what has been in a batch, is in one and is pending are,   *)
(* together and in this order, all that was submitted to the conversation    *)
(* (connect_queue.go:44-84).                                                 *)
InHand(c) == LET busy == {d \in Drains(c): drains[d].pc = "process"}
             IN  IF busy = {} THEN <<>> ELSE drains[CHOOSE d \in busy: TRUE].batch
BurstsKeepOrder == \A c \in Convs: entered[c] = ended[c] \o InHand(c) \o pending[c]

(* What a merge drops it drops for a command or a decision of the same       *)
(* conversation that is carried out, and one of these only for a later one   *)
(* (connect_stream.go:1128-1139).                                            *)
DroppedForWord(c, i) ==
  \E j \in Words(ended[c]): ended[c][j] \in handled /\ (i \in Words(ended[c]) => i < j)
MergesKeepWords ==
  \A c \in Convs: \A i \in DOMAIN ended[c]: ended[c][i] \notin handled => DroppedForWord(c, i)

(* All of it, over the types: the turns of a conversation never run in       *)
(* parallel, no batch leaves one out or takes it out of order, and a merge   *)
(* drops turns only for a later command or decision.                         *)
TurnsKeepOrder == TypeOK /\ OneTurnAtATime /\ BurstsKeepOrder /\ MergesKeepWords

(* A message is queued again only after the set was cleared, and that takes  *)
(* at least one other new message after it (connect_stream.go:1073-1083).    *)
QueuedAgainAfterOthers ==
    [][\A m \in Messages: m \notin seen /\ m \in seen' /\ delivered[m] > 0 => between[m] # {}]_vars

(* A turn gets its batch in the end, whatever its conversation is doing when *)
(* it comes, and is handled in it or dropped there for a command or decision *)
(* (connect_queue.go:23-24: as a single follow-up) - as long as the agent    *)
(* does not hang for ever on a turn of this conversation; of the others it   *)
(* may.                                                                      *)
Busy(c) == \E d \in Drains(c): drains[d].pc = "process"
Served(t) == LET c == Conv(t) IN
  \E i \in DOMAIN ended[c]: ended[c][i] = t /\ (t \in handled \/ DroppedForWord(c, i))
EveryTurnProcessed ==
  \A t \in Turns: []<>(~Busy(Conv(t))) => (t \in callbacks ~> Served(t))
=============================================================================
