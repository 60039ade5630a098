----------------------------- MODULE EventDedup -----------------------------
(***************************************************************************)
(* De-duplication of redelivered events: the LRU set of keys               *)
(* (event/dedup/lru.go) between the goroutines that read frames from the   *)
(* cloud (source/personal.go handleFrame) and the hub (the emit closure of *)
(* bus/daemon.go).  The cloud sends an event again when its ack is lost,   *)
(* and may do so at any time; a bus that dies starts with an empty set.    *)
(***************************************************************************)
EXTENDS Integers, FiniteSets, Sequences

CONSTANTS
  Callbacks,   \* goroutines that handle frames
  Events,
  KeyOf,       \* RawEvent.DedupKey: events without an id may share one
  Capacity,    \* of the LRU
  MaxCalls,    \* bound of the model: calls of Seen between two crashes
  MaxCrashes   \* bound of the model

ASSUME DedupAssumption ==
  /\ Events # {} /\ IsFiniteSet(Callbacks) /\ Capacity \in Nat \ {0}
  /\ MaxCalls \in Nat /\ MaxCrashes \in Nat

Keys == {KeyOf[e] : e \in Events}

VARIABLES
  eviction,   \* LRU.eviction, oldest key first; LRU.keys are its elements
  calls,      \* history: the calls of Seen since the bus started, with their answers
  step, frame,  \* per callback: what it does next, and with which event
  delivered,  \* keys given to Hub.Deliver
  confirmed,      \* events whose ack reached the cloud
  overtaken,  \* history: keys that were seen again while their first delivery was under way
  crashes

dedupVars == <<eviction, calls, step, frame, delivered, confirmed, overtaken, crashes>>

Remembered == {eviction[i] : i \in DOMAIN eviction}

DedupTypeOK ==
  /\ eviction \in Seq(Keys) /\ Len(eviction) <= Capacity
  /\ Cardinality(Remembered) = Len(eviction)
  /\ calls \in Seq([key : Keys, seen : BOOLEAN]) /\ Len(calls) <= MaxCalls
  /\ step \in [Callbacks -> {"read", "dedup", "deliver", "ack"}]
  /\ frame \in [Callbacks -> Events]
  /\ delivered \subseteq Keys /\ confirmed \subseteq Events
  /\ overtaken \subseteq Keys /\ crashes \in 0..MaxCrashes

DedupInit ==
  /\ eviction = <<>> /\ calls = <<>>
  /\ step = [c \in Callbacks |-> "read"] /\ frame \in [Callbacks -> {CHOOSE e \in Events : TRUE}]
  /\ delivered = {} /\ confirmed = {} /\ overtaken = {} /\ crashes = 0

-----------------------------------------------------------------------------
StepTo(c, to) == step' = [step EXCEPT ![c] = to]

\* A frame arrives: any event, sent for the first time or again.
Receive(c, e) ==
  /\ step[c] = "read"
  /\ Len(calls) + Cardinality({d \in Callbacks : step[d] = "dedup"}) < MaxCalls
  /\ frame' = [frame EXCEPT ![c] = e] /\ StepTo(c, "dedup")
  /\ UNCHANGED <<eviction, calls, delivered, confirmed, overtaken, crashes>>

\* Mutant of MovedToBack: a duplicate does not refresh its key.
MovedToBack_Not(k) == eviction
MovedToBack(k) ==
  [i \in DOMAIN eviction |->
     IF i = Len(eviction) THEN k
     ELSE IF \E j \in 1..i : eviction[j] = k THEN eviction[i + 1] ELSE eviction[i]]

\* Mutant of Inserted: one key too few is kept.
Inserted_OffByOne(k) ==
  Append(IF Len(eviction) >= Capacity - 1 /\ eviction # <<>> THEN Tail(eviction) ELSE eviction, k)

Inserted(k) == Append(IF Len(eviction) >= Capacity THEN Tail(eviction) ELSE eviction, k)

\* LRU.Seen, one critical section; emit drops what was seen.
Seen(c) ==
  LET k   == KeyOf[frame[c]]
      dup == k \in Remembered
  IN /\ step[c] = "dedup"
     /\ eviction' = IF dup THEN MovedToBack(k) ELSE Inserted(k)
     /\ calls' = Append(calls, [key |-> k, seen |-> dup])
     /\ StepTo(c, IF dup THEN "ack" ELSE "deliver")
     /\ overtaken' = IF \E d \in Callbacks : step[d] = "deliver" /\ KeyOf[frame[d]] = k
                       THEN overtaken \cup {k} ELSE overtaken
     /\ UNCHANGED <<frame, delivered, confirmed, crashes>>

\* Hub.Deliver.
Deliver(c) ==
  /\ step[c] = "deliver"
  /\ delivered' = delivered \cup {KeyOf[frame[c]]}
  /\ StepTo(c, "ack")
  /\ UNCHANGED <<eviction, calls, frame, confirmed, overtaken, crashes>>

\* emit has returned: the success response is written, and arrives or not.
Acknowledge(c) ==
  /\ step[c] = "ack"
  /\ confirmed' \in {confirmed, confirmed \cup {frame[c]}}
  /\ StepTo(c, "read")
  /\ UNCHANGED <<eviction, calls, frame, delivered, overtaken, crashes>>

\* Mutant of Crash: the set outlives the process.
Crash_KeepsWindow ==
  /\ crashes < MaxCrashes
  /\ crashes' = crashes + 1
  /\ step' = [c \in Callbacks |-> "read"] /\ calls' = <<>>
  /\ UNCHANGED <<eviction, frame, delivered, confirmed, overtaken>>

\* The bus dies, or ends for a frame it cannot decode, and another one starts.
Crash ==
  /\ crashes < MaxCrashes
  /\ crashes' = crashes + 1
  /\ eviction' = <<>> /\ calls' = <<>>
  /\ step' = [c \in Callbacks |-> "read"]
  /\ UNCHANGED <<frame, delivered, confirmed, overtaken>>

DedupNext ==
  \/ \E c \in Callbacks : Seen(c) \/ Deliver(c) \/ Acknowledge(c) \/ \E e \in Events : Receive(c, e)
  \/ Crash

DedupSpec == DedupInit /\ [][DedupNext]_dedupVars

-----------------------------------------------------------------------------
(* Properties.                                                             *)

\* The keys called since, for a key's last call at position i.
Since(i) == {calls[j].key : j \in (i + 1)..Len(calls)}
LastCall(k) == CHOOSE i \in DOMAIN calls : calls[i].key = k /\ k \notin Since(i)
Called == {calls[i].key : i \in DOMAIN calls}

\* The set is the last Capacity distinct keys, ordered by their last call, duplicates
\* included: a redelivery keeps its key alive (lru.go:67-82).
WindowIsMostRecent ==
  /\ Remembered = {k \in Called : Cardinality(Since(LastCall(k))) < Capacity}
  /\ \A i, j \in DOMAIN eviction : i < j => LastCall(eviction[i]) < LastCall(eviction[j])

\* Two callbacks never both take an event for new while its key is in the window: one
\* redelivery storm delivers it once, until Capacity other keys have passed
\* (lru.go:61-84, daemon.go:239-242).
OnceInWindow ==
  \A i, j \in DOMAIN calls :
    i < j /\ calls[i].key = calls[j].key /\ ~calls[i].seen /\ ~calls[j].seen =>
      \E m \in i..j : Cardinality({calls[n].key : n \in (m + 1)..(j - 1)}) >= Capacity

\* An event the cloud will not send again has reached the hub: the ack comes after emit,
\* and a key that was remembered by a bus that died before it delivered the event is
\* forgotten with it.  The exception is a redelivery that a second callback acks as a
\* duplicate before the first has delivered it (personal.go:336-353).
AckedIsDelivered == \A e \in confirmed : KeyOf[e] \in delivered \cup overtaken

\* A key is new once within the window, the window is that of the most recent keys
\* (lru.go:59-84), and what the cloud will not send again has reached the hub
\* (personal.go:336-353), in whatever order callbacks, acks, redeliveries and a crash come.
DedupSafe == DedupTypeOK /\ WindowIsMostRecent /\ OnceInWindow /\ AckedIsDelivered
=============================================================================
