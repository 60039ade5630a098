-------------------------- MODULE ConnectQueueProofs --------------------------
(***************************************************************************)
(* The connector's queue for every set of conversations and messages: one  *)
(* turn of a conversation at a time, none out of order and none dropped    *)
(* but for a later command or decision, and no message queued twice before *)
(* others came.                                                            *)
(***************************************************************************)
EXTENDS ConnectQueue, SequenceTheorems, FiniteSetTheorems, WellFoundedInduction, TLAPS

\* What the constants are: every message belongs to a conversation, and the set of seen
\* ids is allowed at least one (connect_stream.go passes 10000).
QueueConstants ==
  ConvOf \in [Messages -> Convs] /\ Limit \in Nat \ {0} /\ MaxDeliveries \in Nat

QueueType ==
  /\ delivered \in [Messages -> 0..MaxDeliveries]
  /\ seen \subseteq Messages /\ IsFiniteSet(seen) /\ Cardinality(seen) <= Limit
  /\ callbacks \subseteq Turns /\ running \subseteq Convs
  /\ pending \in [Convs -> Seq(Turns)]
  /\ drains \in [Turns -> [pc : {"none", "process", "next"}, batch : Seq(Turns)]]
  /\ entered \in [Convs -> Seq(Turns)] /\ ended \in [Convs -> Seq(Turns)]
  /\ between \in [Messages -> SUBSET Messages]

\* A drain is entered in running, alone for its conversation, and nothing is pending for a
\* conversation without one.
OneDrain ==
  /\ \A d \in Turns : Alive(d) => Conv(d) \in running
  /\ \A d, e \in Turns : Alive(d) /\ Alive(e) /\ Conv(d) = Conv(e) => d = e
  /\ \A c \in Convs : c \notin running => pending[c] = <<>>

\* A delivery becomes one turn, which is in one place.
TurnsOnce ==
  /\ \A t \in callbacks : t.nth <= delivered[t.msg]
  /\ \A c \in Convs : /\ IsInjective(pending[c])
                      /\ \A i \in DOMAIN pending[c] : /\ Conv(pending[c][i]) = c
                                                      /\ pending[c][i] \notin callbacks
                                                      /\ pending[c][i].nth
                                                           <= delivered[pending[c][i].msg]

\* What a drain holds is of its conversation; it holds something exactly while it runs.
BatchesAreOwn ==
  \A d \in Turns : /\ Alive(d) <=> drains[d].batch # <<>>
                   /\ \A i \in DOMAIN drains[d].batch : Conv(drains[d].batch[i]) = Conv(d)

\* A message that was forgotten was forgotten for others.
ForgottenForOthers ==
  \A m \in Messages : delivered[m] > 0 /\ m \notin seen => between[m] # {}

QueueInv ==
  /\ QueueType /\ OneDrain /\ TurnsOnce /\ BatchesAreOwn /\ BurstsKeepOrder
  /\ MergesKeepWords /\ ForgottenForOthers

-----------------------------------------------------------------------------
LEMMA ConvType ==
  ASSUME QueueConstants, NEW t \in Turns
  PROVE  Conv(t) \in Convs /\ t.msg \in Messages /\ t.nth \in 1..MaxDeliveries
BY DEF QueueConstants, Turns, Conv

\* What a submission, the end of a batch and the next batch do, conversation by
\* conversation and drain by drain.
Submitted(t) ==
  /\ t \in callbacks /\ callbacks' = callbacks \ {t}
  /\ entered' \in [Convs -> Seq(Turns)] /\ pending' \in [Convs -> Seq(Turns)]
  /\ drains' \in [Turns -> [pc : {"none", "process", "next"}, batch : Seq(Turns)]]
  /\ entered'[Conv(t)] = Append(entered[Conv(t)], t)
  /\ \A c \in Convs \ {Conv(t)} : entered'[c] = entered[c] /\ pending'[c] = pending[c]
  /\ \A d \in Turns \ {t} : drains'[d] = drains[d]
  /\ \/ /\ Conv(t) \notin running /\ running' = running \cup {Conv(t)}
        /\ drains'[t] = [pc |-> "process", batch |-> <<t>>] /\ pending' = pending
     \/ /\ Conv(t) \in running /\ running' = running
        /\ drains' = drains /\ pending'[Conv(t)] = Append(pending[Conv(t)], t)
  /\ UNCHANGED <<delivered, seen, ended, handled, between>>

LEMMA SubmitStep ==
  ASSUME QueueConstants, QueueType, NEW t \in Turns, Submit(t)
  PROVE  Submitted(t)
<1> USE DEF QueueType
<1>0. Conv(t) \in Convs
  BY ConvType
<1>1. Append(entered[Conv(t)], t) \in Seq(Turns) /\ Append(pending[Conv(t)], t) \in Seq(Turns)
      /\ <<t>> \in Seq(Turns)
  BY <1>0, AppendProperties
<1>2. CASE Conv(t) \in running
  BY <1>0, <1>1, <1>2 DEF Submit, Starts, Submitted
<1>3. CASE Conv(t) \notin running
  <2>1. [pc |-> "process", batch |-> <<t>>]
          \in [pc : {"none", "process", "next"}, batch : Seq(Turns)]
    BY <1>1
  <2>2. drains' = [drains EXCEPT ![t] = [pc |-> "process", batch |-> <<t>>]]
    BY <1>3 DEF Submit, Starts
  <2> QED BY <1>0, <1>1, <1>3, <2>1, <2>2 DEF Submit, Starts, Submitted
<1> QED BY <1>2, <1>3

Processed(d) ==
  /\ drains[d].pc = "process"
  /\ drains' \in [Turns -> [pc : {"none", "process", "next"}, batch : Seq(Turns)]]
  /\ drains'[d].pc = "next" /\ drains'[d].batch = drains[d].batch
  /\ \A e \in Turns \ {d} : drains'[e] = drains[e]
  /\ ended' \in [Convs -> Seq(Turns)]
  /\ ended'[Conv(d)] = ended[Conv(d)] \o drains[d].batch
  /\ \A c \in Convs \ {Conv(d)} : ended'[c] = ended[c]
  /\ handled' = handled \cup Merged(drains[d].batch)
  /\ UNCHANGED <<delivered, seen, callbacks, running, pending, entered, between>>

LEMMA ProcessStep ==
  ASSUME QueueConstants, QueueType, NEW d \in Turns, Process(d)
  PROVE  Processed(d)
<1> USE DEF QueueType
<1>0. Conv(d) \in Convs
  BY ConvType
<1>1. drains[d].batch \in Seq(Turns)
  OBVIOUS
<1>2. ended[Conv(d)] \o drains[d].batch \in Seq(Turns)
  BY <1>0, <1>1, ConcatProperties
<1> QED BY <1>0, <1>1, <1>2 DEF Process, Processed

TookNext(d) ==
  /\ drains[d].pc = "next"
  /\ drains' \in [Turns -> [pc : {"none", "process", "next"}, batch : Seq(Turns)]]
  /\ \A e \in Turns \ {d} : drains'[e] = drains[e]
  /\ \/ /\ pending[Conv(d)] = <<>> /\ running' = running \ {Conv(d)}
        /\ drains'[d].pc = "none" /\ drains'[d].batch = <<>>
     \/ /\ pending[Conv(d)] # <<>> /\ running' = running
        /\ drains'[d].pc = "process" /\ drains'[d].batch = pending[Conv(d)]
  /\ pending' \in [Convs -> Seq(Turns)] /\ pending'[Conv(d)] = <<>>
  /\ \A c \in Convs \ {Conv(d)} : pending'[c] = pending[c]
  /\ UNCHANGED <<delivered, seen, callbacks, entered, ended, handled, between>>

LEMMA TakeNextStep ==
  ASSUME QueueConstants, QueueType, NEW d \in Turns, TakeNext(d)
  PROVE  TookNext(d)
<1> USE DEF QueueType
<1>0. Conv(d) \in Convs
  BY ConvType
<1>1. pending[Conv(d)] \in Seq(Turns) /\ <<>> \in Seq(Turns)
  BY <1>0, EmptySeq
<1>2. CASE pending[Conv(d)] = <<>>
  <2>1. /\ NoDrain \in [pc : {"none", "process", "next"}, batch : Seq(Turns)]
        /\ NoDrain.pc = "none" /\ NoDrain.batch = <<>>
    BY <1>1 DEF NoDrain
  <2>2. drains' = [drains EXCEPT ![d] = NoDrain]
    BY <1>2 DEF TakeNext
  <2> QED BY <1>0, <1>1, <1>2, <2>1, <2>2 DEF TakeNext, TookNext
<1>3. CASE pending[Conv(d)] # <<>>
  <2>1. [pc |-> "process", batch |-> pending[Conv(d)]]
          \in [pc : {"none", "process", "next"}, batch : Seq(Turns)]
    BY <1>1
  <2>2. drains' = [drains EXCEPT ![d] = [pc |-> "process", batch |-> pending[Conv(d)]]]
    BY <1>3 DEF TakeNext, Taken
  <2> QED BY <1>0, <1>1, <1>3, <2>1, <2>2 DEF TakeNext, TookNext
<1> QED BY <1>2, <1>3

WasDelivered(m) ==
  /\ delivered' \in [Messages -> 0..MaxDeliveries]
  /\ delivered'[m] = delivered[m] + 1
  /\ \A o \in Messages \ {m} : delivered'[o] = delivered[o]
  /\ \/ m \in seen /\ UNCHANGED <<seen, callbacks, between>>
     \/ /\ m \notin seen /\ seen' = Remembered(m)
        /\ callbacks' = callbacks \cup {[msg |-> m, nth |-> delivered[m] + 1]}
        /\ between' = [o \in Messages |-> IF o = m THEN {} ELSE between[o] \cup {m}]
  /\ [msg |-> m, nth |-> delivered[m] + 1] \in Turns
  /\ UNCHANGED <<running, pending, drains, entered, ended, handled>>

LEMMA DeliverStep ==
  ASSUME QueueConstants, QueueType, NEW m \in Messages, Deliver(m)
  PROVE  WasDelivered(m)
<1>1. delivered[m] \in 0..MaxDeliveries /\ delivered[m] < MaxDeliveries /\ MaxDeliveries \in Nat
  BY DEF Deliver, QueueType, QueueConstants
<1>2. delivered[m] + 1 \in 1..MaxDeliveries
  BY <1>1
<1> QED BY <1>1, <1>2 DEF Deliver, QueueType, Turns, WasDelivered

LEMMA SeenStep ==
  ASSUME QueueConstants, QueueType, NEW m \in Messages, m \notin seen
  PROVE  /\ Remembered(m) \subseteq Messages /\ IsFiniteSet(Remembered(m))
         /\ Cardinality(Remembered(m)) <= Limit
<1>0. Cardinality(seen) \in Nat /\ Limit \in Nat \ {0}
  BY FS_CardinalityType DEF QueueType, QueueConstants
<1>1. CASE Cardinality(seen) >= Limit
  <2>1. Remembered(m) = {m}
    BY <1>1 DEF Remembered
  <2>2. IsFiniteSet({m}) /\ Cardinality({m}) = 1
    BY FS_Singleton
  <2> QED BY <1>0, <2>1, <2>2
<1>2. CASE ~(Cardinality(seen) >= Limit)
  <2>1. Remembered(m) = seen \cup {m}
    BY <1>2 DEF Remembered
  <2>2. IsFiniteSet(seen \cup {m}) /\ Cardinality(seen \cup {m}) = Cardinality(seen) + 1
    BY FS_AddElement DEF QueueType
  <2> QED BY <1>0, <1>2, <2>1, <2>2 DEF QueueType
<1> QED BY <1>1, <1>2

\* A step is one of these.
LEMMA Steps ==
  ASSUME QueueConstants, QueueType, [Next]_vars
  PROVE  \/ \E m \in Messages : WasDelivered(m)
         \/ \E t \in Turns : Submitted(t) \/ Processed(t) \/ TookNext(t)
         \/ UNCHANGED vars
BY DeliverStep, SubmitStep, ProcessStep, TakeNextStep DEF Next

LEMMA TypeStep ==
  ASSUME QueueConstants, QueueType, [Next]_vars
  PROVE  QueueType'
<1>1. ASSUME NEW m \in Messages, WasDelivered(m) PROVE QueueType'
  <2>1. CASE m \in seen
    BY <1>1, <2>1 DEF WasDelivered, QueueType
  <2>2. CASE m \notin seen
    <3>1. seen' \subseteq Messages /\ IsFiniteSet(seen') /\ Cardinality(seen') <= Limit
      BY <1>1, <2>2, SeenStep DEF WasDelivered
    <3>2. between' \in [Messages -> SUBSET Messages]
      BY <1>1, <2>2 DEF WasDelivered, QueueType
    <3> QED BY <1>1, <3>1, <3>2 DEF WasDelivered, QueueType
  <2> QED BY <2>1, <2>2
<1>2. ASSUME NEW t \in Turns, Submitted(t) PROVE QueueType'
  BY <1>2, ConvType DEF Submitted, QueueType
<1>3. ASSUME NEW t \in Turns, Processed(t) PROVE QueueType'
  BY <1>3 DEF Processed, QueueType
<1>4. ASSUME NEW t \in Turns, TookNext(t) PROVE QueueType'
  BY <1>4 DEF TookNext, QueueType
<1>5. CASE UNCHANGED vars
  BY <1>5 DEF vars, QueueType
<1> QED BY <1>1, <1>2, <1>3, <1>4, <1>5, Steps

LEMMA OneDrainStep ==
  ASSUME QueueConstants, QueueType, OneDrain, [Next]_vars
  PROVE  OneDrain'
<1> USE ConvType DEF OneDrain, Alive
<1>1. ASSUME NEW m \in Messages, WasDelivered(m) PROVE OneDrain'
  BY <1>1 DEF WasDelivered
<1>2. ASSUME NEW t \in Turns, Submitted(t) PROVE OneDrain'
  <2>1. CASE Conv(t) \notin running /\ running' = running \cup {Conv(t)}
             /\ drains'[t] = [pc |-> "process", batch |-> <<t>>] /\ pending' = pending
    <3>1. \A d \in Turns : Alive(d)' => d = t \/ Alive(d)
      BY <1>2 DEF Submitted
    <3>2. \A d \in Turns : Alive(d) => Conv(d) # Conv(t)
      BY <2>1
    <3>3. \A d \in Turns : Alive(d) => Conv(d) \in running
      OBVIOUS
    <3>4. \A d, e \in Turns : Alive(d)' /\ Alive(e)' /\ Conv(d) = Conv(e) => d = e
      BY <3>1, <3>2
    <3>5. \A d \in Turns : Alive(d)' => Conv(d) \in running'
      BY <2>1, <3>1, <3>3
    <3>6. \A c \in Convs : c \notin running' => pending'[c] = <<>>
      BY <2>1
    <3> QED BY <3>4, <3>5, <3>6 DEF Conv
  <2>2. CASE Conv(t) \in running /\ running' = running /\ drains' = drains
    <3>1. \A c \in Convs \ {Conv(t)} : pending'[c] = pending[c]
      BY <1>2 DEF Submitted
    <3> QED BY <2>2, <3>1 DEF Conv
  <2> QED BY <1>2, <2>1, <2>2 DEF Submitted
<1>3. ASSUME NEW t \in Turns, Processed(t) PROVE OneDrain'
  <2>1. \A d \in Turns : Alive(d)' <=> Alive(d)
    BY <1>3 DEF Processed
  <2>2. running' = running /\ pending' = pending
    BY <1>3 DEF Processed
  <2> QED BY <2>1, <2>2 DEF Conv
<1>4. ASSUME NEW t \in Turns, TookNext(t) PROVE OneDrain'
  <2>1. Alive(t) /\ Conv(t) \in running
    BY <1>4 DEF TookNext
  <2>2. \A d \in Turns : Alive(d)' => Alive(d)
    BY <1>4, <2>1 DEF TookNext
  <2>3. \A d, e \in Turns : Alive(d)' /\ Alive(e)' /\ Conv(d) = Conv(e) => d = e
    BY <2>2
  <2>4. \A c \in Convs : c \notin running => pending[c] = <<>>
    OBVIOUS
  <2>5. \A d \in Turns : Alive(d)' /\ Conv(d) = Conv(t) => d = t
    BY <2>1, <2>2
  <2>6. CASE running' = running \ {Conv(t)} /\ drains'[t].pc = "none"
    <3>1. \A d \in Turns : Alive(d)' => Conv(d) # Conv(t)
      BY <2>5, <2>6
    <3>2. \A d \in Turns : Alive(d)' => Conv(d) \in running'
      BY <2>2, <2>6, <3>1
    <3>3. \A c \in Convs : c \notin running' => pending'[c] = <<>>
      BY <1>4, <2>4, <2>6 DEF TookNext
    <3> QED BY <2>3, <3>2, <3>3 DEF Conv
  <2>7. CASE running' = running
    <3>1. \A d \in Turns : Alive(d)' => Conv(d) \in running'
      BY <2>2, <2>7
    <3>2. \A c \in Convs : c \notin running' => pending'[c] = <<>>
      BY <1>4, <2>4, <2>7 DEF TookNext
    <3> QED BY <2>3, <3>1, <3>2 DEF Conv
  <2> QED BY <1>4, <2>6, <2>7 DEF TookNext
<1>5. CASE UNCHANGED vars
  BY <1>5 DEF vars
<1> QED BY <1>1, <1>2, <1>3, <1>4, <1>5, Steps

LEMMA BatchStep ==
  ASSUME QueueConstants, QueueType, TurnsOnce, BatchesAreOwn, [Next]_vars
  PROVE  BatchesAreOwn'
<1> USE DEF BatchesAreOwn, Alive
<1>1. ASSUME NEW m \in Messages, WasDelivered(m) PROVE BatchesAreOwn'
  BY <1>1 DEF WasDelivered
<1>2. ASSUME NEW t \in Turns, Submitted(t) PROVE BatchesAreOwn'
  <2>1. <<t>> # <<>> /\ \A i \in DOMAIN <<t>> : <<t>>[i] = t
    OBVIOUS
  <2> SUFFICES ASSUME NEW d \in Turns
               PROVE  /\ Alive(d)' <=> drains'[d].batch # <<>>
                      /\ \A i \in DOMAIN drains'[d].batch : Conv(drains'[d].batch[i]) = Conv(d)
    BY DEF Conv
  <2>2. CASE drains'[d] = drains[d]
    BY <2>2
  <2>3. CASE drains'[d] # drains[d]
    <3>1. d = t /\ drains'[t] = [pc |-> "process", batch |-> <<t>>]
      BY <1>2, <2>3 DEF Submitted
    <3>2. drains'[d].pc = "process" /\ drains'[d].batch = <<t>>
      BY <3>1
    <3> QED BY <2>1, <3>1, <3>2
  <2> QED BY <2>2, <2>3
<1>3. ASSUME NEW t \in Turns, Processed(t) PROVE BatchesAreOwn'
  <2>1. \A d \in Turns : drains'[d].batch = drains[d].batch
    BY <1>3 DEF Processed
  <2>2. \A d \in Turns : Alive(d)' <=> Alive(d)
    BY <1>3 DEF Processed
  <2> QED BY <2>1, <2>2 DEF Conv
<1>4. ASSUME NEW t \in Turns, TookNext(t) PROVE BatchesAreOwn'
  <2>1. DOMAIN <<>> = {}
    OBVIOUS
  <2>2. \A i \in DOMAIN pending[Conv(t)] : Conv(pending[Conv(t)][i]) = Conv(t)
    BY ConvType DEF TurnsOnce
  <2> SUFFICES ASSUME NEW d \in Turns
               PROVE  /\ Alive(d)' <=> drains'[d].batch # <<>>
                      /\ \A i \in DOMAIN drains'[d].batch : Conv(drains'[d].batch[i]) = Conv(d)
    BY DEF Conv
  <2>3. CASE d # t
    <3>1. drains'[d] = drains[d]
      BY <1>4, <2>3 DEF TookNext
    <3> QED BY <3>1
  <2>4. CASE d = t /\ drains'[t].pc = "none" /\ drains'[t].batch = <<>>
    BY <2>1, <2>4
  <2>5. CASE d = t /\ pending[Conv(t)] # <<>> /\ drains'[t].pc = "process"
             /\ drains'[t].batch = pending[Conv(t)]
    BY <2>2, <2>5
  <2> QED BY <1>4, <2>3, <2>4, <2>5 DEF TookNext
<1>5. CASE UNCHANGED vars
  BY <1>5 DEF vars
<1> QED BY <1>1, <1>2, <1>3, <1>4, <1>5, Steps

-----------------------------------------------------------------------------
\* A turn that is new to the queue, and one that comes behind those pending.
LEMMA NewTurn ==
  ASSUME QueueConstants, QueueType, TurnsOnce, NEW m \in Messages, WasDelivered(m)
  PROVE  TurnsOnce'
<1> DEFINE new == [msg |-> m, nth |-> delivered[m] + 1]
<1>1. \A o \in Messages : delivered[o] \in Nat /\ delivered[o] <= delivered'[o]
  <2>1. \A o \in Messages : delivered[o] \in Nat
    BY DEF QueueType, QueueConstants
  <2>2. \A k \in Nat : k <= k /\ k <= k + 1
    OBVIOUS
  <2> QED BY <2>1, <2>2 DEF WasDelivered
<1>2. \A t \in Turns : t.msg \in Messages /\ t.nth \in Nat
  BY DEF Turns, QueueConstants
<1>3. \A t \in Turns : t.nth <= delivered[t.msg] => t.nth <= delivered'[t.msg]
  <2>1. \A a, b, c \in Nat : a <= b /\ b <= c => a <= c
    OBVIOUS
  <2>2. \A o \in Messages : delivered'[o] \in Nat
    BY DEF WasDelivered, QueueConstants
  <2> QED BY <1>1, <1>2, <2>1, <2>2
<1>4. \A t \in Turns : t.nth <= delivered[t.msg] => t # new
  <2>1. \A k \in Nat : ~ (k + 1 <= k)
    OBVIOUS
  <2> QED BY <1>1, <2>1
<1>5. new.nth <= delivered'[new.msg]
  <2>1. delivered'[m] \in Nat /\ delivered'[m] = delivered[m] + 1
    BY DEF WasDelivered, QueueConstants
  <2> QED BY <2>1
<1>6. callbacks' \subseteq callbacks \cup {new} /\ pending' = pending
  BY DEF WasDelivered
<1>7. \A t \in callbacks' : t.nth <= delivered'[t.msg]
  BY <1>3, <1>5, <1>6 DEF TurnsOnce, QueueType
<1>8. \A c \in Convs : \A i \in DOMAIN pending[c] : pending[c][i] \in Turns
  BY DEF QueueType
<1>9. \A c \in Convs : \A i \in DOMAIN pending[c] :
        /\ Conv(pending[c][i]) = c /\ pending[c][i] \notin callbacks'
        /\ pending[c][i].nth <= delivered'[pending[c][i].msg]
  BY <1>3, <1>4, <1>6, <1>8 DEF TurnsOnce
<1> QED BY <1>6, <1>7, <1>9 DEF TurnsOnce, Conv

LEMMA LaterTurn ==
  ASSUME QueueConstants, QueueType, TurnsOnce, NEW t \in Turns, Submitted(t)
  PROVE  TurnsOnce'
<1>1. \A u \in callbacks' : u.nth <= delivered'[u.msg]
  BY DEF Submitted, TurnsOnce
<1>2. ASSUME NEW c \in Convs
      PROVE  /\ IsInjective(pending'[c])
             /\ \A i \in DOMAIN pending'[c] : /\ Conv(pending'[c][i]) = c
                                             /\ pending'[c][i] \notin callbacks'
                                             /\ pending'[c][i].nth
                                                  <= delivered'[pending'[c][i].msg]
  <2>1. CASE pending'[c] = pending[c]
    BY <2>1 DEF Submitted, TurnsOnce
  <2>2. CASE pending'[c] # pending[c]
    <3>0. c = Conv(t) /\ pending'[c] = Append(pending[c], t)
      BY <2>2 DEF Submitted
    <3> DEFINE s == pending[c]
               r == Append(s, t)
    <3>1. s \in Seq(Turns) /\ Len(s) \in Nat
      BY DEF QueueType
    <3>2. r \in Seq(Turns) /\ Len(r) = Len(s) + 1 /\ r[Len(s) + 1] = t
          /\ \A i \in 1..Len(s) : r[i] = s[i]
      BY <3>1, AppendProperties
    <3>3. DOMAIN r = 1 .. Len(s) + 1 /\ DOMAIN s = 1 .. Len(s)
      BY <3>1, <3>2
    <3>4. \A i \in DOMAIN r : (i \in DOMAIN s /\ r[i] = s[i]) \/ (i = Len(s) + 1 /\ r[i] = t)
      <4>1. \A n \in Nat : \A i \in 1 .. n + 1 : i \in 1 .. n \/ i = n + 1
        OBVIOUS
      <4>2. \A i \in DOMAIN r : i \in 1 .. Len(s) \/ i = Len(s) + 1
        BY <3>1, <3>3, <4>1
      <4> HIDE DEF s, r
      <4> QED BY <3>2, <3>3, <4>2
    <3>5. \A i \in DOMAIN s : s[i] # t
      BY DEF TurnsOnce, Submitted
    <3>6. \A i, j \in DOMAIN s : s[i] = s[j] => i = j
      BY DEF TurnsOnce, IsInjective
    <3>7. IsInjective(r)
      <4> HIDE DEF s, r
      <4> QED BY <3>4, <3>5, <3>6 DEF IsInjective
    <3>8. t.nth <= delivered'[t.msg] /\ t \notin callbacks'
      BY DEF Submitted, TurnsOnce
    <3>9. \A i \in DOMAIN s : /\ Conv(s[i]) = c /\ s[i] \notin callbacks'
                             /\ s[i].nth <= delivered'[s[i].msg]
      BY DEF Submitted, TurnsOnce
    <3> HIDE DEF s, r
    <3>10. \A i \in DOMAIN r : /\ Conv(r[i]) = c /\ r[i] \notin callbacks'
                              /\ r[i].nth <= delivered'[r[i].msg]
      BY <3>0, <3>4, <3>8, <3>9
    <3>11. pending'[c] = r
      BY <3>0 DEF s, r
    <3> QED BY <3>7, <3>10, <3>11
  <2> QED BY <2>1, <2>2
<1> QED BY <1>1, <1>2 DEF TurnsOnce, Conv

LEMMA TurnsOnceStep ==
  ASSUME QueueConstants, QueueType, TurnsOnce, [Next]_vars
  PROVE  TurnsOnce'
<1>1. ASSUME NEW t \in Turns, Processed(t) PROVE TurnsOnce'
  BY <1>1 DEF Processed, TurnsOnce, Conv
<1>2. ASSUME NEW t \in Turns, TookNext(t) PROVE TurnsOnce'
  <2>1. IsInjective(<<>>) /\ DOMAIN <<>> = {}
    BY DEF IsInjective
  <2>2. \A c \in Convs : pending'[c] = <<>> \/ pending'[c] = pending[c]
    BY <1>2 DEF TookNext
  <2>3. UNCHANGED <<delivered, callbacks>>
    BY <1>2 DEF TookNext
  <2>4. ASSUME NEW c \in Convs
        PROVE  /\ IsInjective(pending'[c])
               /\ \A i \in DOMAIN pending'[c] : /\ Conv(pending'[c][i]) = c
                                               /\ pending'[c][i] \notin callbacks'
                                               /\ pending'[c][i].nth
                                                    <= delivered'[pending'[c][i].msg]
    <3>1. CASE pending'[c] = <<>>
      BY <2>1, <3>1
    <3>2. CASE pending'[c] = pending[c]
      BY <2>3, <3>2 DEF TurnsOnce
    <3> QED BY <2>2, <3>1, <3>2
  <2> QED BY <2>3, <2>4 DEF TurnsOnce, Conv
<1>3. CASE UNCHANGED vars
  BY <1>3 DEF vars, TurnsOnce, Conv
<1> QED BY <1>1, <1>2, <1>3, NewTurn, LaterTurn, Steps

LEMMA ForgottenStep ==
  ASSUME QueueConstants, QueueType, ForgottenForOthers, [Next]_vars
  PROVE  ForgottenForOthers'
<1> USE DEF ForgottenForOthers
<1>1. ASSUME NEW m \in Messages, WasDelivered(m) PROVE ForgottenForOthers'
  <2>1. CASE m \in seen
    BY <1>1, <2>1 DEF WasDelivered
  <2>2. CASE m \notin seen
    <3>1. m \in seen'
      BY <1>1, <2>2 DEF WasDelivered, Remembered
    <3>2. \A o \in Messages \ {m} : m \in between'[o]
      BY <1>1, <2>2 DEF WasDelivered
    <3> QED BY <3>1, <3>2
  <2> QED BY <2>1, <2>2
<1>2. ASSUME NEW t \in Turns, Submitted(t) \/ Processed(t) \/ TookNext(t)
      PROVE  ForgottenForOthers'
  <2>1. UNCHANGED <<delivered, seen, between>>
    BY <1>2 DEF Submitted, Processed, TookNext
  <2> QED BY <2>1
<1>3. CASE UNCHANGED vars
  BY <1>3 DEF vars
<1> QED BY <1>1, <1>2, <1>3, Steps

-----------------------------------------------------------------------------
\* The batch in hand, of the drains D: InHand is what the drains of the state hold.
Held(D, c) == LET busy == {d \in {e \in Turns : D[e].pc # "none" /\ Conv(e) = c} :
                             D[d].pc = "process"}
              IN  IF busy = {} THEN <<>> ELSE D[CHOOSE d \in busy : TRUE].batch

LEMMA InHandIsHeld ==
  ASSUME NEW c \in Convs
  PROVE  InHand(c) = Held(drains, c) /\ InHand(c)' = Held(drains', c)
BY DEF InHand, Held, Drains, Alive, Conv

LEMMA HeldByOne ==
  ASSUME NEW D, NEW d \in Turns, D[d].pc = "process",
         \A e \in Turns \ {d} : Conv(e) = Conv(d) => D[e].pc # "process"
  PROVE  Held(D, Conv(d)) = D[d].batch
<1> DEFINE busy == {f \in {e \in Turns : D[e].pc # "none" /\ Conv(e) = Conv(d)} :
                        D[f].pc = "process"}
<1>1. busy = {d}
  OBVIOUS
<1>2. (CHOOSE e \in busy : TRUE) = d
  BY <1>1
<1> QED BY <1>1, <1>2 DEF Held

LEMMA HeldByNone ==
  ASSUME NEW D, NEW c, \A e \in Turns : Conv(e) = c => D[e].pc # "process"
  PROVE  Held(D, c) = <<>>
BY DEF Held

LEMMA HeldSame ==
  ASSUME NEW D, NEW E, NEW c, \A e \in Turns : Conv(e) = c => D[e] = E[e]
  PROVE  Held(D, c) = Held(E, c)
<1> DEFINE busy(F) == {d \in {e \in Turns : F[e].pc # "none" /\ Conv(e) = c} :
                           F[d].pc = "process"}
<1>1. busy(D) = busy(E)
  OBVIOUS
<1>2. CASE busy(D) = {}
  BY <1>1, <1>2 DEF Held
<1>3. CASE busy(D) # {}
  <2>1. (CHOOSE e \in busy(D) : TRUE) \in busy(D)
    BY <1>3
  <2>2. (CHOOSE e \in busy(D) : TRUE) = (CHOOSE e \in busy(E) : TRUE)
    BY <1>1
  <2>3. D[CHOOSE e \in busy(D) : TRUE] = E[CHOOSE e \in busy(E) : TRUE]
    BY <2>1, <2>2
  <2> QED BY <1>1, <1>3, <2>3 DEF Held
<1> QED BY <1>2, <1>3

\* What is in hand is a sequence of turns.
LEMMA HeldType ==
  ASSUME QueueType, NEW c
  PROVE  Held(drains, c) \in Seq(Turns)
<1> DEFINE busy == {d \in {e \in Turns : drains[e].pc # "none" /\ Conv(e) = c} :
                        drains[d].pc = "process"}
<1>1. CASE busy = {}
  BY <1>1, EmptySeq DEF Held
<1>2. CASE busy # {}
  <2>1. (CHOOSE e \in busy : TRUE) \in Turns
    BY <1>2
  <2>2. \A d \in Turns : drains[d].batch \in Seq(Turns)
    BY DEF QueueType
  <2> QED BY <1>2, <2>1, <2>2 DEF Held
<1> QED BY <1>1, <1>2

LEMMA Associative ==
  ASSUME NEW p \in Seq(Turns), NEW h \in Seq(Turns), NEW w \in Seq(Turns)
  PROVE  (p \o h) \o w = p \o (h \o w)
BY ConcatAssociative, SMT

\* A turn that comes last, and turns that are moved from one place of the order to the next.
LEMMA ComesLast ==
  ASSUME NEW p \in Seq(Turns), NEW h \in Seq(Turns), NEW w \in Seq(Turns), NEW t \in Turns
  PROVE  Append(p \o h \o w, t) = p \o h \o Append(w, t)
<1>1. /\ p \o h \in Seq(Turns) /\ p \o h \o w \in Seq(Turns) /\ <<t>> \in Seq(Turns)
  BY ConcatProperties
<1>2. (p \o h \o w) \o <<t>> = p \o h \o (w \o <<t>>)
  <2> DEFINE q == p \o h
             u == <<t>>
  <2>1. q \in Seq(Turns) /\ u \in Seq(Turns)
    BY <1>1
  <2> HIDE DEF q, u
  <2>2. (q \o w) \o u = q \o (w \o u)
    BY <2>1, Associative, ZenonT(40)
  <2> QED BY <2>2 DEF q, u
<1>3. Append(p \o h \o w, t) = (p \o h \o w) \o <<t>> /\ Append(w, t) = w \o <<t>>
  BY <1>1, AppendIsConcat
<1> QED BY <1>2, <1>3

LEMMA ComesFirst ==
  ASSUME NEW p \in Seq(Turns), NEW t \in Turns
  PROVE  Append(p \o <<>> \o <<>>, t) = p \o <<t>> \o <<>>
<1>1. p \o <<>> = p /\ <<t>> \in Seq(Turns)
  BY ConcatEmptySeq
<1>2. p \o <<t>> \in Seq(Turns)
  BY <1>1, ConcatProperties
<1>3. (p \o <<t>>) \o <<>> = p \o <<t>>
  BY <1>2, ConcatEmptySeq
<1>4. Append(p, t) = p \o <<t>>
  BY AppendIsConcat
<1> QED BY <1>1, <1>3, <1>4

LEMMA IsProcessed ==
  ASSUME NEW p \in Seq(Turns), NEW h \in Seq(Turns), NEW w \in Seq(Turns)
  PROVE  p \o h \o w = (p \o h) \o <<>> \o w
<1>1. p \o h \in Seq(Turns)
  BY ConcatProperties
<1>2. (p \o h) \o <<>> = p \o h
  BY <1>1, ConcatEmptySeq
<1> QED BY <1>2

LEMMA IsTaken ==
  ASSUME NEW p \in Seq(Turns), NEW w \in Seq(Turns)
  PROVE  p \o <<>> \o w = p \o w \o <<>>
<1>1. p \o w \in Seq(Turns)
  BY ConcatProperties
<1>2. (p \o w) \o <<>> = p \o w /\ p \o <<>> = p
  BY <1>1, ConcatEmptySeq
<1> QED BY <1>2

LEMMA OrderStep ==
  ASSUME QueueConstants, QueueType, OneDrain, BurstsKeepOrder, [Next]_vars
  PROVE  BurstsKeepOrder'
<1> SUFFICES ASSUME NEW c \in Convs
             PROVE  entered'[c] = ended'[c] \o Held(drains', c) \o pending'[c]
  BY InHandIsHeld DEF BurstsKeepOrder
<1>1. entered[c] = ended[c] \o Held(drains, c) \o pending[c]
  BY InHandIsHeld DEF BurstsKeepOrder
<1>2. /\ ended[c] \in Seq(Turns) /\ pending[c] \in Seq(Turns) /\ Held(drains, c) \in Seq(Turns)
      /\ <<>> \in Seq(Turns)
  BY HeldType, EmptySeq DEF QueueType
<1>3. CASE UNCHANGED <<drains, entered, ended, pending>>
  BY <1>1, <1>3
<1>4. ASSUME NEW m \in Messages, WasDelivered(m)
      PROVE  entered'[c] = ended'[c] \o Held(drains', c) \o pending'[c]
  BY <1>3, <1>4 DEF WasDelivered
<1>5. ASSUME NEW t \in Turns, Submitted(t)
      PROVE  entered'[c] = ended'[c] \o Held(drains', c) \o pending'[c]
  <2>1. CASE c # Conv(t)
    <3>1. Held(drains', c) = Held(drains, c)
      <4>1. \A e \in Turns : Conv(e) = c => drains'[e] = drains[e]
        BY <1>5, <2>1 DEF Submitted
      <4> QED BY <4>1, HeldSame
    <3>2. entered'[c] = entered[c] /\ pending'[c] = pending[c] /\ ended' = ended
      BY <1>5, <2>1 DEF Submitted
    <3> QED BY <1>1, <3>1, <3>2
  <2>2. CASE c = Conv(t) /\ Conv(t) \notin running
    <3>1. \A e \in Turns : Conv(e) = c => drains[e].pc = "none"
      BY <2>2 DEF OneDrain, Alive
    <3>2. Held(drains, c) = <<>>
      BY <3>1, HeldByNone
    <3>3. pending[c] = <<>>
      BY <2>2 DEF OneDrain
    <3>4. drains'[t] = [pc |-> "process", batch |-> <<t>>] /\ pending' = pending
      BY <1>5, <2>2 DEF Submitted
    <3>5. \A e \in Turns \ {t} : Conv(e) = Conv(t) => drains'[e].pc # "process"
      BY <1>5, <2>2, <3>1 DEF Submitted
    <3>6. Held(drains', c) = <<t>>
      <4>1. drains'[t].pc = "process" /\ drains'[t].batch = <<t>>
        BY <3>4
      <4> QED BY <2>2, <3>5, <4>1, HeldByOne
    <3>7. entered'[c] = Append(entered[c], t) /\ ended'[c] = ended[c]
      BY <1>5, <2>2 DEF Submitted
    <3>8. Append(ended[c] \o <<>> \o <<>>, t) = ended[c] \o <<t>> \o <<>>
      BY <1>2, ComesFirst
    <3> QED BY <1>1, <3>2, <3>3, <3>4, <3>6, <3>7, <3>8
  <2>3. CASE c = Conv(t) /\ Conv(t) \in running
    <3>1. drains' = drains /\ ended' = ended
      BY <1>5, <2>3 DEF Submitted
    <3>2. entered'[c] = Append(entered[c], t) /\ pending'[c] = Append(pending[c], t)
      BY <1>5, <2>3 DEF Submitted
    <3>3. Append(ended[c] \o Held(drains, c) \o pending[c], t)
            = ended[c] \o Held(drains, c) \o Append(pending[c], t)
      <4> DEFINE p == ended[c]
                 h == Held(drains, c)
                 w == pending[c]
      <4>1. p \in Seq(Turns) /\ h \in Seq(Turns) /\ w \in Seq(Turns)
        BY <1>2
      <4> HIDE DEF p, h, w
      <4>2. Append(p \o h \o w, t) = p \o h \o Append(w, t)
        BY <4>1, ComesLast, ZenonT(40)
      <4> QED BY <4>2 DEF p, h, w
    <3> QED BY <1>1, <3>1, <3>2, <3>3
  <2> QED BY <2>1, <2>2, <2>3
<1>6. ASSUME NEW d \in Turns, Processed(d)
      PROVE  entered'[c] = ended'[c] \o Held(drains', c) \o pending'[c]
  <2>0. UNCHANGED <<entered, pending>>
    BY <1>6 DEF Processed
  <2>1. CASE c # Conv(d)
    <3>1. \A e \in Turns : Conv(e) = c => drains'[e] = drains[e]
      BY <1>6, <2>1 DEF Processed
    <3>2. Held(drains', c) = Held(drains, c)
      BY <3>1, HeldSame
    <3>3. ended'[c] = ended[c]
      BY <1>6, <2>1 DEF Processed
    <3> QED BY <1>1, <2>0, <3>2, <3>3
  <2>2. CASE c = Conv(d)
    <3>1. \A e \in Turns \ {d} : Conv(e) = Conv(d) => drains[e].pc = "none"
      BY <1>6 DEF Processed, OneDrain, Alive
    <3>2. Held(drains, c) = drains[d].batch
      BY <1>6, <2>2, <3>1, HeldByOne DEF Processed
    <3>3. \A e \in Turns : Conv(e) = c => drains'[e].pc # "process"
      BY <1>6, <2>2, <3>1 DEF Processed
    <3>4. Held(drains', c) = <<>>
      BY <3>3, HeldByNone
    <3>5. ended'[c] = ended[c] \o Held(drains, c)
      BY <1>6, <2>2, <3>2 DEF Processed
    <3>6. ended[c] \o Held(drains, c) \o pending[c]
            = (ended[c] \o Held(drains, c)) \o <<>> \o pending[c]
      BY <1>2, IsProcessed
    <3> QED BY <1>1, <2>0, <3>4, <3>5, <3>6
  <2> QED BY <2>1, <2>2
<1>7. ASSUME NEW d \in Turns, TookNext(d)
      PROVE  entered'[c] = ended'[c] \o Held(drains', c) \o pending'[c]
  <2>0. UNCHANGED <<entered, ended>>
    BY <1>7 DEF TookNext
  <2>1. CASE c # Conv(d)
    <3>1. \A e \in Turns : Conv(e) = c => drains'[e] = drains[e]
      BY <1>7, <2>1 DEF TookNext
    <3>2. Held(drains', c) = Held(drains, c)
      BY <3>1, HeldSame
    <3>3. pending'[c] = pending[c]
      BY <1>7, <2>1 DEF TookNext
    <3> QED BY <1>1, <2>0, <3>2, <3>3
  <2>2. CASE c = Conv(d)
    <3>1. \A e \in Turns \ {d} : Conv(e) = Conv(d) => drains[e].pc = "none"
      BY <1>7 DEF TookNext, OneDrain, Alive
    <3>2. \A e \in Turns : Conv(e) = c => drains[e].pc # "process"
      BY <1>7, <2>2, <3>1 DEF TookNext
    <3>3. Held(drains, c) = <<>>
      BY <3>2, HeldByNone
    <3>4. \A e \in Turns \ {d} : Conv(e) = Conv(d) => drains'[e].pc # "process"
      BY <1>7, <3>1 DEF TookNext
    <3>5. pending'[c] = <<>>
      BY <1>7, <2>2 DEF TookNext
    <3>6. Held(drains', c) = pending[c]
      <4>1. CASE pending[c] = <<>> /\ drains'[d].pc = "none"
        <5>1. \A e \in Turns : Conv(e) = c => drains'[e].pc # "process"
          BY <2>2, <3>4, <4>1
        <5> QED BY <4>1, <5>1, HeldByNone
      <4>2. CASE drains'[d].pc = "process" /\ drains'[d].batch = pending[c]
        BY <2>2, <3>4, <4>2, HeldByOne
      <4> QED BY <1>7, <2>2, <4>1, <4>2 DEF TookNext
    <3>7. ended[c] \o <<>> \o pending[c] = ended[c] \o pending[c] \o <<>>
      BY <1>2, IsTaken
    <3> QED BY <1>1, <2>0, <3>3, <3>5, <3>6, <3>7
  <2> QED BY <2>1, <2>2
<1>8. CASE UNCHANGED vars
  BY <1>3, <1>8 DEF vars
<1> QED BY <1>4, <1>5, <1>6, <1>7, <1>8, Steps

-----------------------------------------------------------------------------
(* What a merge keeps.                                                     *)

LEMMA LeastNat == ASSUME NEW T, T \subseteq Nat, T # {} PROVE \E x \in T : \A y \in T : x <= y
<1>1. PICK x \in T : \A y \in T : ~ (<<y, x>> \in OpToRel(<, Nat))
  BY WFMin, NatLessThanWellFounded
<1>2. \A y \in T : ~ (y < x)
  BY <1>1 DEF OpToRel
<1> QED BY <1>2

\* The latest command or decision of a batch is the one that the merge keeps; the least
\* bound of their places is one of them.
LEMMA LatestWord ==
  ASSUME NEW b \in Seq(Turns), Words(b) # {}
  PROVE  Max(Words(b)) \in Words(b) /\ \A k \in Words(b) : k <= Max(Words(b))
<1> DEFINE W == Words(b)
           U == {n \in Nat : \A k \in W : k <= n}
<1>1. Len(b) \in Nat /\ W \subseteq 1..Len(b)
  BY DEF Words
<1>2. Len(b) \in U
  BY <1>1
<1>3. PICK m \in U : \A n \in U : m <= n
  BY <1>2, LeastNat
<1> HIDE DEF W
<1>4. m \in Nat /\ m # 0
  BY <1>1, <1>3 DEF W
<1>5. m - 1 \in Nat /\ m - 1 \notin U
  BY <1>3, <1>4
<1>6. PICK k \in W : ~(k <= m - 1)
  BY <1>5
<1>7. k = m
  BY <1>1, <1>3, <1>6
<1>8. m \in W /\ \A l \in W : m >= l
  BY <1>1, <1>3, <1>6, <1>7
<1>9. Max(W) \in W /\ \A l \in W : Max(W) >= l
  BY <1>8 DEF Max
<1> QED BY <1>1, <1>9 DEF W

\* Two sequences one behind the other.
LEMMA Behind ==
  ASSUME NEW e \in Seq(Turns), NEW b \in Seq(Turns)
  PROVE  /\ Len(e) \in Nat
         /\ \A i \in DOMAIN e : i \in DOMAIN (e \o b) /\ (e \o b)[i] = e[i] /\ i <= Len(e) /\ i \in Nat
         /\ \A k \in DOMAIN b : /\ Len(e) + k \in DOMAIN (e \o b) /\ (e \o b)[Len(e) + k] = b[k]
                                /\ k \in Nat
         /\ \A i \in DOMAIN (e \o b) : i \in DOMAIN e \/ \E k \in DOMAIN b : i = Len(e) + k
<1>1. /\ e \o b \in Seq(Turns) /\ Len(e) \in Nat /\ Len(b) \in Nat /\ Len(e \o b) = Len(e) + Len(b)
      /\ \A i \in 1..(Len(e) + Len(b)) : (e \o b)[i] = IF i <= Len(e) THEN e[i] ELSE b[i - Len(e)]
  BY ConcatProperties
<1>2. DOMAIN e = 1..Len(e) /\ DOMAIN b = 1..Len(b) /\ DOMAIN (e \o b) = 1..(Len(e) + Len(b))
  BY <1>1
<1> DEFINE w == e \o b
           n == Len(e)
           l == Len(b)
<1>3. /\ n \in Nat /\ l \in Nat /\ DOMAIN e = 1..n /\ DOMAIN b = 1..l /\ DOMAIN w = 1..(n + l)
      /\ \A i \in 1..(n + l) : w[i] = IF i <= n THEN e[i] ELSE b[i - n]
  BY <1>1, <1>2
<1> HIDE DEF w, n, l
<1>4. \A i \in 1..n : i \in 1..(n + l) /\ i <= n /\ i \in Nat
  BY <1>3
<1>5. \A k \in 1..l : n + k \in 1..(n + l) /\ ~(n + k <= n) /\ (n + k) - n = k /\ k \in Nat
  BY <1>3
<1>6. \A i \in 1..(n + l) : i \in 1..n \/ (i - n \in 1..l /\ i = n + (i - n))
  BY <1>3
<1> QED BY <1>3, <1>4, <1>5, <1>6 DEF w, n, l

LEMMA MergeStep ==
  ASSUME QueueConstants, QueueType, MergesKeepWords, [Next]_vars
  PROVE  MergesKeepWords'
<1>1. ASSUME UNCHANGED <<ended, handled>> PROVE MergesKeepWords'
  BY <1>1 DEF MergesKeepWords, DroppedForWord, Words
<1>2. ASSUME NEW m \in Messages, WasDelivered(m) PROVE MergesKeepWords'
  BY <1>1, <1>2 DEF WasDelivered
<1>3. ASSUME NEW t \in Turns, Submitted(t) PROVE MergesKeepWords'
  BY <1>1, <1>3 DEF Submitted
<1>4. ASSUME NEW t \in Turns, TookNext(t) PROVE MergesKeepWords'
  BY <1>1, <1>4 DEF TookNext
<1>5. ASSUME NEW d \in Turns, Processed(d) PROVE MergesKeepWords'
  <2> DEFINE b == drains[d].batch
             e == ended[Conv(d)]
  <2>1. b \in Seq(Turns) /\ e \in Seq(Turns) /\ Conv(d) \in Convs
    BY ConvType DEF QueueType
  <2>2. /\ ended'[Conv(d)] = e \o b /\ handled' = handled \cup Merged(b)
        /\ \A c \in Convs \ {Conv(d)} : ended'[c] = ended[c]
    BY <1>5 DEF Processed
  <2> HIDE DEF b, e
  <2> SUFFICES ASSUME NEW c \in Convs, NEW i \in DOMAIN ended'[c], ended'[c][i] \notin handled'
               PROVE  DroppedForWord(c, i)'
    BY DEF MergesKeepWords
  <2>3. CASE c # Conv(d)
    <3>1. ended'[c] = ended[c] /\ ended[c][i] \notin handled
      BY <2>2, <2>3
    <3> QED BY <2>2, <3>1 DEF MergesKeepWords, DroppedForWord, Words
  <2>4. CASE c = Conv(d)
    <3> DEFINE w == e \o b
    <3>0. ended'[c] = w /\ i \in DOMAIN w /\ w[i] \notin handled'
      BY <2>2, <2>4
    <3> SUFFICES \E j \in Words(w) : w[j] \in handled' /\ (i \in Words(w) => i < j)
      BY <3>0 DEF DroppedForWord, Words
    <3>1. CASE i \in DOMAIN e
      <4>1. w[i] = e[i] /\ e[i] \notin handled
        BY <2>1, <2>2, <3>0, <3>1, Behind
      <4>2. DroppedForWord(c, i)
        BY <2>4, <3>1, <4>1 DEF MergesKeepWords, e
      <4>3. PICK j \in Words(e) : e[j] \in handled /\ (i \in Words(e) => i < j)
        BY <2>4, <4>2 DEF DroppedForWord, e
      <4>4. j \in DOMAIN e /\ j \in Words(w) /\ w[j] = e[j]
        BY <2>1, Behind DEF Words
      <4>5. i \in Words(w) => i \in Words(e)
        BY <3>1, <4>1 DEF Words
      <4> QED BY <2>2, <4>3, <4>4, <4>5
    <3>2. CASE \E k \in DOMAIN b : i = Len(e) + k
      <4>1. PICK k \in DOMAIN b : i = Len(e) + k
        BY <3>2
      <4>2. w[i] = b[k] /\ k \in Nat /\ Len(e) \in Nat
        BY <2>1, <4>1, Behind
      <4>3. b[k] \notin Merged(b)
        BY <2>2, <3>0, <4>2
      <4>4. Words(b) # {}
        BY <4>3 DEF Merged, ToSet
      <4> DEFINE l == Max(Words(b))
      <4>5. l \in Words(b) /\ \A n \in Words(b) : n <= l
        BY <2>1, <4>4, LatestWord
      <4>6. b[l] \in handled' /\ k # l
        BY <2>2, <4>3, <4>4 DEF Merged
      <4> HIDE DEF l
      <4>7. l \in DOMAIN b /\ l \in Nat /\ w[Len(e) + l] = b[l] /\ Len(e) + l \in Words(w)
        <5>1. l \in DOMAIN b /\ b[l].msg \in Alone
          BY <4>5 DEF Words
        <5>2. l \in Nat /\ Len(e) + l \in DOMAIN w /\ w[Len(e) + l] = b[l]
          BY <2>1, <5>1, Behind
        <5> HIDE DEF w
        <5> QED BY <5>1, <5>2 DEF Words
      <4>8. i \in Words(w) => k \in Words(b)
        BY <4>1, <4>2 DEF Words
      <4>9. i \in Words(w) => i < Len(e) + l
        BY <4>1, <4>2, <4>5, <4>6, <4>7, <4>8
      <4> QED BY <4>6, <4>7, <4>9
    <3> QED BY <2>1, <3>0, <3>1, <3>2, Behind
  <2> QED BY <2>3, <2>4
<1>6. CASE UNCHANGED vars
  BY <1>1, <1>6 DEF vars
<1> QED BY <1>2, <1>3, <1>4, <1>5, <1>6, Steps

-----------------------------------------------------------------------------
LEMMA QueueStart ==
  ASSUME QueueConstants, Init
  PROVE  QueueInv
<1> USE DEF Init
<1>1. QueueType
  <2>1. IsFiniteSet({}) /\ Cardinality({}) = 0
    BY FS_EmptySet
  <2>2. <<>> \in Seq(Turns) /\ 0 \in 0..MaxDeliveries /\ 0 <= Limit
    BY EmptySeq DEF QueueConstants
  <2>3. NoDrain \in [pc : {"none", "process", "next"}, batch : Seq(Turns)]
    BY <2>2 DEF NoDrain
  <2> QED BY <2>1, <2>2, <2>3 DEF QueueType
<1>2. \A d \in Turns : drains[d].pc = "none" /\ drains[d].batch = <<>>
  BY DEF NoDrain
<1>3. OneDrain
  BY <1>2 DEF OneDrain, Alive
<1>4. DOMAIN <<>> = {} /\ IsInjective(<<>>)
  BY DEF IsInjective
<1>5. TurnsOnce
  BY <1>4 DEF TurnsOnce
<1>6. BatchesAreOwn
  BY <1>2, <1>4 DEF BatchesAreOwn, Alive
<1>7. BurstsKeepOrder
  <2> SUFFICES ASSUME NEW c \in Convs PROVE entered[c] = ended[c] \o Held(drains, c) \o pending[c]
    BY InHandIsHeld DEF BurstsKeepOrder
  <2>1. Held(drains, c) = <<>>
    BY <1>2, HeldByNone
  <2>2. <<>> \o <<>> = <<>>
    BY EmptySeq, ConcatEmptySeq
  <2> QED BY <2>1, <2>2
<1>8. ForgottenForOthers
  BY DEF ForgottenForOthers
<1>9. MergesKeepWords
  BY <1>4 DEF MergesKeepWords
<1> QED BY <1>1, <1>3, <1>5, <1>6, <1>7, <1>8, <1>9 DEF QueueInv

LEMMA QueueStep ==
  ASSUME QueueConstants, QueueInv, [Next]_vars
  PROVE  QueueInv'
BY TypeStep, OneDrainStep, TurnsOnceStep, BatchStep, OrderStep, MergeStep, ForgottenStep DEF QueueInv

\* The invariant that carries the properties of the queue (connect_queue.go:26-84,
\* connect_stream.go:1060-1084): a conversation in running has one drain and nobody else's
\* turns wait in its place.
THEOREM QueueInvariant == QueueConstants => (Spec => []QueueInv)
<1> SUFFICES ASSUME QueueConstants PROVE Spec => []QueueInv
  OBVIOUS
<1>1. Init => QueueInv
  BY QueueStart
<1>2. QueueInv /\ [Next]_vars => QueueInv'
  BY QueueStep
<1> QED BY <1>1, <1>2, PTL DEF Spec

\* Turns of one conversation never run in parallel (connect_queue.go:20-21).
THEOREM OneTurnAtATimeAlways == QueueConstants => (Spec => []OneTurnAtATime)
<1> SUFFICES ASSUME QueueConstants PROVE Spec => []OneTurnAtATime
  OBVIOUS
<1>1. QueueInv => OneTurnAtATime
  <2> SUFFICES ASSUME QueueInv, NEW c \in Convs PROVE Cardinality(Drains(c)) <= 1
    BY DEF OneTurnAtATime
  <2>1. \A d, e \in Drains(c) : d = e
    BY DEF QueueInv, OneDrain, Drains
  <2>2. CASE Drains(c) = {}
    BY <2>2, FS_EmptySet
  <2>3. CASE Drains(c) # {}
    <3>1. PICK d \in Drains(c) : TRUE
      BY <2>3
    <3>2. Drains(c) = {d}
      BY <2>1, <3>1
    <3>3. Cardinality({d}) = 1
      BY FS_Singleton
    <3> QED BY <3>2, <3>3
  <2> QED BY <2>2, <2>3
<1>2. Spec => []QueueInv
  BY QueueInvariant
<1> QED BY <1>1, <1>2, PTL

\* What was submitted to a conversation has been in a batch, is in one that runs or is
\* pending, in the order in which it came and with no turn left out (connect_queue.go:44-84).
THEOREM BurstsKeepOrderAlways == QueueConstants => (Spec => []BurstsKeepOrder)
<1> SUFFICES ASSUME QueueConstants PROVE Spec => []BurstsKeepOrder
  OBVIOUS
<1>1. QueueInv => BurstsKeepOrder
  BY DEF QueueInv
<1>2. Spec => []QueueInv
  BY QueueInvariant
<1> QED BY <1>1, <1>2, PTL

\* The queue's variables have their types, and a turn waits in one place only.
THEOREM QueueTypes == QueueConstants => (Spec => []TypeOK)
<1> SUFFICES ASSUME QueueConstants PROVE Spec => []TypeOK
  OBVIOUS
<1>1. QueueInv => TypeOK
  BY DEF QueueInv, QueueType, TurnsOnce, BatchesAreOwn, TypeOK, ToSet
<1>2. Spec => []QueueInv
  BY QueueInvariant
<1> QED BY <1>1, <1>2, PTL

\* A message is queued again only after the set of seen ids was cleared, and that takes at
\* least one other new message after it (connect_stream.go:1073-1083).
THEOREM QueuedAgainOnlyAfterOthers == QueueConstants => (Spec => QueuedAgainAfterOthers)
<1> SUFFICES ASSUME QueueConstants PROVE Spec => QueuedAgainAfterOthers
  OBVIOUS
<1> DEFINE After == \A m \in Messages :
                      m \notin seen /\ m \in seen' /\ delivered[m] > 0 => between[m] # {}
<1>1. QueueInv => [After]_vars
  BY DEF QueueInv, ForgottenForOthers
<1>2. Spec => []QueueInv
  BY QueueInvariant
<1> QED BY <1>1, <1>2, PTL DEF QueuedAgainAfterOthers

\* A merge drops a turn only for a command or a decision of its conversation that is carried
\* out, and one of these only for a later one (connect_stream.go:1128-1139).
THEOREM MergesKeepWordsAlways == QueueConstants => (Spec => []MergesKeepWords)
<1> SUFFICES ASSUME QueueConstants PROVE Spec => []MergesKeepWords
  OBVIOUS
<1>1. QueueInv => MergesKeepWords
  BY DEF QueueInv
<1>2. Spec => []QueueInv
  BY QueueInvariant
<1> QED BY <1>1, <1>2, PTL

\* Each conversation's turns are run one at a time and batched in the order in which they
\* came, with none left out but by a merge, for a command or a decision
\* (connect_queue.go:44-84, connect_stream.go:1128-1139).
THEOREM TurnsKeepOrderAlways == QueueConstants => (Spec => []TurnsKeepOrder)
<1> SUFFICES ASSUME QueueConstants PROVE Spec => []TurnsKeepOrder
  OBVIOUS
<1>1. /\ (Spec => []TypeOK) /\ (Spec => []OneTurnAtATime) /\ (Spec => []BurstsKeepOrder)
      /\ (Spec => []MergesKeepWords)
  BY QueueTypes, OneTurnAtATimeAlways, BurstsKeepOrderAlways, MergesKeepWordsAlways
<1> QED BY <1>1, PTL DEF TurnsKeepOrder
=============================================================================
