---------------------------- MODULE PartsProofs ----------------------------
(***************************************************************************)
(* Two parts of the event bus that share no state, each for every value of *)
(* its constants.  The credential broker: no wake-up is missed, and what   *)
(* is slow never undoes or blames a token that a host has brought          *)
(* meanwhile.  The loop of a consumer of many subscriptions: it delivers   *)
(* each one's events in order and once, and ends for what really happened. *)
(***************************************************************************)
EXTENDS RuntimeBroker, ConsumeMany, SequenceTheorems, TLAPS

\* The source has taken `changed` no later than now.
NoticedBefore == noticed <= signals

\* What a host was told of is not of the future, and while it is the current generation
\* the token is the host's.
OwnGeneration ==
  \A h \in Hosts : /\ known[h] <= generation
                   /\ hostAt[h] = "activate" /\ known[h] = generation => token = TokenOf[h]

\* On its way to a rejection the source holds a token that was refused.
RefusedIsRevoked ==
  at \in {"refresh", "call", "refreshing", "classify"} \/ (at = "wait" /\ back = "refresh")
    => used \in revoked

\* A refresh is of a token; a verdict is the end.
RefreshHasToken ==
  /\ at \in {"call", "refreshing"} \/ (at = "wait" /\ back = "refresh") => used # NoToken
  /\ at # "returned" => verdict = "none"

BrokerInv ==
  /\ TypeOK /\ NoMissedWake /\ NoticedBefore /\ OwnGeneration
  /\ RefusedIsRevoked /\ RefreshHasToken

-----------------------------------------------------------------------------
USE BrokerAssumption

LEMMA BrokerStart == Init => BrokerInv
BY DEF Init, BrokerInv, TypeOK, NoMissedWake, NoticedBefore, OwnGeneration, RefusedIsRevoked,
       RefreshHasToken, Usable, Tokens

\* The source moves, and a token in its hands comes from the broker or from local OAuth.
LEMMA SourceStep ==
  ASSUME BrokerInv, Source
  PROVE  BrokerInv'
<1> USE DEF BrokerInv, TypeOK, NoMissedWake, NoticedBefore, OwnGeneration, RefusedIsRevoked,
            RefreshHasToken, Others, broker, hosts, Usable, MustWait
<1>1. CASE Resolve
  BY <1>1 DEF Resolve, Give, Move, WaitFrom
<1>2. CASE Wake
  BY <1>2 DEF Wake, Move
<1>3. CASE RefreshRejected
  BY <1>3 DEF RefreshRejected, Give, Move, WaitFrom, Return
<1>4. CASE CallLocalRefresh
  BY <1>4 DEF CallLocalRefresh, Move
<1>5. CASE Classify
  BY <1>5 DEF Classify, Move, Return
<1>6. CASE Backoff
  BY <1>6 DEF Backoff, Move
<1>7. ASSUME NEW t \in LocalTokens, LocalResolved(t) PROVE BrokerInv'
  BY <1>7 DEF LocalResolved, Give
<1>8. ASSUME NEW t \in LocalTokens, LocalRefreshed(t) PROVE BrokerInv'
  BY <1>8 DEF LocalRefreshed, Give, Return
<1>9. CASE Refused
  BY <1>9 DEF Refused, Move
<1>10. CASE Granted
  BY <1>10 DEF Granted, Move
<1>11. CASE Retryable
  BY <1>11 DEF Retryable, Move
<1>12. CASE Fatal
  BY <1>12 DEF Fatal, Return
<1> QED BY <1>1, <1>2, <1>3, <1>4, <1>5, <1>6, <1>7, <1>8, <1>9, <1>10, <1>11, <1>12 DEF Source

\* A host changes the token only with the generation, and says so to who waits.
LEMMA HostStep ==
  ASSUME BrokerInv, NEW h \in Hosts, Host(h)
  PROVE  BrokerInv'
<1> USE DEF BrokerInv, TypeOK, NoMissedWake, NoticedBefore, OwnGeneration, RefusedIsRevoked,
            RefreshHasToken, source, Usable
<1>1. CASE AskGeneration(h)
  BY <1>1 DEF AskGeneration, broker
<1>2. CASE Update(h)
  <2>1. CASE token = TokenOf[h]
    BY <1>2, <2>1 DEF Update, broker
  <2>2. CASE token # TokenOf[h]
    BY <1>2, <2>2 DEF Update, Tokens
  <2> QED BY <2>1, <2>2
<1>3. CASE Conflict(h)
  BY <1>3 DEF Conflict, broker
<1>4. CASE Activate(h)
  BY <1>4 DEF Activate
<1>5. CASE ActivateConflict(h)
  BY <1>5 DEF ActivateConflict, broker
<1>6. CASE Again(h)
  BY <1>6 DEF Again, broker
<1> QED BY <1>1, <1>2, <1>3, <1>4, <1>5, <1>6 DEF Host

LEMMA BrokerStep == BrokerInv /\ [Next]_bvars => BrokerInv'
<1> SUFFICES ASSUME BrokerInv, [Next]_bvars PROVE BrokerInv'
  OBVIOUS
<1> USE DEF BrokerInv, TypeOK, NoMissedWake, NoticedBefore, OwnGeneration, RefusedIsRevoked,
            RefreshHasToken, broker, hosts, source, Usable
<1>1. CASE Cancelled
  BY <1>1 DEF Cancelled, Return, Others
<1>2. ASSUME NEW t \in Tokens \cup LocalTokens, Revoke(t) PROVE BrokerInv'
  BY <1>2 DEF Revoke
<1>3. CASE UNCHANGED bvars
  BY <1>3 DEF bvars
<1> QED BY <1>1, <1>2, <1>3, SourceStep, HostStep DEF Next

-----------------------------------------------------------------------------
\* The invariant that carries the properties of the broker (broker.go:118-270): who waits
\* took the channel no later than now, the current generation is of one host's token, and
\* what is refreshed or blamed is a token that the service refused.
THEOREM BrokerInvariant == Spec => []BrokerInv
<1> QED BY BrokerStart, BrokerStep, PTL DEF Spec

\* No Update or Activate between the snapshot of a source and its wait is missed
\* (broker.go:180-194).
THEOREM NoWakeIsMissed == Spec => []NoMissedWake
<1>1. BrokerInv => NoMissedWake
  BY DEF BrokerInv
<1> QED BY <1>1, BrokerInvariant, PTL

\* The broker's, the hosts' and the source's variables have their types.
THEOREM BrokerTypes == Spec => []TypeOK
<1>1. BrokerInv => TypeOK
  BY DEF BrokerInv
<1> QED BY <1>1, BrokerInvariant, PTL

\* The bus ends for a rejected runtime token only while the token that the service refused
\* is the installed one (broker.go:214-270).
LEMMA RejectsCurrent ==
  BrokerInv /\ [Next]_bvars
    => [verdict = "none" /\ verdict' = "rejected"
          => Usable /\ used = token /\ used \in revoked]_bvars
<1> SUFFICES ASSUME BrokerInv, Next, verdict = "none", verdict' = "rejected"
             PROVE  Usable /\ used = token /\ used \in revoked
  OBVIOUS
<1> USE DEF BrokerInv, RefusedIsRevoked, Give, Move, WaitFrom, Return, Others, source
<1>1. CASE Source
  <2>1. CASE RefreshRejected
    BY <2>1 DEF RefreshRejected
  <2>2. ASSUME NEW t \in LocalTokens, LocalRefreshed(t)
        PROVE  Usable /\ used = token /\ used \in revoked
    BY <2>2 DEF LocalRefreshed
  <2>3. CASE Classify
    BY <2>3 DEF Classify
  <2>4. CASE Resolve \/ Wake \/ CallLocalRefresh \/ Backoff \/ Refused \/ Granted
             \/ Retryable \/ Fatal
    BY <2>4 DEF Resolve, Wake, CallLocalRefresh, Backoff, Refused, Granted, Retryable, Fatal
  <2>5. ASSUME NEW t \in LocalTokens, LocalResolved(t) PROVE FALSE
    BY <2>5 DEF LocalResolved
  <2> QED BY <1>1, <2>1, <2>2, <2>3, <2>4, <2>5 DEF Source
<1>2. CASE Cancelled
  BY <1>2 DEF Cancelled
<1>3. ASSUME NEW h \in Hosts, Host(h) PROVE FALSE
  BY <1>3 DEF Host, AskGeneration, Update, Conflict, Activate, ActivateConflict, Again
<1>4. ASSUME NEW t \in Tokens \cup LocalTokens, Revoke(t) PROVE FALSE
  BY <1>4 DEF Revoke
<1> QED BY <1>1, <1>2, <1>3, <1>4 DEF Next

\* What Activate makes usable is what this host's Update installed (broker.go:157-175).
LEMMA ActivatesOwn ==
  BrokerInv /\ [Next]_bvars
    => [\A h \in Hosts :
          ~active /\ active' /\ hostAt[h] # hostAt'[h] => token = TokenOf[h]]_bvars
<1> SUFFICES ASSUME BrokerInv, Next, NEW h \in Hosts,
                    ~active, active', hostAt[h] # hostAt'[h]
             PROVE  token = TokenOf[h]
  OBVIOUS
<1>1. ~(Source \/ Cancelled) /\ ~(\E t \in Tokens \cup LocalTokens : Revoke(t))
  BY DEF Source, Resolve, Wake, RefreshRejected, CallLocalRefresh, Classify, Backoff,
         LocalResolved, LocalRefreshed, Refused, Granted, Retryable, Fatal, Cancelled,
         Revoke, Others, broker, hosts
<1>2. PICK g \in Hosts : Host(g)
  BY <1>1 DEF Next
<1>3. Activate(g)
  <2>1. CASE Update(g)
    BY <2>1 DEF Update, broker
  <2>2. CASE AskGeneration(g) \/ Conflict(g) \/ ActivateConflict(g) \/ Again(g)
    BY <2>2 DEF AskGeneration, Conflict, ActivateConflict, Again, broker
  <2> QED BY <1>2, <2>1, <2>2 DEF Host
<1>4. g = h
  BY <1>3 DEF Activate, BrokerInv, TypeOK
<1> QED BY <1>3, <1>4 DEF Activate, Activates, BrokerInv, OwnGeneration

\* Once a runtime token is usable the source starts no attempt with a local token
\* (broker.go:200-207).
LEMMA PrefersInstalled ==
  BrokerInv /\ [Next]_bvars
    => [at = "local" /\ at' = "ticket" /\ Usable => used' = token]_bvars
<1> SUFFICES ASSUME Next, at = "local", at' = "ticket", Usable PROVE used' = token
  OBVIOUS
<1> USE DEF Give, Move, WaitFrom, Return, Others, source
<1>1. CASE Source
  <2>1. ASSUME NEW t \in LocalTokens, LocalResolved(t) PROVE used' = token
    BY <2>1 DEF LocalResolved
  <2>2. CASE \/ Resolve \/ Wake \/ RefreshRejected \/ CallLocalRefresh \/ Classify \/ Backoff
             \/ \E t \in LocalTokens : LocalRefreshed(t)
             \/ Refused \/ Granted \/ Retryable \/ Fatal
    BY <2>2 DEF Resolve, Wake, RefreshRejected, CallLocalRefresh, Classify, Backoff,
                LocalRefreshed, Refused, Granted, Retryable, Fatal
  <2> QED BY <1>1, <2>1, <2>2 DEF Source
<1>2. CASE Cancelled
  BY <1>2 DEF Cancelled
<1>3. ASSUME NEW h \in Hosts, Host(h) PROVE FALSE
  BY <1>3 DEF Host, AskGeneration, Update, Conflict, Activate, ActivateConflict, Again
<1>4. ASSUME NEW t \in Tokens \cup LocalTokens, Revoke(t) PROVE FALSE
  BY <1>4 DEF Revoke
<1> QED BY <1>1, <1>2, <1>3, <1>4 DEF Next

\* A slow resolve, refresh or service never undoes what a host has brought meanwhile, and
\* never blames it (broker.go:157-270).
THEOREM TokensStayCurrentAlways == Spec => TokensStayCurrent
<1>1. Spec => RejectionIsOfCurrent
  BY BrokerInvariant, RejectsCurrent, PTL DEF Spec, RejectionIsOfCurrent
<1>2. Spec => ActivatesOwnToken
  BY BrokerInvariant, ActivatesOwn, PTL DEF Spec, ActivatesOwnToken
<1>3. Spec => LocalTokenOnlyUntilInstalled
  BY BrokerInvariant, PrefersInstalled, PTL DEF Spec, LocalTokenOnlyUntilInstalled
<1> QED BY <1>1, <1>2, <1>3 DEF TokensStayCurrent

\* The broker's variables have their types, and a wait never outlasts what it waits for
\* (broker.go:167-215).
THEOREM BrokerIsSafe == Spec => []BrokerSafe
<1> QED BY BrokerTypes, NoWakeIsMissed, PTL DEF BrokerSafe

-----------------------------------------------------------------------------
HIDE BrokerAssumption

(***************************************************************************)
(* The consumer.  What RunMany has delivered, followed by what waits in    *)
(* the channel of its readers, is a merge of what the bus connections      *)
(* carried so far (InOrder); a Bye is the last thing on a connection, and  *)
(* is known of only when the bus has said it (Wires, ByesAreTrue); while   *)
(* the command lives only a connection whose reader has gone is closed     *)
(* (NoErrorYet).                                                           *)
(***************************************************************************)

\* A frame that a bus connection may carry, or its reader may make of its end.
Numbered(f) ==
  /\ f.from \in Sessions
  /\ \/ f.kind = "event" /\ f.n \in Nat \ {0}
     \/ f.kind \in Farewells \cup {"err"} /\ f.n = 0

FrameType == [from : 0..N, kind : {"none", "event", "err"} \cup Farewells, n : Nat]

\* The types that ConsumeTypeOK leaves open.
FramesTyped ==
  /\ wire \in [Sessions -> Seq(FrameType)] /\ hand \in [Sessions -> FrameType]
  /\ frames \in Seq(FrameType) /\ delivered \in Seq(FrameType)
  /\ \A i \in DOMAIN frames : Numbered(frames[i])
  /\ \A i \in DOMAIN delivered : Numbered(delivered[i]) /\ delivered[i].kind = "event"

\* What there is of a session before it has been opened, and before all have.
OpenedInTurn ==
  /\ \A s \in Sessions :
       (s < opening \/ (s = opening /\ step # "discover")) <=> ourSide[s] # "none"
  /\ \A s \in Sessions : ourSide[s] = "none" <=> busSide[s] = "none"
  /\ opening \in Sessions =>
       frames = <<>> /\ delivered = <<>> /\ subscribed = {} /\ (\A s \in Sessions : reader[s] = "off")
  /\ opening \notin Sessions => \A s \in Sessions : reader[s] # "off"

\* A connection carries numbered events, then perhaps a Bye, and its reader has at most one
\* frame of it in hand.
Ends(w)  == w # <<>> /\ w[Len(w)].kind # "event"
Count(w) == IF Ends(w) THEN Len(w) - 1 ELSE Len(w)
Carries(s, w, n) ==
  /\ \A i \in DOMAIN w : w[i].from = s
  /\ \A i \in DOMAIN w : IF w[i].kind = "event" THEN w[i].n = (n - Count(w)) + i
                                                ELSE i = Len(w) /\ w[i].kind \in Farewells /\ w[i].n = 0
  /\ Count(w) <= n
Wires ==
  \A s \in Sessions :
    /\ Carries(s, wire[s], sent[s])
    /\ reader[s] \in {"off", "reading"} => hand[s] = Nothing
    /\ reader[s] = "offering" => Numbered(hand[s]) /\ hand[s].from = s
    /\ hand[s].kind = "event" => hand[s].from = s /\ hand[s].n = sent[s] - Count(wire[s]) /\ hand[s].n > 0

\* The events of s that its reader has handed over.
Top(s) == (sent[s] - Count(wire[s])) - (IF hand[s].kind = "event" THEN 1 ELSE 0)

\* q has the first top[s] events of each session s, in their order.
Merges(q, top) ==
  /\ \A i \in DOMAIN q : q[i].kind = "event" => q[i].from \in Sessions /\ q[i].n \in 1..top[q[i].from]
  /\ \A s \in Sessions : \A m \in 1..top[s] : \E i \in DOMAIN q : q[i] = Frame(s, "event", m)
  /\ \A i, j \in DOMAIN q :
       i < j /\ q[i].kind = "event" /\ q[j].kind = "event" /\ q[i].from = q[j].from => q[i].n < q[j].n

\* What was delivered and what waits in the channel is a merge of the connections.
InOrder == outcome = "none" => Merges(delivered \o frames, [s \in Sessions |-> Top(s)])

\* A Bye is known of only when the bus has said it; after it nothing of that session comes.
Parted(s) == busSide[s] \in {"bye", "closed"}
ByesAreTrue ==
  /\ \A s \in Sessions : Ends(wire[s]) \/ hand[s].kind \in Farewells => Parted(s)
  /\ \A i \in DOMAIN frames : frames[i].kind \in Farewells => Parted(frames[i].from)
  /\ \A i \in DOMAIN frames : Last(frames[i]) => reader[frames[i].from] = "gone"
  /\ opening \notin Sessions => \A s \in Sessions \ subscribed : Parted(s)

\* While nothing has ended the command, no reader has met an error.
NoErrorYet ==
  outcome = "none" /\ ctx = "live" /\ ~BusCrashes =>
    /\ \A s \in Sessions : ourSide[s] = "closed" => reader[s] = "gone"
    /\ \A s \in Sessions :
         Parted(s) => Ends(wire[s]) \/ hand[s].kind \in Farewells \/ reader[s] = "gone"
    /\ \A s \in Sessions : hand[s].kind # "err"
    /\ \A i \in DOMAIN frames : frames[i].kind # "err"

EndsAll ==
  /\ outcome # "none" => \A s \in Sessions : ourSide[s] # "open"
  /\ outcome = "none" /\ MaxEvents > 0 => Len(delivered) < MaxEvents

ConsumeInv ==
  /\ ConsumeTypeOK /\ FramesTyped /\ OpenedInTurn /\ Wires /\ InOrder /\ ByesAreTrue /\ NoErrorYet
  /\ EndsAll /\ DeliveredInOrder /\ NoErrorAfterBye /\ AllWereStopped /\ LimitTellsEveryone

-----------------------------------------------------------------------------
USE ConsumeAssumption

\* The frames that the actions write are frames, each of its kind.
LEMMA FrameIs ==
  /\ Nothing \in FrameType /\ Nothing.kind = "none"
  /\ \A s \in Sessions : /\ End(s) \in FrameType /\ Numbered(End(s)) /\ End(s).kind = "err" /\ End(s).from = s
  /\ \A s \in Sessions, n \in Nat \ {0} :
        LET f == Frame(s, "event", n)
        IN  f \in FrameType /\ Numbered(f) /\ f.from = s /\ f.kind = "event" /\ f.n = n
  /\ \A s \in Sessions, k \in Farewells :
        LET f == Frame(s, k, 0)
        IN  f \in FrameType /\ Numbered(f) /\ f.from = s /\ f.kind = k /\ f.n = 0
  /\ "event" \notin Farewells /\ "err" \notin Farewells /\ "none" \notin Farewells
BY DEF Nothing, End, Frame, FrameType, Numbered, Sessions, Farewells

\* An event is told from others by its session and its number.
LEMMA NumberedIs ==
  ASSUME NEW f \in FrameType, Numbered(f), f.kind = "event"
  PROVE  f = Frame(f.from, "event", f.n)
BY DEF FrameType, Frame, Numbered, Farewells

\* A connection holds as many events as it holds frames, but for a last Bye.
LEMMA CountIs ==
  ASSUME NEW w \in Seq(FrameType)
  PROVE  Count(w) \in 0..Len(w) /\ (Ends(w) => Len(w) > 0 /\ Count(w) = Len(w) - 1)
         /\ (~Ends(w) => Count(w) = Len(w))
BY DEF Count, Ends

\* The bus writes one more event, a Bye; the reader takes the first frame.
LEMMA CarriesEvent ==
  ASSUME NEW s \in Sessions, NEW w \in Seq(FrameType), NEW n \in Nat, Carries(s, w, n), ~Ends(w)
  PROVE  LET v == Append(w, Frame(s, "event", n + 1))
         IN  Carries(s, v, n + 1) /\ ~Ends(v) /\ Count(v) = Count(w) + 1
<1> DEFINE f == Frame(s, "event", n + 1)
           v == Append(w, f)
<1>1. f \in FrameType /\ f.from = s /\ f.kind = "event" /\ f.n = n + 1
  BY FrameIs
<1> HIDE DEF f
<1>2. v \in Seq(FrameType) /\ Len(v) = Len(w) + 1 /\ v[Len(v)] = f
      /\ \A i \in 1..Len(w) : v[i] = w[i]
  BY <1>1
<1>3. DOMAIN v = 1..(Len(w) + 1) /\ DOMAIN w = 1..Len(w)
  BY <1>2
<1>4. ~Ends(v) /\ Count(v) = Count(w) + 1 /\ Count(w) = Len(w)
  BY <1>1, <1>2 DEF Ends, Count
<1> HIDE DEF v
<1>5. \A i \in DOMAIN v : i \in DOMAIN w \/ (i = Len(w) + 1 /\ v[i] = f)
  BY <1>2, <1>3
<1>6. Len(w) \in Nat /\ Count(w) \in Nat /\ Count(w) <= n
  BY <1>4 DEF Carries
<1>7. ASSUME NEW i \in DOMAIN v
      PROVE  v[i].from = s /\ v[i].kind = "event" /\ v[i].n = (n + 1 - Count(v)) + i
  <2>1. CASE i \in DOMAIN w
    <3>1. w[i].from = s /\ v[i] = w[i] /\ w[i].kind = "event" /\ w[i].n = (n - Count(w)) + i
      BY <1>2, <1>3, <2>1 DEF Carries, Ends
    <3> QED BY <1>4, <1>6, <3>1, <2>1, <1>3
  <2>2. CASE i = Len(w) + 1 /\ v[i] = f
    BY <1>1, <1>4, <1>6, <2>2
  <2> QED BY <1>5, <2>1, <2>2
<1>8. Carries(s, v, n + 1)
  BY <1>4, <1>6, <1>7 DEF Carries
<1> QED BY <1>4, <1>8 DEF f, v

LEMMA CarriesBye ==
  ASSUME NEW s \in Sessions, NEW w \in Seq(FrameType), NEW n \in Nat, Carries(s, w, n), ~Ends(w),
         NEW k \in Farewells
  PROVE  LET v == Append(w, Frame(s, k, 0))
         IN  Carries(s, v, n) /\ Ends(v) /\ Count(v) = Count(w)
<1> DEFINE f == Frame(s, k, 0)
           v == Append(w, f)
<1>1. f \in FrameType /\ f.from = s /\ f.kind = k /\ f.kind # "event" /\ f.n = 0
  BY FrameIs
<1> HIDE DEF f
<1>2. v \in Seq(FrameType) /\ Len(v) = Len(w) + 1 /\ v[Len(v)] = f
      /\ \A i \in 1..Len(w) : v[i] = w[i]
  BY <1>1
<1>3. DOMAIN v = 1..(Len(w) + 1) /\ DOMAIN w = 1..Len(w)
  BY <1>2
<1>4. Ends(v) /\ Count(v) = Count(w) /\ Count(w) = Len(w)
  BY <1>1, <1>2 DEF Ends, Count
<1>5. \A i \in DOMAIN w : w[i].kind = "event"
  BY <1>3 DEF Carries, Ends
<1> HIDE DEF v
<1>6. Carries(s, v, n)
  <2>1. \A i \in DOMAIN v : (i \in DOMAIN w /\ v[i] = w[i]) \/ (i = Len(v) /\ v[i] = f)
    BY <1>2, <1>3
  <2>2. ASSUME NEW i \in DOMAIN v
        PROVE  /\ v[i].from = s
               /\ IF v[i].kind = "event" THEN v[i].n = (n - Count(v)) + i
                    ELSE i = Len(v) /\ v[i].kind \in Farewells /\ v[i].n = 0
    <3>1. CASE i \in DOMAIN w /\ v[i] = w[i]
      BY <1>4, <1>5, <3>1 DEF Carries
    <3>2. CASE i = Len(v) /\ v[i] = f
      BY <1>1, <3>2
    <3> QED BY <2>1, <3>1, <3>2
  <2>3. Count(v) <= n
    BY <1>4 DEF Carries
  <2> QED BY <2>2, <2>3 DEF Carries
<1> QED BY <1>4, <1>6 DEF f, v

LEMMA CarriesRead ==
  ASSUME NEW s \in Sessions, NEW w \in Seq(FrameType), NEW n \in Nat, Carries(s, w, n), w # <<>>
  PROVE  /\ Tail(w) \in Seq(FrameType) /\ Head(w) \in FrameType
         /\ Carries(s, Tail(w), n) /\ Numbered(Head(w)) /\ Head(w).from = s /\ Head(w).kind # "err"
         /\ IF Head(w).kind = "event"
              THEN /\ Count(Tail(w)) = Count(w) - 1 /\ Head(w).n = n - Count(Tail(w))
                   /\ Ends(Tail(w)) <=> Ends(w)
              ELSE /\ Head(w).kind \in Farewells /\ Tail(w) = <<>> /\ Count(Tail(w)) = Count(w)
                   /\ Ends(w) /\ ~Ends(Tail(w))
<1> DEFINE v == Tail(w)
<1>1. /\ v \in Seq(FrameType) /\ Len(v) = Len(w) - 1 /\ Len(w) > 0 /\ Head(w) = w[1] /\ w[1] \in FrameType
      /\ \A i \in 1..Len(v) : v[i] = w[i + 1]
  OBVIOUS
<1>2. DOMAIN v = 1..Len(v) /\ DOMAIN w = 1..Len(w) /\ 1 \in DOMAIN w
  BY <1>1
<1> HIDE DEF v
<1>3. w[1].from = s /\ Count(w) <= n /\ Count(w) \in 0..Len(w)
  BY <1>2, CountIs DEF Carries
<1>4. CASE w[1].kind = "event"
  <2>1. Ends(v) <=> Ends(w)
    <3>1. CASE Len(w) = 1
      <4>1. v = <<>> /\ w[Len(w)] = w[1]
        BY <1>1, <3>1
      <4> QED BY <1>4, <4>1 DEF Ends
    <3>2. CASE Len(w) > 1
      <4>1. v # <<>> /\ w # <<>> /\ v[Len(v)] = w[Len(w)]
        BY <1>1, <3>2
      <4> QED BY <4>1 DEF Ends
    <3> QED BY <1>1, <3>1, <3>2
  <2>2. Count(v) = Count(w) - 1
    BY <1>1, <2>1 DEF Count
  <2>3. w[1].n = n - Count(v)
    <3>1. w[1].n = (n - Count(w)) + 1
      BY <1>2, <1>4 DEF Carries
    <3> QED BY <1>3, <2>2, <3>1
  <2>4. Carries(s, v, n)
    <3>1. ASSUME NEW i \in DOMAIN v
          PROVE  /\ v[i].from = s
                 /\ IF v[i].kind = "event" THEN v[i].n = (n - Count(v)) + i
                      ELSE i = Len(v) /\ v[i].kind \in Farewells /\ v[i].n = 0
      <4>1. i + 1 \in DOMAIN w /\ v[i] = w[i + 1] /\ i \in 1..Len(v)
        BY <1>1, <1>2
      <4>2. /\ w[i + 1].from = s
            /\ IF w[i + 1].kind = "event" THEN w[i + 1].n = (n - Count(w)) + (i + 1)
                 ELSE i + 1 = Len(w) /\ w[i + 1].kind \in Farewells /\ w[i + 1].n = 0
        BY <4>1 DEF Carries
      <4>3. Count(w) \in Nat /\ Len(w) \in Nat /\ i \in Nat
        BY <1>3, <4>1
      <4>4. Len(v) = Len(w) - 1
        BY <1>1
      <4>5. (n - Count(w)) + (i + 1) = (n - Count(v)) + i
        BY <2>2, <4>3
      <4>6. i + 1 = Len(w) => i = Len(v)
        BY <4>3, <4>4
      <4> QED BY <4>1, <4>2, <4>5, <4>6
    <3> QED BY <1>1, <1>3, <2>2, <3>1 DEF Carries
  <2>5. Numbered(w[1])
    <3>1. w[1].n \in Nat \ {0}
      <4>1. Count(v) \in Nat
        BY <1>1, CountIs
      <4> QED BY <1>3, <2>2, <2>3, <4>1
    <3> QED BY <1>3, <1>4, <3>1 DEF Numbered
  <2> QED BY <1>1, <1>3, <1>4, <2>1, <2>2, <2>3, <2>4, <2>5 DEF v
<1>5. CASE w[1].kind # "event"
  <2>1. 1 = Len(w) /\ w[1].kind \in Farewells /\ w[1].n = 0
    BY <1>2, <1>5 DEF Carries
  <2>2. v = <<>> /\ Ends(w) /\ ~Ends(v) /\ Count(v) = 0 /\ Count(w) = 0
    BY <1>1, <1>5, <2>1 DEF Ends, Count
  <2>3. Carries(s, v, n)
    BY <2>2 DEF Carries
  <2>4. Numbered(w[1]) /\ w[1].kind # "err"
    BY <1>3, <2>1, FrameIs DEF Numbered
  <2> QED BY <1>1, <1>3, <1>5, <2>1, <2>2, <2>3, <2>4 DEF v
<1> QED BY <1>4, <1>5

\* One more frame behind the ones that are merged.
LEMMA MergesMore ==
  ASSUME NEW q \in Seq(FrameType), NEW top \in [Sessions -> Nat], Merges(q, top),
         NEW f \in FrameType, f.from \in Sessions,
         NEW up \in [Sessions -> Nat],
         IF f.kind = "event"
           THEN f.n = top[f.from] + 1 /\ Numbered(f) /\ up = [top EXCEPT ![f.from] = @ + 1]
           ELSE up = top
  PROVE  Merges(Append(q, f), up)
<1> DEFINE p == Append(q, f)
<1>1. /\ p \in Seq(FrameType) /\ Len(p) = Len(q) + 1 /\ p[Len(p)] = f
      /\ (\A i \in 1..Len(q) : p[i] = q[i]) /\ DOMAIN p = 1..(Len(q) + 1) /\ DOMAIN q = 1..Len(q)
  OBVIOUS
<1>t. \A i \in DOMAIN q : q[i] \in FrameType
  OBVIOUS
<1> HIDE DEF p
<1>2. \A s \in Sessions : up[s] >= top[s]
  OBVIOUS
<1>3. ASSUME NEW i \in DOMAIN p, p[i].kind = "event" PROVE p[i].from \in Sessions /\ p[i].n \in 1..up[p[i].from]
  <2>1. CASE i \in DOMAIN q
    <3>1. q[i].n \in 1..top[q[i].from] /\ p[i] = q[i]
      BY <1>1, <1>3, <2>1 DEF Merges
    <3>2. q[i].from \in Sessions
      BY <1>1, <1>3, <2>1 DEF Merges
    <3> QED BY <1>2, <3>1, <3>2
  <2>2. CASE i \notin DOMAIN q
    <3>1. p[i] = f
      BY <1>1, <2>2
    <3> QED BY <1>3, <3>1
  <2> QED BY <2>1, <2>2
<1>4. ASSUME NEW s \in Sessions, NEW m \in 1..up[s] PROVE \E i \in DOMAIN p : p[i] = Frame(s, "event", m)
  <2>1. CASE m \in 1..top[s]
    <3>1. PICK i \in DOMAIN q : q[i] = Frame(s, "event", m)
      BY <2>1 DEF Merges
    <3> QED BY <1>1, <3>1
  <2>2. CASE m \notin 1..top[s]
    <3>1. f.kind = "event" /\ s = f.from /\ m = f.n
      BY <2>2
    <3>2. f = Frame(s, "event", m)
      BY <3>1, NumberedIs
    <3> QED BY <1>1, <3>2
  <2> QED BY <2>1, <2>2
<1>5. ASSUME NEW i \in DOMAIN p, NEW j \in DOMAIN p, i < j, p[i].kind = "event", p[j].kind = "event",
             p[i].from = p[j].from
      PROVE  p[i].n < p[j].n
  <2>1. i \in DOMAIN q /\ p[i] = q[i]
    BY <1>1, <1>5
  <2>2. CASE j \in DOMAIN q
    BY <1>1, <1>5, <2>1, <2>2 DEF Merges
  <2>3. CASE j \notin DOMAIN q
    <3>1. p[j] = f
      BY <1>1, <2>3
    <3>2. q[i].n \in 1..top[q[i].from]
      BY <1>5, <2>1 DEF Merges
    <3> QED BY <1>5, <2>1, <3>1, <3>2
  <2> QED BY <2>2, <2>3
<1> QED BY <1>3, <1>4, <1>5 DEF Merges, p

-----------------------------------------------------------------------------
\* The invariant holds before the first session is opened.
LEMMA ConsumeStart == ConsumeInit => ConsumeInv
<1> SUFFICES ASSUME ConsumeInit PROVE ConsumeInv
  OBVIOUS
<1> USE DEF ConsumeInit
<1>1. ConsumeTypeOK
  BY DEF ConsumeTypeOK, Sessions, Outcomes, Received
<1>2. FramesTyped
  BY FrameIs DEF FramesTyped
<1>3. OpenedInTurn
  BY DEF OpenedInTurn, Sessions
<1>4. Wires
  BY FrameIs DEF Wires, Carries, Count, Ends
<1>5. InOrder
  <2>1. \A s \in Sessions : Top(s) = 0
    <3>1. ASSUME NEW s \in Sessions PROVE sent[s] = 0 /\ wire[s] = <<>> /\ hand[s].kind = "none"
      BY FrameIs
    <3>2. Count(<<>>) = 0
      BY DEF Count, Ends
    <3> HIDE DEF ConsumeInit
    <3> QED BY <3>1, <3>2 DEF Top
  <2>2. delivered \o frames = <<>>
    OBVIOUS
  <2>3. \A top : (\A s \in Sessions : top[s] = 0) => Merges(<<>>, top)
    BY DEF Merges
  <2> QED BY <2>1, <2>2, <2>3 DEF InOrder
<1>6. ByesAreTrue
  BY FrameIs DEF ByesAreTrue, Ends, Sessions
<1>7. NoErrorYet
  BY FrameIs DEF NoErrorYet, Parted, Nothing, Frame
<1>8. EndsAll /\ DeliveredInOrder /\ NoErrorAfterBye /\ AllWereStopped /\ LimitTellsEveryone
  BY DEF EndsAll, DeliveredInOrder, NoErrorAfterBye, AllWereStopped, LimitTellsEveryone
<1> QED BY <1>1, <1>2, <1>3, <1>4, <1>5, <1>6, <1>7, <1>8 DEF ConsumeInv

\* What the loop takes is a frame, and what stays in the channel keeps its order.
LEMMA FramesTail ==
  ASSUME FramesTyped, frames # <<>>
  PROVE  /\ Head(frames) \in FrameType /\ Tail(frames) \in Seq(FrameType) /\ Numbered(Head(frames))
         /\ Len(Tail(frames)) = Len(frames) - 1 /\ 1 \in DOMAIN frames /\ Head(frames) = frames[1]
         /\ \A i \in DOMAIN Tail(frames) : i + 1 \in DOMAIN frames /\ Tail(frames)[i] = frames[i + 1]
<1>1. frames \in Seq(FrameType) /\ \A i \in DOMAIN frames : Numbered(frames[i])
  BY DEF FramesTyped
<1> QED BY <1>1

\* What the loop does to what it takes from.
LEMMA LoopDoes ==
  ASSUME ConsumeInv, Loop
  PROVE  /\ outcome = "none" /\ opening = N + 1 /\ UNCHANGED <<opening, step, bus, reader, hand, ctx>>
         /\ \/ frames' = frames /\ delivered' = delivered
            \/ frames # <<>> /\ frames' = Tail(frames) /\ delivered' = delivered
                 /\ (outcome' = "none" => Head(frames).kind = "subscription_stopped")
            \/ frames # <<>> /\ frames' = Tail(frames) /\ Head(frames).kind = "event"
                 /\ delivered' = Append(delivered, Head(frames))
         /\ frames' = frames => outcome' # "none"
         /\ DOMAIN ourSide' = Sessions
         /\ \A s \in Sessions : ourSide'[s] = ourSide[s] \/ (ourSide[s] = "open" /\ ourSide'[s] = "closed")
         /\ subscribed' \subseteq subscribed
         /\ \A s \in subscribed \ subscribed' :
              frames # <<>> /\ Head(frames).kind = "subscription_stopped" /\ Head(frames).from = s
<1> USE DEF ConsumeInv, ConsumeTypeOK, Running, Take, EndWith, loop, From
<1>1. CASE LoopCancelled
  BY <1>1 DEF LoopCancelled
<1>2. CASE TakeError
  BY <1>2 DEF TakeError
<1>3. CASE TakeEvent
  BY <1>3 DEF TakeEvent
<1>4. CASE TakeEventPipeClosed
  BY <1>4 DEF TakeEventPipeClosed
<1>5. CASE TakeEventFails
  BY <1>5 DEF TakeEventFails
<1>6. CASE TakeStopped
  <2>1. /\ frames # <<>> /\ frames' = Tail(frames) /\ Head(frames).kind = "subscription_stopped"
        /\ outcome = "none" /\ opening = N + 1 /\ delivered' = delivered
        /\ UNCHANGED <<opening, step, bus, reader, hand, ctx>>
        /\ subscribed' = subscribed \ {Head(frames).from}
    BY <1>6 DEF TakeStopped
  <2>2. Head(frames).from \in Sessions /\ frames \in Seq(FrameType)
    BY <2>1, FramesTail DEF Numbered, FramesTyped
  <2>3. frames' # frames
    BY <2>1, <2>2
  <2>4. DOMAIN ourSide' = Sessions
    BY <1>6, <2>2 DEF TakeStopped
  <2>5. \A s \in Sessions : ourSide'[s] = ourSide[s] \/ (ourSide[s] = "open" /\ ourSide'[s] = "closed")
    <3>1. ourSide[Head(frames).from] # "none"
      BY <2>1, <2>2 DEF OpenedInTurn, Sessions
    <3> QED BY <1>6, <2>2, <3>1 DEF TakeStopped
  <2> QED BY <2>1, <2>2, <2>3, <2>4, <2>5
<1>7. CASE TakeBye
  BY <1>7 DEF TakeBye
<1> QED BY <1>1, <1>2, <1>3, <1>4, <1>5, <1>6, <1>7 DEF Loop

\* The steps that are not the loop's.
Outer(s) == BusSends(s) \/ BusCloses(s) \/ Reader(s) \/ \E why \in Farewells : BusSaysBye(s, why)

\* The types of the queues, for the steps of the loop, of a connection, and of the opening.
LEMMA TypesLoop ==
  ASSUME ConsumeInv, Loop
  PROVE  FramesTyped' /\ (opening' \notin Sessions /\ Len(frames') <= 2 * N)
<1>1. FramesTyped
  BY DEF ConsumeInv
<1>2. FramesTyped'
  <2> USE DEF bus
  <2>1. CASE frames' = frames /\ delivered' = delivered
    BY <1>1, <2>1, LoopDoes DEF FramesTyped
  <2>2. CASE frames # <<>> /\ frames' = Tail(frames) /\ delivered' = delivered
    BY <1>1, <2>2, LoopDoes, FramesTail DEF FramesTyped
  <2>3. CASE frames # <<>> /\ frames' = Tail(frames) /\ Head(frames).kind = "event"
             /\ delivered' = Append(delivered, Head(frames))
    <3>1. delivered \in Seq(FrameType) /\ \A i \in DOMAIN delivered : Numbered(delivered[i]) /\ delivered[i].kind = "event"
      BY <1>1 DEF FramesTyped
    <3>2. delivered' \in Seq(FrameType) /\ \A i \in DOMAIN delivered' :
                Numbered(delivered'[i]) /\ delivered'[i].kind = "event"
      BY <1>1, <2>3, <3>1, FramesTail
    <3> QED BY <1>1, <2>3, <3>2, LoopDoes, FramesTail DEF FramesTyped
  <2> QED BY <2>1, <2>2, <2>3, LoopDoes
<1>3. opening' \notin Sessions /\ Len(frames') <= 2 * N
  <2>1. frames \in Seq(FrameType) /\ Len(frames) <= 2 * N
    BY <1>1 DEF FramesTyped, ConsumeInv, ConsumeTypeOK
  <2>2. frames' = frames \/ (frames # <<>> /\ frames' = Tail(frames))
    BY LoopDoes
  <2> QED BY <1>1, <2>1, <2>2, LoopDoes, FramesTail DEF Sessions
<1> QED BY <1>2, <1>3

LEMMA TypesOuter ==
  ASSUME ConsumeInv, NEW s \in Sessions, Outer(s)
  PROVE  FramesTyped'
<1> USE DEF ConsumeInv, FramesTyped, Outer, ConsumeTypeOK, loop
<1>1. CASE BusSends(s)
  <2>1. sent' = [sent EXCEPT ![s] = sent[s] + 1] /\ wire' = [wire EXCEPT ![s] = Append(wire[s], Frame(s, "event", sent'[s]))]
        /\ sent[s] \in Nat
    BY <1>1 DEF BusSends, Write
  <2>2. Frame(s, "event", sent[s] + 1) \in FrameType
    BY <2>1, FrameIs
  <2> QED BY <1>1, <2>1, <2>2 DEF BusSends
<1>2. CASE BusCloses(s)
  BY <1>2 DEF BusCloses
<1>3. ASSUME NEW why \in Farewells, BusSaysBye(s, why) PROVE FramesTyped'
  BY <1>3, FrameIs DEF BusSaysBye, Write
<1>4. CASE ReadFrame(s)
  <2>1. wire[s] \in Seq(FrameType) /\ wire[s] # <<>>
    BY <1>4 DEF ReadFrame, Readable
  <2>2. Tail(wire[s]) \in Seq(FrameType) /\ Head(wire[s]) \in FrameType
    BY <2>1
  <2> QED BY <1>4, <2>2 DEF ReadFrame
<1>5. CASE ReadError(s)
  BY <1>5, FrameIs DEF ReadError, bus
<1>6. CASE Offer(s)
  <2>1. Numbered(hand[s]) /\ hand[s] \in FrameType /\ frames' = Append(frames, hand[s])
        /\ hand' = [hand EXCEPT ![s] = Nothing]
    BY <1>6 DEF Offer, Wires
  <2>2. frames' \in Seq(FrameType) /\ \A i \in DOMAIN frames' : Numbered(frames'[i])
    BY <2>1
  <2> QED BY <1>6, <2>1, <2>2, FrameIs DEF Offer, bus
<1>7. CASE OfferCancelled(s)
  BY <1>7 DEF OfferCancelled, bus
<1> QED BY <1>1, <1>2, <1>3, <1>4, <1>5, <1>6, <1>7 DEF Reader

Inner == Discover \/ Negotiate \/ OpeningFails \/ \E why \in {"timeout", "signal"} : Cancel(why)

LEMMA TypesInner ==
  ASSUME ConsumeInv, Inner
  PROVE  FramesTyped'
BY DEF ConsumeInv, FramesTyped, Inner, Discover, Negotiate, OpeningFails, Cancel, bus, loop

\* The other types, a reader at a time.
LEMMA TypeOKStep ==
  ASSUME ConsumeInv, ConsumeNext
  PROVE  ConsumeTypeOK'
<1> USE DEF ConsumeInv, ConsumeTypeOK
<1>1. CASE Inner
  <2> USE DEF OpenedInTurn, bus, loop, Received, Outcomes
  <2>1. CASE Discover
    BY <2>1 DEF Discover, Sessions
  <2>2. CASE Negotiate
    <3>1. CASE step = "ack"
      BY <2>2, <3>1 DEF Negotiate
    <3>2. CASE step = "negotiate"
      <4>1. opening' = opening + 1 /\ opening \in 1..N /\ step' = "discover"
        BY <2>2, <3>2 DEF Negotiate, Sessions
      <4>2. opening' \in 1..(N + 1)
        BY <4>1
      <4>3. /\ reader' = reader /\ subscribed' = subscribed
            \/ /\ subscribed' = Sessions /\ reader' = [s \in Sessions |-> "reading"] /\ opening' \notin Sessions
        BY <2>2, <3>2 DEF Negotiate
      <4>4. opening' \notin Sessions => \A s \in Sessions : ourSide[s] # "none"
        <5>1. opening' \notin Sessions => opening = N
          BY <4>1 DEF Sessions
        <5>2. \A s \in Sessions : s < N \/ s = N
          BY DEF Sessions
        <5> QED BY <3>2, <5>1, <5>2
      <4> QED BY <2>2, <4>1, <4>2, <4>3, <4>4 DEF Negotiate
    <3> QED BY <2>2, <3>1, <3>2 DEF Negotiate
  <2>3. CASE OpeningFails
    BY <2>3 DEF OpeningFails, EndWith
  <2>4. ASSUME NEW why \in {"timeout", "signal"}, Cancel(why) PROVE ConsumeTypeOK'
    BY <2>4 DEF Cancel
  <2> QED BY <1>1, <2>1, <2>2, <2>3, <2>4 DEF Inner
<1>2. ASSUME NEW s \in Sessions, Outer(s) PROVE ConsumeTypeOK'
  <2> USE DEF OpenedInTurn, bus, loop, Received, Outcomes, FramesTyped
  <2>1. CASE BusSends(s)
    <3>1. /\ sent' = [sent EXCEPT ![s] = sent[s] + 1] /\ sent[s] < Sends /\ ourSide[s] = "open"
          /\ wire' = [wire EXCEPT ![s] = Append(wire[s], Frame(s, "event", sent'[s]))]
          /\ UNCHANGED <<opening, step, busSide, ourSide, reader, frames, subscribed, delivered, byes, ctx, outcome>>
      BY <2>1 DEF BusSends, Listening, Write
    <3>2. sent' \in [Sessions -> 0..Sends]
      BY <3>1
    <3>3. \A z \in Sessions : ourSide[z] = "none" => wire'[z] = <<>>
      BY <3>1
    <3> QED BY <3>1, <3>2, <3>3
  <2>2. CASE BusCloses(s)
    BY <2>2 DEF BusCloses, Listening
  <2>3. ASSUME NEW why \in Farewells, BusSaysBye(s, why) PROVE ConsumeTypeOK'
    BY <2>3 DEF BusSaysBye, Listening, Write
  <2>4. CASE ReadFrame(s)
    BY <2>4 DEF ReadFrame, Readable
  <2>5. CASE ReadError(s)
    BY <2>5 DEF ReadError, Broken
  <2>6. CASE Offer(s)
    BY <2>6 DEF Offer, HasRoom, Capacity
  <2>7. CASE OfferCancelled(s)
    BY <2>7 DEF OfferCancelled
  <2> QED BY <1>2, <2>1, <2>2, <2>3, <2>4, <2>5, <2>6, <2>7 DEF Outer, Reader
<1>3. CASE Loop
  <2>1. /\ UNCHANGED <<opening, step, bus, reader, hand, ctx>> /\ Len(frames') <= 2 * N
        /\ subscribed' \subseteq Sessions /\ ourSide' \in [Sessions -> {"none", "open", "closed"}]
        /\ \A s \in Sessions : ourSide'[s] = "none" => ourSide[s] = "none"
    <3>1. ourSide' = [s \in Sessions |-> ourSide'[s]]
      BY <1>3 DEF Loop, LoopCancelled, TakeError, TakeEvent, TakeEventPipeClosed, TakeEventFails,
                  TakeStopped, TakeBye, EndWith
    <3> QED BY <1>3, <3>1, LoopDoes, TypesLoop
  <2>2. byes' \subseteq Sessions /\ outcome' \in Outcomes
    BY <1>3 DEF Loop, LoopCancelled, TakeError, TakeEvent, TakeEventPipeClosed, TakeEventFails,
                  TakeStopped, TakeBye, EndWith, Outcomes, loop, Take
  <2>3. MaxEvents > 0 => Len(delivered') <= MaxEvents
    <3>1. delivered \in Seq(FrameType)
      BY DEF FramesTyped
    <3>2. outcome = "none" /\ (delivered' = delivered \/
            (frames # <<>> /\ delivered' = Append(delivered, Head(frames))))
      BY <1>3, LoopDoes
    <3>3. MaxEvents > 0 => Len(delivered) < MaxEvents
      BY <3>2 DEF EndsAll
    <3> QED BY <3>1, <3>2, <3>3, FramesTail
  <2> QED BY <2>1, <2>2, <2>3 DEF bus, Received
<1> QED BY <1>1, <1>2, <1>3 DEF ConsumeNext, Inner, Outer

\* Sessions are opened one after the other, and none is read before all are open.
LEMMA OpenedStep ==
  ASSUME ConsumeInv, ConsumeNext
  PROVE  OpenedInTurn'
<1> USE DEF ConsumeInv, ConsumeTypeOK, OpenedInTurn
<1>1. CASE Inner
  <2> USE DEF bus, loop
  <2>1. CASE Discover
    BY <2>1 DEF Discover, Sessions
  <2>2. CASE Negotiate
    <3>1. CASE step = "ack"
      <4>1. /\ UNCHANGED <<opening, reader, subscribed, ourSide, busSide, frames, delivered>>
            /\ step' = "negotiate"
        BY <2>2, <3>1 DEF Negotiate
      <4> QED BY <3>1, <4>1
    <3>2. CASE step = "negotiate"
      <4>1. opening' = opening + 1 /\ opening \in 1..N /\ step' = "discover" /\ ourSide' = ourSide
            /\ busSide' = busSide /\ frames' = frames /\ delivered' = delivered
        BY <2>2, <3>2 DEF Negotiate, Sessions
      <4>2. \/ opening' \in Sessions /\ reader' = reader /\ subscribed' = subscribed
            \/ opening' \notin Sessions /\ reader' = [s \in Sessions |-> "reading"]
        BY <2>2, <3>2 DEF Negotiate
      <4>3. ASSUME NEW s \in Sessions
            PROVE  (s < opening' \/ (s = opening' /\ step' # "discover")) <=> ourSide'[s] # "none"
        <5>1. ourSide[s] # "none" <=> s < opening \/ s = opening
          BY <3>2
        <5>2. s \in Int /\ opening \in Int
          BY <4>1 DEF Sessions
        <5>3. (s < opening \/ s = opening) <=> s < opening'
          BY <4>1, <5>2
        <5> QED BY <4>1, <5>1, <5>3
      <4> QED BY <2>2, <4>1, <4>2, <4>3 DEF Sessions
    <3> QED BY <2>2, <3>1, <3>2 DEF Negotiate
  <2>3. CASE OpeningFails
    BY <2>3 DEF OpeningFails, EndWith
  <2>4. ASSUME NEW why \in {"timeout", "signal"}, Cancel(why) PROVE OpenedInTurn'
    BY <2>4 DEF Cancel
  <2> QED BY <1>1, <2>1, <2>2, <2>3, <2>4 DEF Inner
<1>2. ASSUME NEW s \in Sessions, Outer(s) PROVE OpenedInTurn'
  <2> USE DEF bus, loop
  <2>1. CASE BusSends(s)
    BY <2>1 DEF BusSends
  <2>2. CASE BusCloses(s)
    BY <2>2 DEF BusCloses, Listening
  <2>3. ASSUME NEW why \in Farewells, BusSaysBye(s, why) PROVE OpenedInTurn'
    BY <2>3 DEF BusSaysBye, Listening
  <2>4. CASE ReadFrame(s)
    BY <2>4 DEF ReadFrame
  <2>5. CASE ReadError(s)
    BY <2>5 DEF ReadError
  <2>6. CASE Offer(s)
    BY <2>6 DEF Offer
  <2>7. CASE OfferCancelled(s)
    BY <2>7 DEF OfferCancelled
  <2> QED BY <1>2, <2>1, <2>2, <2>3, <2>4, <2>5, <2>6, <2>7 DEF Outer, Reader
<1>3. CASE Loop
  <2>1. /\ UNCHANGED <<opening, step, busSide, reader>> /\ opening \notin Sessions
        /\ \A s \in Sessions : ourSide'[s] # "none" <=> ourSide[s] # "none"
    BY <1>3, LoopDoes DEF bus, Sessions
  <2> QED BY <2>1
<1> QED BY <1>1, <1>2, <1>3 DEF ConsumeNext, Inner, Outer

\* What holds of one connection and its reader.
Wire(s, w, n, r, h) ==
  /\ Carries(s, w, n)
  /\ r \in {"off", "reading"} => h = Nothing
  /\ r = "offering" => Numbered(h) /\ h.from = s
  /\ h.kind = "event" => h.from = s /\ h.n = n - Count(w) /\ h.n > 0

LEMMA WiresAre == Wires <=> \A s \in Sessions : Wire(s, wire[s], sent[s], reader[s], hand[s])
BY DEF Wires, Wire

\* Each connection goes on from where it was; only handing a frame over raises Top.
LEMMA WiresStep ==
  ASSUME ConsumeInv, ConsumeNext
  PROVE  /\ \A s \in Sessions : Wire(s, wire'[s], sent'[s], reader'[s], hand'[s])
         /\ \A s \in Sessions : Top(s)' = Top(s)
              \/ /\ Offer(s) /\ hand[s].kind = "event" /\ Top(s)' = Top(s) + 1
                 /\ hand[s].n = Top(s) + 1
         /\ \A s \in Sessions : Top(s) \in Nat
<1>t. \A s \in Sessions : /\ wire[s] \in Seq(FrameType) /\ sent[s] \in Nat /\ hand[s] \in FrameType
                          /\ Wire(s, wire[s], sent[s], reader[s], hand[s])
  BY WiresAre DEF ConsumeInv, FramesTyped, ConsumeTypeOK
<1>n. \A s \in Sessions : Top(s) \in Nat
  <2> TAKE s \in Sessions
  <2>1. Count(wire[s]) \in Nat /\ Count(wire[s]) <= sent[s]
    BY <1>t, CountIs DEF Wire, Carries
  <2> QED BY <1>t, <2>1 DEF Top, Wire
<1> SUFFICES ASSUME NEW s \in Sessions
             PROVE  /\ Wire(s, wire'[s], sent'[s], reader'[s], hand'[s])
                    /\ Top(s)' = Top(s)
                         \/ /\ Offer(s) /\ hand[s].kind = "event" /\ Top(s)' = Top(s) + 1
                            /\ hand[s].n = Top(s) + 1
  BY <1>n
<1>c. Count(wire[s]) \in Nat /\ Count(wire[s]) <= sent[s]
  BY <1>t, CountIs DEF Wire, Carries
<1>q. CASE wire'[s] = wire[s] /\ sent'[s] = sent[s] /\ hand'[s] = hand[s]
           /\ (reader'[s] = reader[s] \/ reader'[s] = "gone" \/ (reader[s] = "off" /\ reader'[s] = "reading"))
  BY <1>t, <1>q DEF Wire, Top
<1> USE DEF bus, loop
<1>1. CASE Inner
  <2>1. Negotiate => reader[s] = "off" \/ reader' = reader
    BY DEF Negotiate, ConsumeInv, OpenedInTurn
  <2> QED BY <1>1, <1>q, <2>1 DEF Inner, Discover, Negotiate, OpeningFails, Cancel
<1>2. ASSUME NEW z \in Sessions, Outer(z)
      PROVE  /\ Wire(s, wire'[s], sent'[s], reader'[s], hand'[s])
             /\ Top(s)' = Top(s)
                  \/ /\ Offer(s) /\ hand[s].kind = "event" /\ Top(s)' = Top(s) + 1
                     /\ hand[s].n = Top(s) + 1
  <2>t. /\ wire \in [Sessions -> Seq(FrameType)] /\ hand \in [Sessions -> FrameType]
        /\ DOMAIN sent = Sessions /\ DOMAIN reader = Sessions
    BY DEF ConsumeInv, FramesTyped, ConsumeTypeOK
  <2>0. CASE z # s
    BY <1>2, <1>q, <2>0, <2>t DEF Outer, BusSends, BusCloses, Reader, BusSaysBye, ReadFrame, ReadError, Offer,
          OfferCancelled, Write
  <2>1. CASE BusSends(z) /\ z = s
    <3>1. sent'[s] = sent[s] + 1 /\ wire'[s] = Append(wire[s], Frame(s, "event", sent[s] + 1))
          /\ reader' = reader /\ hand' = hand /\ busSide[s] = "open"
      BY <2>1, <2>t DEF BusSends, Write
    <3>2. ~Ends(wire[s])
      BY <3>1 DEF ConsumeInv, ByesAreTrue, Parted
    <3>3. Carries(s, wire'[s], sent'[s]) /\ Count(wire'[s]) = Count(wire[s]) + 1
      BY <1>t, <3>1, <3>2, CarriesEvent DEF Wire
    <3> QED BY <1>t, <1>c, <3>1, <3>3 DEF Wire, Top
  <2>2. CASE BusCloses(z) /\ z = s
    BY <1>q, <2>2 DEF BusCloses
  <2>3. ASSUME NEW why \in Farewells, BusSaysBye(z, why), z = s
        PROVE  /\ Wire(s, wire'[s], sent'[s], reader'[s], hand'[s])
               /\ Top(s)' = Top(s)
    <3>1. sent'[s] = sent[s] /\ wire'[s] = Append(wire[s], Frame(s, why, 0))
          /\ reader' = reader /\ hand' = hand /\ busSide[s] = "open"
      BY <2>3, <2>t DEF BusSaysBye, Write
    <3>2. ~Ends(wire[s])
      BY <3>1 DEF ConsumeInv, ByesAreTrue, Parted
    <3>3. Carries(s, wire'[s], sent'[s]) /\ Count(wire'[s]) = Count(wire[s])
      BY <1>t, <3>1, <3>2, CarriesBye DEF Wire
    <3> QED BY <1>t, <1>c, <3>1, <3>3 DEF Wire, Top
  <2>4. CASE ReadFrame(z) /\ z = s
    <3>1. sent'[s] = sent[s] /\ wire'[s] = Tail(wire[s]) /\ hand'[s] = Head(wire[s])
          /\ reader'[s] = "offering" /\ reader[s] = "reading" /\ wire[s] # <<>>
      BY <2>4, <2>t DEF ReadFrame, Readable
    <3>2. hand[s].kind = "none"
      BY <1>t, <3>1, FrameIs DEF Wire
    <3>3. /\ Carries(s, wire'[s], sent'[s]) /\ Numbered(hand'[s]) /\ hand'[s].from = s
          /\ IF hand'[s].kind = "event"
               THEN Count(wire'[s]) = Count(wire[s]) - 1 /\ hand'[s].n = sent'[s] - Count(wire'[s])
               ELSE Count(wire'[s]) = Count(wire[s])
      BY <1>t, <3>1, CarriesRead DEF Wire
    <3>4. hand'[s].kind = "event" => hand'[s].n > 0
      BY <3>3, FrameIs DEF Numbered
    <3> QED BY <1>t, <1>c, <3>1, <3>2, <3>3, <3>4 DEF Wire, Top
  <2>5. CASE ReadError(z) /\ z = s
    <3>1. sent'[s] = sent[s] /\ wire'[s] = wire[s] /\ hand'[s] = End(s)
          /\ reader'[s] = "offering" /\ reader[s] = "reading"
      BY <2>5, <2>t DEF ReadError
    <3>2. hand[s].kind = "none"
      BY <1>t, <3>1, FrameIs DEF Wire
    <3> QED BY <1>t, <3>1, <3>2, FrameIs DEF Wire, Top
  <2>6. CASE Offer(z) /\ z = s
    <3>1. sent'[s] = sent[s] /\ wire'[s] = wire[s] /\ hand'[s] = Nothing
          /\ reader'[s] \in {"gone", "reading"} /\ reader[s] = "offering"
      BY <2>6, <2>t DEF Offer
    <3>2. hand'[s].kind = "none"
      BY <3>1, FrameIs
    <3>3. Wire(s, wire'[s], sent'[s], reader'[s], hand'[s])
      BY <1>t, <3>1, <3>2 DEF Wire
    <3>4. hand[s].kind = "event" => hand[s].n = Top(s) + 1 /\ Top(s)' = Top(s) + 1
      BY <1>t, <1>c, <3>1, <3>2 DEF Wire, Top
    <3>5. hand[s].kind # "event" => Top(s)' = Top(s)
      BY <1>t, <1>c, <3>1, <3>2 DEF Wire, Top
    <3> QED BY <2>6, <3>3, <3>4, <3>5
  <2>7. CASE OfferCancelled(z) /\ z = s
    BY <1>q, <2>7, <2>t DEF OfferCancelled
  <2> QED BY <1>2, <2>0, <2>1, <2>2, <2>3, <2>4, <2>5, <2>6, <2>7 DEF Outer, Reader
<1>3. CASE Loop
  BY <1>3, <1>q, LoopDoes
<1> QED BY <1>1, <1>2, <1>3 DEF ConsumeNext, Inner, Outer

-----------------------------------------------------------------------------
\* The head of the channel is delivered, or is not an event.
LEMMA Handed ==
  ASSUME NEW S, NEW a \in Seq(S), NEW b \in Seq(S), b # <<>>
  PROVE  Append(a, Head(b)) \o Tail(b) = a \o b
<1> DEFINE u == Append(a, Head(b)) \o Tail(b)
           v == a \o b
<1>1. /\ Head(b) \in S /\ Tail(b) \in Seq(S) /\ Len(Tail(b)) = Len(b) - 1 /\ Len(b) \in Nat \ {0}
      /\ Head(b) = b[1] /\ \A i \in 1..(Len(b) - 1) : Tail(b)[i] = b[i + 1]
  OBVIOUS
<1>2. /\ Append(a, Head(b)) \in Seq(S) /\ Len(Append(a, Head(b))) = Len(a) + 1 /\ Len(a) \in Nat
      /\ Append(a, Head(b))[Len(a) + 1] = b[1] /\ \A i \in 1..Len(a) : Append(a, Head(b))[i] = a[i]
  BY <1>1
<1>3. u \in Seq(S) /\ v \in Seq(S) /\ Len(u) = Len(v) /\ Len(v) = Len(a) + Len(b)
  BY <1>1, <1>2
<1>4. ASSUME NEW i \in 1..Len(v) PROVE u[i] = v[i]
  <2>1. CASE i <= Len(a)
    BY <1>1, <1>2, <1>3, <2>1
  <2>2. CASE i = Len(a) + 1
    BY <1>1, <1>2, <1>3, <2>2
  <2>3. CASE i > Len(a) + 1
    <3>1. u[i] = Tail(b)[i - (Len(a) + 1)]
      BY <1>1, <1>2, <1>3, <2>3
    <3>2. v[i] = b[i - Len(a)]
      BY <1>1, <1>2, <1>3, <2>3
    <3>3. i - (Len(a) + 1) \in 1..(Len(b) - 1) /\ (i - (Len(a) + 1)) + 1 = i - Len(a)
      BY <1>1, <1>2, <1>3, <2>3
    <3> QED BY <1>1, <3>1, <3>2, <3>3
  <2> QED BY <1>1, <1>2, <1>3, <2>1, <2>2, <2>3
<1> HIDE DEF u, v
<1>5. u = v
  BY <1>3, <1>4, SeqEqual
<1> QED BY <1>5 DEF u, v

\* A frame that is no event may be left out.
LEMMA MergesLess ==
  ASSUME NEW a \in Seq(FrameType), NEW b \in Seq(FrameType), b # <<>>, Head(b).kind # "event",
         NEW top, Merges(a \o b, top)
  PROVE  Merges(a \o Tail(b), top)
<1> DEFINE q == a \o b
           p == a \o Tail(b)
           d == Len(a)
           up(i) == IF i <= d THEN i ELSE i + 1
<1>1. /\ Head(b) \in FrameType /\ Tail(b) \in Seq(FrameType) /\ Len(Tail(b)) = Len(b) - 1 /\ Len(b) \in Nat \ {0}
      /\ Head(b) = b[1] /\ (\A i \in 1..(Len(b) - 1) : Tail(b)[i] = b[i + 1]) /\ d \in Nat
  OBVIOUS
<1>2. p \in Seq(FrameType) /\ q \in Seq(FrameType) /\ Len(q) = d + Len(b) /\ Len(p) = Len(q) - 1
      /\ DOMAIN p = 1..Len(p) /\ DOMAIN q = 1..Len(q) /\ q[d + 1] = Head(b)
  BY <1>1
<1>3. ASSUME NEW i \in DOMAIN p PROVE up(i) \in DOMAIN q /\ p[i] = q[up(i)] /\ i \in Nat
  <2>1. CASE i <= d
    BY <1>1, <1>2, <2>1
  <2>2. CASE i > d
    <3>1. p[i] = Tail(b)[i - d] /\ i - d \in 1..(Len(b) - 1)
      BY <1>1, <1>2, <2>2
    <3>2. q[i + 1] = b[(i + 1) - d]
      BY <1>1, <1>2, <2>2
    <3>3. (i - d) + 1 = (i + 1) - d
      BY <1>1, <1>2, <2>2
    <3> QED BY <1>1, <1>2, <2>2, <3>1, <3>2, <3>3
  <2> QED BY <1>1, <1>2, <2>1, <2>2
<1>4. ASSUME NEW j \in DOMAIN q, j # d + 1 PROVE \E i \in DOMAIN p : p[i] = q[j]
  <2>1. CASE j <= d
    <3>1. j \in DOMAIN p /\ up(j) = j
      BY <1>1, <1>2, <2>1
    <3> QED BY <1>3, <3>1
  <2>2. CASE j > d
    <3>1. j - 1 \in DOMAIN p /\ up(j - 1) = j
      BY <1>1, <1>2, <1>4, <2>2
    <3> QED BY <1>3, <3>1
  <2> QED BY <1>1, <1>2, <2>1, <2>2
<1>5. \A i, j \in DOMAIN p : i < j => up(i) < up(j)
  BY <1>1, <1>3
<1> HIDE DEF p, q, up
<1>6. Merges(q, top)
  BY DEF q
<1>7. Merges(p, top)
  <2>1. ASSUME NEW s \in Sessions, NEW m \in 1..top[s] PROVE \E i \in DOMAIN p : p[i] = Frame(s, "event", m)
    <3>1. PICK j \in DOMAIN q : q[j] = Frame(s, "event", m)
      BY <1>6 DEF Merges
    <3>2. q[j].kind = "event"
      BY <3>1 DEF Frame
    <3> QED BY <1>2, <1>4, <3>1, <3>2
  <2>2. ASSUME NEW i \in DOMAIN p, p[i].kind = "event"
        PROVE  p[i].from \in Sessions /\ p[i].n \in 1..top[p[i].from]
    BY <1>3, <1>6, <2>2 DEF Merges
  <2>3. ASSUME NEW i \in DOMAIN p, NEW j \in DOMAIN p, i < j, p[i].kind = "event", p[j].kind = "event",
               p[i].from = p[j].from
        PROVE  p[i].n < p[j].n
    BY <1>3, <1>5, <1>6, <2>3 DEF Merges
  <2> QED BY <2>1, <2>2, <2>3 DEF Merges
<1> QED BY <1>7 DEF p

\* The merge grows by what a reader hands over, and loses only ends and Byes.
LEMMA InOrderStep ==
  ASSUME ConsumeInv, ConsumeNext
  PROVE  InOrder'
<1> DEFINE q == delivered \o frames
           top == [s \in Sessions |-> Top(s)]
<1>t. /\ delivered \in Seq(FrameType) /\ frames \in Seq(FrameType) /\ q \in Seq(FrameType)
      /\ hand \in [Sessions -> FrameType]
  BY DEF ConsumeInv, FramesTyped
<1>n. top \in [Sessions -> Nat] /\ \A s \in Sessions : Top(s) \in Nat
  BY WiresStep
<1>u. SUFFICES ASSUME outcome' = "none"
               PROVE  Merges(delivered' \o frames', [s \in Sessions |-> Top(s)'])
  BY DEF InOrder
<1>1. CASE Loop
  <2>1. outcome = "none" /\ frames # <<>> /\ frames' = Tail(frames) /\ UNCHANGED <<bus, hand>>
        /\ \/ Head(frames).kind = "event" /\ delivered' = Append(delivered, Head(frames))
           \/ Head(frames).kind = "subscription_stopped" /\ delivered' = delivered
    BY <1>1, <1>u, LoopDoes
  <2>2. Merges(q, top)
    BY <2>1 DEF ConsumeInv, InOrder
  <2>3. \A s \in Sessions : Top(s)' = Top(s)
    BY <2>1 DEF Top, bus
  <2>4. CASE Head(frames).kind = "event" /\ delivered' = Append(delivered, Head(frames))
    <3>1. delivered' \o frames' = q
      BY <1>t, <2>1, <2>4, Handed
    <3> QED BY <2>2, <2>3, <3>1
  <2>5. CASE Head(frames).kind = "subscription_stopped" /\ delivered' = delivered
    BY <1>t, <2>1, <2>2, <2>3, <2>5, MergesLess
  <2> QED BY <2>1, <2>4, <2>5
<1>2. CASE ~Loop
  <2>1. outcome = "none" /\ delivered' = delivered
    BY <1>u, <1>2 DEF ConsumeNext, Discover, Negotiate, OpeningFails, Cancel, BusSends, BusCloses,
          Reader, ReadFrame, ReadError, Offer, OfferCancelled, BusSaysBye, EndWith, loop
  <2>2. Merges(q, top)
    BY <2>1 DEF ConsumeInv, InOrder
  <2>3. CASE \E s \in Sessions : Offer(s)
    <3>1. PICK s \in Sessions : Offer(s)
      BY <2>3
    <3>2. frames' = Append(frames, hand[s]) /\ hand[s].from = s /\ Numbered(hand[s]) /\ hand[s] \in FrameType
          /\ UNCHANGED <<wire, sent>> /\ \A z \in Sessions \ {s} : hand'[z] = hand[z]
      BY <1>t, <3>1 DEF Offer, bus, ConsumeInv, Wires
    <3>3. \A z \in Sessions \ {s} : Top(z)' = Top(z)
      BY <3>2 DEF Top
    <3>4. IF hand[s].kind = "event"
            THEN Top(s)' = Top(s) + 1 /\ hand[s].n = Top(s) + 1
            ELSE Top(s)' = Top(s)
      <4>1. CASE hand[s].kind = "event"
        <5>1. hand'[s] = Nothing /\ hand[s].n = sent[s] - Count(wire[s])
          BY <1>t, <3>1, <4>1 DEF Offer, ConsumeInv, Wires
        <5>2. Count(wire[s]) \in Nat /\ sent[s] \in Nat
          BY CountIs DEF ConsumeInv, FramesTyped, ConsumeTypeOK
        <5> QED BY <3>2, <4>1, <5>1, <5>2, FrameIs DEF Top
      <4>2. CASE hand[s].kind # "event"
        <5>1. hand'[s] = Nothing
          BY <1>t, <3>1 DEF Offer
        <5> QED BY <3>2, <4>2, <5>1, FrameIs DEF Top
      <4> QED BY <4>1, <4>2
    <3> DEFINE up == [z \in Sessions |-> Top(z)']
    <3>5. up \in [Sessions -> Nat]
      BY <1>n, <3>3, <3>4
    <3>6. IF hand[s].kind = "event"
            THEN hand[s].n = top[hand[s].from] + 1 /\ up = [top EXCEPT ![hand[s].from] = @ + 1]
            ELSE up = top
      BY <3>2, <3>3, <3>4
    <3>7. delivered' \o frames' = Append(q, hand[s])
      BY <1>t, <2>1, <3>2
    <3> HIDE DEF up, top, q
    <3>8. Merges(Append(q, hand[s]), up)
      BY <1>n, <1>t, <2>2, <3>2, <3>5, <3>6, MergesMore
    <3> QED BY <3>7, <3>8 DEF up
  <2>4. CASE \A s \in Sessions : ~Offer(s)
    <3>1. frames' = frames
      BY <1>2, <2>4 DEF ConsumeNext, Discover, Negotiate, OpeningFails, Cancel, BusSends, BusCloses,
            Reader, ReadFrame, ReadError, OfferCancelled, BusSaysBye, loop
    <3>2. \A s \in Sessions : Top(s)' = Top(s)
      BY <2>4, WiresStep
    <3> QED BY <2>1, <2>2, <3>1, <3>2
  <2> QED BY <2>3, <2>4
<1> QED BY <1>1, <1>2

\* What was delivered is in order, and is never touched again.
LEMMA DeliveredStep ==
  ASSUME ConsumeInv, ConsumeNext
  PROVE  DeliveredInOrder'
<1>1. CASE delivered' = delivered
  BY <1>1 DEF ConsumeInv, DeliveredInOrder
<1>2. CASE Loop /\ frames # <<>> /\ Head(frames).kind = "event" /\ delivered' = Append(delivered, Head(frames))
  <2> DEFINE q == delivered \o frames
             f == Head(frames)
             top == [s \in Sessions |-> Top(s)]
  <2>1. outcome = "none" /\ Merges(q, top)
    BY <1>2, LoopDoes DEF ConsumeInv, InOrder
  <2>2. /\ delivered \in Seq(FrameType) /\ frames \in Seq(FrameType) /\ f \in FrameType
        /\ Len(q) = Len(delivered) + Len(frames) /\ q \in Seq(FrameType)
        /\ q[Len(delivered) + 1] = f /\ \A i \in 1..Len(delivered) : q[i] = delivered[i]
        /\ Len(delivered) + 1 \in DOMAIN q /\ DOMAIN delivered \subseteq DOMAIN q
        /\ DOMAIN delivered = 1..Len(delivered) /\ Len(delivered) \in Nat
    BY <1>2 DEF ConsumeInv, FramesTyped
  <2>3. Numbered(f) /\ f.kind = "event"
    BY <1>2, FramesTail DEF ConsumeInv
  <2> DEFINE d == Len(delivered)
  <2> HIDE DEF q, f, d
  <2>4. \A i \in 1..d : delivered[i] # f
    <3> SUFFICES ASSUME NEW i \in 1..d, delivered[i] = f PROVE FALSE
      OBVIOUS
    <3>1. i \in DOMAIN q /\ d + 1 \in DOMAIN q /\ i < d + 1 /\ q[i] = f /\ q[d + 1] = f
      BY <2>2 DEF d
    <3>2. q[i].n < q[d + 1].n
      BY <2>1, <2>3, <3>1 DEF Merges
    <3> QED BY <3>1, <3>2, <2>3 DEF Numbered
  <2>5. f.n = 1 \/ \E j \in 1..d : delivered[j] = Frame(f.from, "event", f.n - 1)
    <3> SUFFICES ASSUME f.n # 1 PROVE \E j \in 1..d : delivered[j] = Frame(f.from, "event", f.n - 1)
      OBVIOUS
    <3>1. f.from \in Sessions /\ f.n \in Nat \ {0} /\ f.n - 1 \in Nat \ {0}
      BY <2>3, FrameIs DEF Numbered
    <3>2. f.n \in 1..top[f.from]
      BY <2>1, <2>2, <2>3 DEF Merges, d
    <3>3. f.n - 1 \in 1..top[f.from]
      <4>1. top[f.from] \in Nat
        BY <3>1, WiresStep
      <4> HIDE DEF top
      <4> QED BY <3>1, <3>2, <4>1
    <3>4. PICK j \in DOMAIN q : q[j] = Frame(f.from, "event", f.n - 1)
      BY <2>1, <3>1, <3>3 DEF Merges
    <3>5. q[j].kind = "event" /\ q[j].from = f.from /\ q[j].n = f.n - 1
      BY <3>1, <3>4, FrameIs
    <3>6. j # d + 1
      BY <2>2, <3>1, <3>5 DEF d
    <3>7. ~(d + 1 < j)
      <4> SUFFICES ASSUME d + 1 < j PROVE FALSE
        OBVIOUS
      <4>1. q[d + 1].n < q[j].n
        BY <2>1, <2>2, <2>3, <3>5 DEF Merges, d
      <4> QED BY <2>2, <3>1, <3>5, <4>1 DEF d
    <3>8. j \in 1..d
      <4>1. j \in Nat \ {0} /\ d \in Nat
        BY <2>2 DEF d
      <4> QED BY <3>6, <3>7, <4>1
    <3> QED BY <2>2, <3>4, <3>8 DEF d
  <2>6. /\ delivered' = Append(delivered, f) /\ DOMAIN delivered' = 1..(d + 1) /\ delivered'[d + 1] = f
        /\ \A i \in 1..d : delivered'[i] = delivered[i]
    BY <1>2, <2>2 DEF f, d
  <2>7. d \in Nat
    BY <2>2 DEF d
  <2>8. ASSUME NEW i \in DOMAIN delivered'
        PROVE  /\ delivered'[i].n = 1
                    \/ \E j \in 1..(i - 1) : delivered'[j] = Frame(delivered'[i].from, "event", delivered'[i].n - 1)
               /\ \A j \in 1..(i - 1) : delivered'[j] # delivered'[i]
    <3>1. CASE i = d + 1
      BY <2>4, <2>5, <2>6, <2>7, <3>1
    <3>2. CASE i \in 1..d
      <4>1. /\ delivered[i].n = 1
                 \/ \E j \in 1..(i - 1) : delivered[j] = Frame(delivered[i].from, "event", delivered[i].n - 1)
            /\ \A j \in 1..(i - 1) : delivered[j] # delivered[i]
        BY <2>2, <3>2 DEF ConsumeInv, DeliveredInOrder, d
      <4>2. \A j \in 1..(i - 1) : j \in 1..d
        BY <2>7, <3>2
      <4> QED BY <2>6, <3>2, <4>1, <4>2
    <3> QED BY <2>6, <2>7, <3>1, <3>2
  <2> QED BY <2>8 DEF DeliveredInOrder
<1>3. ~Loop => delivered' = delivered
  BY DEF ConsumeNext, Discover, Negotiate, OpeningFails, Cancel, BusSends, BusCloses,
         Reader, ReadFrame, ReadError, Offer, OfferCancelled, BusSaysBye, EndWith, loop
<1> QED BY <1>1, <1>2, <1>3, LoopDoes

-----------------------------------------------------------------------------
\* The bus does not take a Bye back.
LEMMA PartedStays ==
  ASSUME ConsumeInv, ConsumeNext
  PROVE  \A s \in Sessions : Parted(s) => Parted(s)'
<1> USE DEF Parted, bus
<1>1. CASE Loop
  BY <1>1, LoopDoes
<1>2. CASE ~Loop
  <2>1. busSide \in [Sessions -> {"none", "open", "bye", "closed"}]
    BY DEF ConsumeInv, ConsumeTypeOK
  <2>2. Discover => busSide[opening] = "none" /\ opening \in Sessions
    BY DEF Discover, ConsumeInv, OpenedInTurn, Sessions
  <2> QED BY <1>2, <2>1, <2>2 DEF ConsumeNext, Discover, Negotiate, OpeningFails, Cancel, BusSends, BusCloses,
             Reader, ReadFrame, ReadError, Offer, OfferCancelled, BusSaysBye, Write
<1> QED BY <1>1, <1>2

\* A Bye that is known of has been said, and ends its reader.
LEMMA ByesStep ==
  ASSUME ConsumeInv, ConsumeNext
  PROVE  ByesAreTrue'
<1>t. /\ wire \in [Sessions -> Seq(FrameType)] /\ hand \in [Sessions -> FrameType]
      /\ frames \in Seq(FrameType) /\ \A i \in DOMAIN frames : Numbered(frames[i]) /\ frames[i].from \in Sessions
      /\ sent \in [Sessions -> 0..Sends] /\ DOMAIN busSide = Sessions /\ DOMAIN reader = Sessions
      /\ ByesAreTrue
  BY DEF ConsumeInv, FramesTyped, ConsumeTypeOK, Numbered
<1>p. \A s \in Sessions : Parted(s) => Parted(s)'
  BY PartedStays
<1>1. CASE Inner
  <2>1. /\ UNCHANGED <<wire, hand, frames>> /\ \A s \in Sessions : reader[s] = "gone" => reader'[s] = "gone"
        /\ opening' \notin Sessions => \A s \in Sessions \ subscribed' : s \notin subscribed /\ opening \notin Sessions
    <3>1. CASE Negotiate
      <4>1. opening \in Sessions => \A s \in Sessions : reader[s] = "off"
        BY DEF ConsumeInv, OpenedInTurn
      <4> QED BY <3>1, <4>1 DEF Negotiate, bus
    <3> QED BY <1>1, <3>1 DEF Inner, Discover, OpeningFails, Cancel, bus, loop, Sessions
  <2> QED BY <1>t, <1>p, <2>1 DEF ByesAreTrue
<1>2. ASSUME NEW s \in Sessions, Outer(s) PROVE ByesAreTrue'
  <2>u. UNCHANGED <<opening, subscribed>>
    BY <1>2 DEF Outer, BusSends, BusCloses, Reader, BusSaysBye, ReadFrame, ReadError, Offer, OfferCancelled, loop
  <2>w. /\ Carries(s, wire[s], sent[s]) /\ (reader[s] = "offering" => Numbered(hand[s]) /\ hand[s].from = s)
    BY DEF ConsumeInv, Wires
  <2>1. CASE BusSends(s)
    <3>1. wire' = [wire EXCEPT ![s] = Append(wire[s], Frame(s, "event", sent'[s]))] /\ UNCHANGED <<hand, reader, frames>>
          /\ sent'[s] = sent[s] + 1 /\ busSide[s] = "open"
      BY <1>t, <2>1 DEF BusSends, Write, loop
    <3>2. ~Ends(wire[s])
      BY <1>t, <3>1 DEF ByesAreTrue, Parted
    <3>3. ~Ends(wire'[s])
      BY <1>t, <2>w, <3>1, <3>2, CarriesEvent
    <3> QED BY <1>t, <1>p, <2>u, <3>1, <3>3 DEF ByesAreTrue
  <2>2. CASE BusCloses(s)
    BY <1>t, <1>p, <2>u, <2>2 DEF BusCloses, ByesAreTrue, loop
  <2>3. ASSUME NEW why \in Farewells, BusSaysBye(s, why) PROVE ByesAreTrue'
    <3>1. wire' = [wire EXCEPT ![s] = Append(wire[s], Frame(s, why, 0))] /\ UNCHANGED <<hand, reader, frames>>
          /\ Parted(s)'
      BY <1>t, <2>3 DEF BusSaysBye, Write, loop, Parted
    <3> QED BY <1>t, <1>p, <2>u, <3>1 DEF ByesAreTrue
  <2>4. CASE ReadFrame(s)
    <3>1. /\ wire' = [wire EXCEPT ![s] = Tail(wire[s])] /\ hand' = [hand EXCEPT ![s] = Head(wire[s])]
          /\ reader' = [reader EXCEPT ![s] = "offering"] /\ reader[s] = "reading" /\ wire[s] # <<>>
          /\ frames' = frames
      BY <1>t, <2>4 DEF ReadFrame, Readable, loop
    <3>2. /\ Ends(Tail(wire[s])) => Ends(wire[s])
          /\ Head(wire[s]).kind \in Farewells => Ends(wire[s])
      BY <1>t, <2>w, <3>1, CarriesRead, FrameIs
    <3>3. \A z \in Sessions : Ends(wire'[z]) \/ hand'[z].kind \in Farewells => Parted(z)'
      BY <1>t, <1>p, <3>1, <3>2 DEF ByesAreTrue
    <3> QED BY <1>t, <1>p, <2>u, <3>1, <3>3 DEF ByesAreTrue
  <2>5. CASE ReadError(s)
    <3>1. /\ wire' = wire /\ hand' = [hand EXCEPT ![s] = End(s)] /\ frames' = frames
          /\ reader' = [reader EXCEPT ![s] = "offering"] /\ reader[s] = "reading"
      BY <1>t, <2>5 DEF ReadError, bus, loop
    <3> QED BY <1>t, <1>p, <2>u, <3>1, FrameIs DEF ByesAreTrue
  <2>6. CASE Offer(s)
    <3>1. /\ wire' = wire /\ hand' = [hand EXCEPT ![s] = Nothing] /\ frames' = Append(frames, hand[s])
          /\ reader' = [reader EXCEPT ![s] = IF Last(hand[s]) THEN "gone" ELSE "reading"]
          /\ hand[s].from = s /\ reader[s] = "offering"
      BY <1>t, <2>6, <2>w DEF Offer, bus
    <3>2. \A i \in DOMAIN frames' : frames'[i] = hand[s] \/ (i \in DOMAIN frames /\ frames'[i] = frames[i])
      BY <1>t, <3>1
    <3>3. hand[s].kind \in Farewells => Parted(s)'
      BY <1>t, <1>p DEF ByesAreTrue
    <3>4. \A i \in DOMAIN frames' : frames'[i].kind \in Farewells => busSide'[frames'[i].from] \in {"bye", "closed"}
      BY <1>t, <1>p, <3>1, <3>2, <3>3 DEF ByesAreTrue, Parted
    <3>5. \A i \in DOMAIN frames' : Last(frames'[i]) => reader'[frames'[i].from] = "gone"
      BY <1>t, <3>1, <3>2 DEF ByesAreTrue
    <3>6. \A z \in Sessions : Ends(wire'[z]) \/ hand'[z].kind \in Farewells => Parted(z)'
      BY <1>t, <1>p, <3>1, FrameIs DEF ByesAreTrue
    <3> QED BY <1>t, <1>p, <2>u, <3>1, <3>4, <3>5, <3>6 DEF ByesAreTrue, Parted
  <2>7. CASE OfferCancelled(s)
    BY <1>t, <1>p, <2>u, <2>7 DEF OfferCancelled, ByesAreTrue, loop, bus
  <2> QED BY <1>2, <2>1, <2>2, <2>3, <2>4, <2>5, <2>6, <2>7 DEF Outer, Reader
<1>3. CASE Loop
  <2>1. /\ UNCHANGED <<opening, bus, reader, hand>> /\ (frames' = frames \/ (frames # <<>> /\ frames' = Tail(frames)))
        /\ opening \notin Sessions
        /\ \A s \in subscribed \ subscribed' :
              frames # <<>> /\ Head(frames).kind = "subscription_stopped" /\ Head(frames).from = s
    BY <1>3, LoopDoes DEF Sessions
  <2>2. \A i \in DOMAIN frames' : \E j \in DOMAIN frames : frames'[i] = frames[j]
    BY <2>1, FramesTail DEF ConsumeInv
  <2>3. \A s \in subscribed \ subscribed' : Parted(s)
    <3>1. frames # <<>> => 1 \in DOMAIN frames /\ Head(frames) = frames[1]
      BY <1>t
    <3> QED BY <1>t, <2>1, <3>1 DEF ByesAreTrue, Farewells
  <2>4. \A s \in Sessions : (Parted(s) <=> Parted(s)')
    BY <2>1 DEF Parted, bus
  <2> QED BY <1>t, <2>1, <2>2, <2>3, <2>4 DEF ByesAreTrue, bus
<1> QED BY <1>1, <1>2, <1>3 DEF ConsumeNext, Inner, Outer

\* While the command lives, a reader meets an error only on a connection that crashed.
LEMMA NoErrorStep ==
  ASSUME ConsumeInv, ConsumeNext
  PROVE  NoErrorYet'
<1> SUFFICES ASSUME outcome' = "none", ctx' = "live", ~BusCrashes PROVE NoErrorYet'
  BY DEF NoErrorYet
<1>t. /\ wire \in [Sessions -> Seq(FrameType)] /\ hand \in [Sessions -> FrameType]
      /\ frames \in Seq(FrameType) /\ \A i \in DOMAIN frames : frames[i].from \in Sessions
      /\ sent \in [Sessions -> 0..Sends] /\ DOMAIN busSide = Sessions /\ DOMAIN reader = Sessions
      /\ DOMAIN ourSide = Sessions
  BY DEF ConsumeInv, FramesTyped, ConsumeTypeOK, Numbered
<1>a. outcome = "none" /\ ctx = "live"
  <2>1. Loop => outcome = "none" /\ ctx = "live"
    BY LoopDoes
  <2> QED BY <2>1 DEF ConsumeNext, Discover, Negotiate, OpeningFails, Cancel, BusSends, BusCloses,
             Reader, ReadFrame, ReadError, Offer, OfferCancelled, BusSaysBye, EndWith
<1>b. /\ \A s \in Sessions : ourSide[s] = "closed" => reader[s] = "gone"
      /\ \A s \in Sessions :
           Parted(s) => Ends(wire[s]) \/ hand[s].kind \in Farewells \/ reader[s] = "gone"
      /\ \A s \in Sessions : hand[s].kind # "err"
      /\ \A i \in DOMAIN frames : frames[i].kind # "err"
  BY <1>a DEF ConsumeInv, NoErrorYet
<1>w. \A s \in Sessions :
        /\ Carries(s, wire[s], sent[s]) /\ (reader[s] = "offering" => Numbered(hand[s]) /\ hand[s].from = s)
        /\ (reader[s] = "reading" => hand[s].kind = "none")
  BY FrameIs DEF ConsumeInv, Wires
<1>1. CASE Inner
  <2>1. /\ UNCHANGED <<wire, hand, frames>> /\ \A s \in Sessions : reader[s] = "gone" => reader'[s] = "gone"
    <3>1. CASE Negotiate
      <4>1. opening \in Sessions => \A s \in Sessions : reader[s] = "off"
        BY DEF ConsumeInv, OpenedInTurn
      <4> QED BY <3>1, <4>1 DEF Negotiate, bus
    <3> QED BY <1>1, <3>1 DEF Inner, Discover, OpeningFails, Cancel, bus, loop, Sessions
  <2>2. \A s \in Sessions : ourSide'[s] = "closed" => ourSide[s] = "closed"
    <3>1. CASE Discover
      BY <1>a, <1>t, <3>1 DEF Discover
    <3> QED BY <1>1, <1>a, <3>1 DEF Inner, Negotiate, OpeningFails, Cancel, EndWith
  <2>3. \A s \in Sessions : Parted(s)' => Parted(s)
    BY <1>1, <1>t DEF Inner, Discover, Negotiate, OpeningFails, Cancel, Parted, bus
  <2> QED BY <1>b, <2>1, <2>2, <2>3 DEF NoErrorYet
<1>2. ASSUME NEW s \in Sessions, Outer(s) PROVE NoErrorYet'
  <2>u. UNCHANGED ourSide
    BY <1>2 DEF Outer, BusSends, BusCloses, Reader, BusSaysBye, ReadFrame, ReadError, Offer, OfferCancelled
  <2>1. CASE BusSends(s)
    <3>1. wire' = [wire EXCEPT ![s] = Append(wire[s], Frame(s, "event", sent'[s]))] /\ UNCHANGED <<hand, reader, frames, busSide>>
          /\ busSide[s] = "open"
      BY <1>t, <2>1 DEF BusSends, Write, loop
    <3>2. ~Parted(s) /\ \A z \in Sessions : (Parted(z)' <=> Parted(z))
      BY <3>1 DEF Parted
    <3> QED BY <1>b, <1>t, <2>u, <3>1, <3>2 DEF NoErrorYet
  <2>2. CASE BusCloses(s)
    <3>1. \A z \in Sessions : Parted(z)' => Parted(z)
      BY <1>t, <2>2 DEF BusCloses, Parted
    <3> QED BY <1>b, <1>t, <2>u, <2>2, <3>1 DEF BusCloses, NoErrorYet, loop
  <2>3. ASSUME NEW why \in Farewells, BusSaysBye(s, why) PROVE NoErrorYet'
    <3>1. wire' = [wire EXCEPT ![s] = Append(wire[s], Frame(s, why, 0))] /\ UNCHANGED <<hand, reader, frames>>
          /\ busSide[s] = "open"
      BY <1>t, <2>3 DEF BusSaysBye, Write, loop
    <3>2. ~Ends(wire[s])
      BY <3>1 DEF ConsumeInv, ByesAreTrue, Parted
    <3>3. Ends(wire'[s])
      BY <1>t, <1>w, <3>1, <3>2, CarriesBye
    <3>4. \A z \in Sessions \ {s} : Parted(z)' => Parted(z)
      BY <1>t, <2>3 DEF BusSaysBye, Parted
    <3> QED BY <1>b, <1>t, <2>u, <3>1, <3>3, <3>4 DEF NoErrorYet
  <2>4. CASE ReadFrame(s)
    <3>1. /\ wire' = [wire EXCEPT ![s] = Tail(wire[s])] /\ hand' = [hand EXCEPT ![s] = Head(wire[s])]
          /\ reader' = [reader EXCEPT ![s] = "offering"] /\ reader[s] = "reading" /\ wire[s] # <<>>
          /\ UNCHANGED <<frames, busSide>>
      BY <1>t, <2>4 DEF ReadFrame, Readable, loop
    <3>2. /\ Ends(wire[s]) => Ends(Tail(wire[s])) \/ Head(wire[s]).kind \in Farewells
          /\ Head(wire[s]).kind # "err" /\ hand[s].kind = "none"
      BY <1>t, <1>w, <3>1, CarriesRead
    <3>3. \A z \in Sessions : (Parted(z)' <=> Parted(z))
      BY <3>1 DEF Parted
    <3>4. ourSide[s] # "closed" /\ (Parted(s) => Ends(wire[s]))
      BY <1>b, <3>1, <3>2, FrameIs
    <3>5. \A z \in Sessions : Parted(z)' => Ends(wire'[z]) \/ hand'[z].kind \in Farewells \/ reader'[z] = "gone"
      BY <1>b, <1>t, <3>1, <3>2, <3>3, <3>4
    <3> QED BY <1>b, <1>t, <2>u, <3>1, <3>2, <3>4, <3>5 DEF NoErrorYet
  <2>5. ~ReadError(s)
    <3> SUFFICES ASSUME ReadError(s) PROVE FALSE
      OBVIOUS
    <3>1. reader[s] = "reading" /\ Broken(s)
      BY DEF ReadError
    <3>2. busSide[s] = "closed" /\ wire[s] = <<>>
      BY <1>b, <3>1 DEF Broken
    <3>3. Parted(s) /\ ~Ends(wire[s]) /\ hand[s].kind = "none"
      BY <1>w, <3>1, <3>2 DEF Parted, Ends
    <3> QED BY <1>b, <3>1, <3>3, FrameIs
  <2>6. CASE Offer(s)
    <3>1. /\ wire' = wire /\ hand' = [hand EXCEPT ![s] = Nothing] /\ frames' = Append(frames, hand[s])
          /\ reader' = [reader EXCEPT ![s] = IF Last(hand[s]) THEN "gone" ELSE "reading"]
          /\ reader[s] = "offering" /\ busSide' = busSide
      BY <1>t, <2>6 DEF Offer, bus
    <3>2. \A i \in DOMAIN frames' : frames'[i] = hand[s] \/ (i \in DOMAIN frames /\ frames'[i] = frames[i])
      BY <1>t, <3>1
    <3>3. \A z \in Sessions : (Parted(z)' <=> Parted(z))
      BY <3>1 DEF Parted
    <3>4. hand[s].kind \in Farewells => reader'[s] = "gone"
      BY <1>t, <3>1 DEF Last
    <3>5. \A z \in Sessions : Parted(z)' => Ends(wire'[z]) \/ hand'[z].kind \in Farewells \/ reader'[z] = "gone"
      BY <1>b, <1>t, <3>1, <3>3, <3>4
    <3>6. \A z \in Sessions : hand'[z].kind # "err"
      BY <1>b, <1>t, <3>1, FrameIs
    <3> QED BY <1>b, <1>t, <2>u, <3>1, <3>2, <3>5, <3>6 DEF NoErrorYet
  <2>7. CASE OfferCancelled(s)
    BY <1>a, <2>7 DEF OfferCancelled, Dismissed
  <2> QED BY <1>2, <2>1, <2>2, <2>3, <2>4, <2>5, <2>6, <2>7 DEF Outer, Reader
<1>3. CASE Loop
  <2>1. /\ UNCHANGED <<bus, reader, hand>> /\ frames # <<>> /\ frames' = Tail(frames)
    BY <1>3, LoopDoes
  <2>2. \A i \in DOMAIN frames' : \E j \in DOMAIN frames : frames'[i] = frames[j]
    BY <2>1, FramesTail DEF ConsumeInv
  <2>3. \A s \in Sessions : (Parted(s)' <=> Parted(s))
    BY <2>1 DEF Parted, bus
  <2>4. \A s \in Sessions : ourSide'[s] = "closed" => reader[s] = "gone"
    <3>1. CASE TakeStopped
      <4>1. /\ ourSide' = ourSide \/ ourSide' = [ourSide EXCEPT ![Head(frames).from] = "closed"]
            /\ Head(frames).kind = "subscription_stopped"
        BY <3>1 DEF TakeStopped, Take, EndWith, From
      <4>2. reader[Head(frames).from] = "gone" /\ Head(frames).from \in Sessions
        <5>1. 1 \in DOMAIN frames /\ Head(frames) = frames[1]
          BY <1>t, <2>1
        <5>2. Last(Head(frames))
          BY <4>1 DEF Last, Farewells
        <5> QED BY <1>t, <5>1, <5>2 DEF ConsumeInv, ByesAreTrue
      <4> QED BY <1>b, <1>t, <4>1, <4>2
    <3>2. CASE TakeEvent
      BY <1>b, <3>2 DEF TakeEvent, EndWith
    <3> QED BY <1>3, <3>1, <3>2 DEF Loop, LoopCancelled, TakeError, TakeEventPipeClosed, TakeEventFails,
                                TakeBye, EndWith
  <2> QED BY <1>b, <2>1, <2>2, <2>3, <2>4 DEF NoErrorYet, bus
<1> QED BY <1>1, <1>2, <1>3 DEF ConsumeNext, Inner, Outer

-----------------------------------------------------------------------------
\* What has ended the command is true, and stays so.
LEMMA EndsStep ==
  ASSUME ConsumeInv, ConsumeNext
  PROVE  EndsAll' /\ AllWereStopped' /\ LimitTellsEveryone' /\ NoErrorAfterBye'
<1>t. /\ frames \in Seq(FrameType) /\ delivered \in Seq(FrameType) /\ MaxEvents \in Nat
      /\ ourSide \in [Sessions -> {"none", "open", "closed"}] /\ Len(delivered) \in Nat
      /\ EndsAll /\ AllWereStopped /\ LimitTellsEveryone /\ NoErrorAfterBye
  BY DEF ConsumeInv, FramesTyped, ConsumeTypeOK
<1>b. opening' \notin Sessions => \A s \in Sessions \ subscribed' : Parted(s)'
  BY ByesStep DEF ByesAreTrue
<1>p. \A s \in Sessions : Parted(s) => Parted(s)'
  BY PartedStays
<1>1. CASE ~Loop
  <2>1. delivered' = delivered /\ byes' = byes /\ (outcome' = outcome \/ outcome' = "open_error")
    BY <1>1 DEF ConsumeNext, Discover, Negotiate, OpeningFails, Cancel, BusSends, BusCloses,
         Reader, ReadFrame, ReadError, Offer, OfferCancelled, BusSaysBye, EndWith, loop
  <2>2. outcome' # "none" => \A s \in Sessions : ourSide'[s] # "open"
    BY <1>1, <1>t DEF ConsumeNext, Discover, Negotiate, OpeningFails, Cancel, BusSends, BusCloses,
         Reader, ReadFrame, ReadError, Offer, OfferCancelled, BusSaysBye, EndWith, EndsAll
  <2>3. outcome # "none" => subscribed' = subscribed
    BY <1>1 DEF ConsumeNext, Discover, Negotiate, OpeningFails, Cancel, BusSends, BusCloses,
         Reader, ReadFrame, ReadError, Offer, OfferCancelled, BusSaysBye, loop
  <2>4. EndsAll'
    <3>1. outcome' = "none" => outcome = "none"
      BY <2>1
    <3> QED BY <1>t, <2>1, <2>2, <3>1 DEF EndsAll
  <2>5. AllWereStopped'
    BY <1>t, <1>p, <2>1, <2>3 DEF AllWereStopped, Parted
  <2>6. LimitTellsEveryone'
    BY <1>t, <1>p, <2>1 DEF LimitTellsEveryone, Parted, Received
  <2>7. NoErrorAfterBye'
    BY <1>t, <2>1 DEF NoErrorAfterBye
  <2> QED BY <2>4, <2>5, <2>6, <2>7
<1>2. CASE Loop
  <2>n. outcome = "none" /\ opening' = opening /\ opening = N + 1 /\ busSide' = busSide
    BY <1>2, LoopDoes DEF bus
  <2>s. \A s \in Sessions \ subscribed' : busSide'[s] \in {"bye", "closed"}
    BY <1>b, <2>n DEF Parted, Sessions
  <2>l. MaxEvents > 0 => Len(delivered) < MaxEvents
    BY <1>t, <2>n DEF EndsAll
  <2>1. CASE TakeEvent
    <3>1. CASE AtLimit
      <4>1. /\ outcome' = "limit" /\ byes' = subscribed /\ subscribed' = subscribed
            /\ \A s \in Sessions : ourSide'[s] # "open"
        BY <2>1, <3>1, <1>t DEF TakeEvent, EndWith
      <4>2. MaxEvents = Len(delivered) + 1
        BY <1>t, <2>l, <3>1 DEF AtLimit, Received
      <4>3. Len(delivered') = Len(delivered) + 1
        <5>1. delivered' = Append(delivered, Head(frames)) /\ frames # <<>>
          BY <2>1 DEF TakeEvent, Take
        <5> QED BY <1>t, <5>1
      <4> QED BY <2>s, <4>1, <4>2, <4>3
            DEF EndsAll, AllWereStopped, LimitTellsEveryone, NoErrorAfterBye, Received
    <3>2. CASE ~AtLimit
      <4>1. outcome' = "none" /\ delivered' = Append(delivered, Head(frames)) /\ frames # <<>>
        BY <2>1, <2>n, <3>2 DEF TakeEvent, Take
      <4>2. Len(delivered') = Len(delivered) + 1
        BY <1>t, <4>1
      <4>3. MaxEvents > 0 => Len(delivered) + 1 < MaxEvents
        BY <1>t, <3>2 DEF AtLimit, Received
      <4> QED BY <4>1, <4>2, <4>3 DEF EndsAll, AllWereStopped, LimitTellsEveryone, NoErrorAfterBye
    <3> QED BY <3>1, <3>2
  <2>2. CASE TakeError
    <3>1. ctx # "live" \/ BusCrashes
      <4>1. frames # <<>> /\ Head(frames).kind = "err"
        BY <2>2 DEF TakeError, Take
      <4>2. 1 \in DOMAIN frames /\ Head(frames) = frames[1]
        BY <1>t, <4>1
      <4> QED BY <2>n, <4>1, <4>2 DEF ConsumeInv, NoErrorYet
    <3>2. ctx \in {"live", "timeout", "signal"}
      BY DEF ConsumeInv, ConsumeTypeOK
    <3>3. /\ outcome' = IF ctx = "live" THEN "read_error" ELSE ctx
          /\ \A s \in Sessions : ourSide'[s] # "open"
      BY <1>t, <2>2 DEF TakeError, EndWith
    <3> QED BY <3>1, <3>2, <3>3 DEF EndsAll, AllWereStopped, LimitTellsEveryone, NoErrorAfterBye
  <2>3. CASE LoopCancelled
    <3>1. ctx \in {"timeout", "signal"}
      BY <2>3 DEF ConsumeInv, ConsumeTypeOK, LoopCancelled
    <3>2. outcome' = ctx /\ \A s \in Sessions : ourSide'[s] # "open"
      BY <1>t, <2>3 DEF LoopCancelled, EndWith
    <3> QED BY <3>1, <3>2 DEF EndsAll, AllWereStopped, LimitTellsEveryone, NoErrorAfterBye
  <2>4. CASE TakeStopped
    <3>1. CASE subscribed' = {}
      <4>1. outcome' = "subscriptions_stopped" /\ \A s \in Sessions : ourSide'[s] # "open"
        BY <1>t, <2>4, <3>1 DEF TakeStopped, EndWith
      <4> QED BY <2>s, <3>1, <4>1 DEF EndsAll, AllWereStopped, LimitTellsEveryone, NoErrorAfterBye
    <3>2. CASE subscribed' # {}
      <4>1. outcome' = "none" /\ delivered' = delivered
        BY <2>4, <2>n, <3>2 DEF TakeStopped
      <4> QED BY <2>l, <4>1 DEF EndsAll, AllWereStopped, LimitTellsEveryone, NoErrorAfterBye
    <3> QED BY <3>1, <3>2
  <2>5. CASE TakeEventPipeClosed \/ TakeEventFails \/ TakeBye
    <3>1. /\ outcome' \in {"signal", "sink_error", "bus_shutdown", "rejected"}
          /\ \A s \in Sessions : ourSide'[s] # "open"
      BY <1>t, <2>5 DEF TakeEventPipeClosed, TakeEventFails, TakeBye, EndWith
    <3> QED BY <3>1 DEF EndsAll, AllWereStopped, LimitTellsEveryone, NoErrorAfterBye
  <2> QED BY <1>2, <2>1, <2>2, <2>3, <2>4, <2>5 DEF Loop
<1> QED BY <1>1, <1>2

\* The invariant is inductive, and means what RunMany promises.
LEMMA ConsumeStays ==
  ASSUME ConsumeInv, [ConsumeNext]_consumeVars
  PROVE  ConsumeInv'
<1>1. CASE ConsumeNext
  <2>1. FramesTyped'
    BY <1>1, TypesLoop, TypesOuter, TypesInner DEF ConsumeNext, Inner, Outer
  <2>2. Wires'
    BY <1>1, WiresStep DEF Wires, Wire
  <2> QED BY <1>1, <2>1, <2>2, TypeOKStep, OpenedStep, InOrderStep, DeliveredStep, ByesStep,
             NoErrorStep, EndsStep DEF ConsumeInv
<1>2. CASE UNCHANGED consumeVars
  <2> USE <1>2 DEF consumeVars, ConsumeInv
  <2>1. ConsumeTypeOK' /\ FramesTyped' /\ OpenedInTurn'
    BY DEF ConsumeTypeOK, FramesTyped, OpenedInTurn, Received
  <2>2. Wires' /\ InOrder'
    <3>1. \A s \in Sessions : Top(s)' = Top(s)
      BY DEF Top
    <3> QED BY <3>1 DEF Wires, InOrder
  <2>3. ByesAreTrue' /\ NoErrorYet' /\ EndsAll'
    BY DEF ByesAreTrue, NoErrorYet, EndsAll, Parted
  <2>4. DeliveredInOrder' /\ NoErrorAfterBye' /\ AllWereStopped' /\ LimitTellsEveryone'
    BY DEF DeliveredInOrder, NoErrorAfterBye, AllWereStopped, LimitTellsEveryone, Received
  <2> QED BY <2>1, <2>2, <2>3, <2>4
<1> QED BY <1>1, <1>2

LEMMA ConsumeInvMeans == ConsumeInv => ConsumeSafe
<1> SUFFICES ASSUME ConsumeInv PROVE ConsumeSafe
  OBVIOUS
<1>1. NoReaderStuck
  <2> SUFFICES ASSUME outcome # "none", NEW s \in Sessions, reader[s] = "reading" PROVE Readable(s) \/ Broken(s)
    BY DEF NoReaderStuck, Dismissed
  <2>1. ourSide[s] \in {"none", "open", "closed"} /\ ourSide[s] # "open" /\ ourSide[s] # "none"
    BY DEF ConsumeInv, ConsumeTypeOK, EndsAll
  <2> QED BY <2>1 DEF Broken
<1> QED BY <1>1 DEF ConsumeSafe, ConsumeInv

\* RunMany keeps its promises for any number of subscriptions, whatever the order in which its
\* readers run, the buses write, stop and die, and the user interrupts it: each subscription's
\* events come in order and once, an end is reported for what it was, at the limit every
\* bus is told, and no reader is left behind (run_many.go:53-312).
THEOREM ConsumesSafely == ConsumeSpec => []ConsumeSafe
<1>1. ConsumeInit => ConsumeInv
  BY ConsumeStart
<1>2. ConsumeInv /\ [ConsumeNext]_consumeVars => ConsumeInv'
  BY ConsumeStays
<1>3. ConsumeInv => ConsumeSafe
  BY ConsumeInvMeans
<1> QED BY <1>1, <1>2, <1>3, PTL DEF ConsumeSpec
=============================================================================
