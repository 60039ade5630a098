--------------------------- MODULE RuntimeBroker ---------------------------
(***************************************************************************)
(* The in-memory credential broker of the bus (event/runtimecred/broker.go) *)
(* between the hosts that install runtime tokens in it and the one source   *)
(* that resolves a token, sends it and reports it rejected                  *)
(* (event/source/personal.go).                                              *)
(*                                                                          *)
(* A step ends where another goroutine may run: a critical section of the   *)
(* broker, the answer of an HTTP request or of a local OAuth callback.      *)
(***************************************************************************)
EXTENDS Integers, FiniteSets

CONSTANTS
  Hosts,              \* callers that hand a runtime token over
  TokenOf,            \* TokenOf[h]: the token h brings
  LocalTokens,        \* access tokens local OAuth may produce
  NoToken,            \* the empty string
  RequireSeed,        \* Config.RequireSeed
  RequireActivation,  \* Config.RequireActivation
  MaxGen              \* bound of the model: generations

Tokens == {TokenOf[h] : h \in Hosts}

ASSUME BrokerAssumption ==
  /\ NoToken \notin Tokens \cup LocalTokens
  /\ RequireSeed \in BOOLEAN /\ RequireActivation \in BOOLEAN /\ MaxGen \in Nat

VARIABLES
  token, generation, active,  \* Broker.token, .generation, .active
  signals,    \* how many times Broker.changed was closed
  hostAt,     \* per host: what it does next
  known,      \* per host: the generation it last heard of
  at,         \* where the source is
  back,       \* Resolve or RefreshRejected: who waits for `changed`
  noticed,    \* the value of signals when the source took its `changed` channel
  used,       \* the access token in the source's hands
  verdict,    \* why Start returned
  revoked     \* tokens the ticket service answers 401 to

broker == <<token, generation, active, signals>>
hosts  == <<hostAt, known>>
source == <<at, back, noticed, used, verdict>>
bvars  == <<broker, hosts, source, revoked>>

TypeOK ==
  /\ token \in Tokens \cup {NoToken} /\ generation \in Nat /\ active \in BOOLEAN
  /\ signals \in Nat
  /\ hostAt \in [Hosts -> {"ask", "update", "activate", "done", "conflict"}]
  /\ known \in [Hosts -> Nat]
  /\ at \in {"resolve", "wait", "local", "ticket", "refresh", "call", "refreshing",
             "retry", "classify", "stream", "backoff", "returned"}
  /\ back \in {"resolve", "refresh"}
  /\ noticed \in Nat
  /\ used \in Tokens \cup LocalTokens \cup {NoToken}
  /\ verdict \in {"none", "rejected", "failed", "cancelled"}
  /\ revoked \subseteq Tokens \cup LocalTokens
  /\ token = NoToken <=> generation = 0
  /\ at \in {"ticket", "refresh", "retry", "classify", "stream"} => used # NoToken

Init ==
  /\ token = NoToken /\ generation = 0 /\ active = ~RequireActivation /\ signals = 0
  /\ hostAt = [h \in Hosts |-> "ask"] /\ known = [h \in Hosts |-> 0]
  /\ at = "resolve" /\ back = "resolve" /\ noticed = 0
  /\ used = NoToken /\ verdict = "none"
  /\ revoked = {}

\* Mutant of Usable: an active broker is taken for one that has a token.
Usable_ActiveOnly == active

\* The condition under which a snapshot of the broker is answered with its token.
Usable == token # NoToken /\ active

-----------------------------------------------------------------------------
(* The hosts.                                                              *)

\* Generation.
AskGeneration(h) ==
  /\ hostAt[h] = "ask"
  /\ known' = [known EXCEPT ![h] = generation]
  /\ hostAt' = [hostAt EXCEPT ![h] = "update"]
  /\ UNCHANGED <<broker, source, revoked>>

\* Update accepts the token it already holds, whatever generation is expected.
Accepts(h) == token = TokenOf[h] \/ known[h] = generation

\* Update: a compare-and-swap on the generation.
Update(h) ==
  /\ hostAt[h] = "update" /\ Accepts(h)
  /\ IF token = TokenOf[h]
       THEN UNCHANGED broker
       ELSE /\ generation < MaxGen
            /\ token' = TokenOf[h]
            /\ generation' = generation + 1
            /\ signals' = IF active THEN signals + 1 ELSE signals
            /\ active' = active
  /\ known' = [known EXCEPT ![h] = generation']
  /\ hostAt' = [hostAt EXCEPT ![h] = "activate"]
  /\ UNCHANGED <<source, revoked>>

\* GenerationConflictError.
Conflict(h) ==
  /\ hostAt[h] = "update" /\ ~Accepts(h)
  /\ known' = [known EXCEPT ![h] = generation]
  /\ hostAt' = [hostAt EXCEPT ![h] = "conflict"]
  /\ UNCHANGED <<broker, source, revoked>>

\* Mutant of Activates: whatever is pending is published.
Activates_AnyGeneration(h) == TRUE

\* Activate publishes the pending token of the generation the host was told of.
Activates(h) == known[h] = generation

\* Mutant of Activate: waiters are not told.
Activate_Silent(h) ==
  /\ hostAt[h] = "activate" /\ Activates(h)
  /\ active' = TRUE
  /\ hostAt' = [hostAt EXCEPT ![h] = "done"]
  /\ UNCHANGED <<token, generation, signals, known, source, revoked>>

Activate(h) ==
  /\ hostAt[h] = "activate" /\ Activates(h)
  /\ active' = TRUE
  /\ signals' = IF active THEN signals ELSE signals + 1
  /\ hostAt' = [hostAt EXCEPT ![h] = "done"]
  /\ UNCHANGED <<token, generation, known, source, revoked>>

ActivateConflict(h) ==
  /\ hostAt[h] = "activate" /\ ~Activates(h)
  /\ hostAt' = [hostAt EXCEPT ![h] = "conflict"]
  /\ UNCHANGED <<broker, known, source, revoked>>

\* A host comes back later with the same token.
Again(h) ==
  /\ hostAt[h] \in {"done", "conflict"}
  /\ hostAt' = [hostAt EXCEPT ![h] = "ask"]
  /\ UNCHANGED <<broker, known, source, revoked>>

-----------------------------------------------------------------------------
(* The source: Start, runAttempt and fetchTicket.                          *)

Give(t, next) == used' = t /\ at' = next /\ UNCHANGED <<back, noticed, verdict>>
Move(next)    == at' = next /\ UNCHANGED <<back, noticed, used, verdict>>
Return(why)   == at' = "returned" /\ verdict' = why /\ UNCHANGED <<back, noticed, used>>
Others        == UNCHANGED <<broker, hosts, revoked>>

\* No usable token and the local resolver must not be asked: take `changed` and wait.
MustWait == ~Usable /\ (RequireSeed \/ token # NoToken)
WaitFrom(who) ==
  at' = "wait" /\ back' = who /\ noticed' = signals /\ UNCHANGED <<used, verdict>>

\* Resolve, its first snapshot.
Resolve ==
  /\ at = "resolve"
  /\ \/ Usable /\ Give(token, "ticket")
     \/ MustWait /\ WaitFrom("resolve")
     \/ ~Usable /\ ~MustWait /\ Move("local")
  /\ Others

\* `case <-wait: continue`.
Wake ==
  /\ at = "wait" /\ signals > noticed
  /\ Move(back)
  /\ Others

\* Mutant of LocalResolved: the local token is returned without a second snapshot.
LocalResolved_Unchecked(t) == at = "local" /\ Give(t, "ticket") /\ Others

\* localResolve answered; the second snapshot prefers a token installed meanwhile.
LocalResolved(t) ==
  /\ at = "local"
  /\ Give(IF Usable THEN token ELSE t, "ticket")
  /\ Others

\* A ticket request is refused with 401, answered, or failed (retryable or not).
Refused ==
  /\ at \in {"ticket", "retry"} /\ used \in revoked
  /\ Move(IF at = "ticket" THEN "refresh" ELSE "classify")
  /\ Others
Granted ==
  /\ at \in {"ticket", "retry"} /\ used \notin revoked
  /\ Move("stream")
  /\ Others
\* Retryable: network, 408, 429, 5xx, a transient OAuth failure, a lost stream.
Retryable ==
  /\ at \in {"local", "ticket", "refreshing", "retry", "stream"}
  /\ Move("backoff")
  /\ Others
\* Not retryable: any other status, a malformed ticket or frame, a local OAuth failure
\* (Resolve and RefreshRejected return it without a second snapshot).
Fatal ==
  /\ at \in {"local", "ticket", "refreshing", "retry", "stream"}
  /\ Return("failed")
  /\ Others

Backoff == at = "backoff" /\ Move("resolve") /\ Others

\* RefreshRejected, its first snapshot.
RefreshRejected ==
  /\ at = "refresh"
  /\ \/ Usable /\ token # used /\ Give(token, "retry")
     \/ Usable /\ token = used /\ Return("rejected")
     \/ MustWait /\ WaitFrom("refresh")
     \/ ~Usable /\ ~MustWait /\ Move("call")
  /\ Others

\* The call of localRefresh: the mutex has been released since the snapshot.
CallLocalRefresh == at = "call" /\ Move("refreshing") /\ Others

\* localRefresh answered; the second snapshot.
LocalRefreshed(t) ==
  /\ at = "refreshing"
  /\ \/ Usable /\ token # used /\ Give(token, "retry")
     \/ Usable /\ token = used /\ Return("rejected")
     \/ ~Usable /\ Give(t, "retry")
  /\ Others

\* Mutant of Classify: a second 401 blames whatever runtime token is installed.
Classify_BlamesInstalled ==
  /\ at = "classify"
  /\ Return(IF Usable THEN "rejected" ELSE "failed")
  /\ Others

\* ClassifyRejectedAfterRetry: without a runtime token the second 401 stays fatal.
Classify ==
  /\ at = "classify"
  /\ \/ ~Usable /\ Return("failed")
     \/ Usable /\ token # used /\ Move("backoff")
     \/ Usable /\ token = used /\ Return("rejected")
  /\ Others

\* ctx is cancelled: Start returns ctx.Err() from wherever it is.
Cancelled == at # "returned" /\ Return("cancelled") /\ Others

\* The service stops honouring a token.
Revoke(t) ==
  /\ t \notin revoked
  /\ revoked' = revoked \cup {t}
  /\ UNCHANGED <<broker, hosts, source>>

-----------------------------------------------------------------------------
Source ==
  \/ Resolve \/ Wake \/ RefreshRejected \/ CallLocalRefresh \/ Classify \/ Backoff
  \/ \E t \in LocalTokens : LocalResolved(t) \/ LocalRefreshed(t)
  \/ Refused \/ Granted \/ Retryable \/ Fatal

Host(h) ==
  \/ AskGeneration(h) \/ Update(h) \/ Conflict(h)
  \/ Activate(h) \/ ActivateConflict(h) \/ Again(h)

Next ==
  \/ Source \/ Cancelled
  \/ \E h \in Hosts : Host(h)
  \/ \E t \in Tokens \cup LocalTokens : Revoke(t)

Spec == Init /\ [][Next]_bvars

-----------------------------------------------------------------------------
(* Properties.                                                             *)

\* A source that waits for `changed` waits for something that is still to come: no
\* Update or Activate between its snapshot and its select is missed (broker.go:180-194).
NoMissedWake == at = "wait" /\ noticed = signals => ~Usable

\* With it the broker's variables have their types: a generation and a token exist
\* together, and what is sent to the service is a token.
BrokerSafe == TypeOK /\ NoMissedWake

\* The bus ends for a rejected runtime token only while the token the service refused
\* is the installed one: a 401 of an older token never blames a newer one, through the
\* first snapshot, the second one and the retry (broker.go:214-270).
RejectionIsOfCurrent ==
  [][verdict = "none" /\ verdict' = "rejected"
       => Usable /\ used = token /\ used \in revoked]_bvars

\* A host never publishes another host's token: what Activate makes usable is what this
\* host's Update installed, though other hosts update in between (broker.go:157-175).
ActivatesOwnToken ==
  [][\A h \in Hosts :
       ~active /\ active' /\ hostAt[h] # hostAt'[h] => token = TokenOf[h]]_bvars

\* Once a runtime token is usable the source starts no attempt with a local token,
\* however long local OAuth took to produce it (broker.go:200-207).
LocalTokenOnlyUntilInstalled ==
  [][at = "local" /\ at' = "ticket" /\ Usable => used' = token]_bvars

\* A slow resolve, refresh or service never undoes what a host has brought meanwhile.
TokensStayCurrent ==
  RejectionIsOfCurrent /\ ActivatesOwnToken /\ LocalTokenOnlyUntilInstalled
=============================================================================
