---------------------------- MODULE TokenRefresh ----------------------------
(***************************************************************************)
(* The stored login of one profile and everybody who touches it: the       *)
(* ordinary refresh with its double check (auth/oauth_provider.go), the    *)
(* refresh of a token that a server rejected with its single flight        *)
(* (auth/force_refresh.go), login, logout and the marks on the profile,    *)
(* under the dual lock of auth/filelock.go: a lock per process, then a     *)
(* file lock that is given up on after a while.                            *)
(*                                                                         *)
(* The n-th pair of tokens that the server issues is n, access and refresh *)
(* token alike; 0 is none.  A refresh token is good for one refresh.  The  *)
(* login is one of direct mode, where a rejected refresh has no fallback.  *)
(***************************************************************************)
EXTENDS Integers, FiniteSets

CONSTANTS
  Threads, ProcessOf,   \* ProcessOf[t]: the process of thread t
  Unheld,                 \* nobody holds the lock
  Does,                 \* Does[t]: which calls t makes
  Faults,               \* which failures happen
  MaxPair, MaxCalls     \* bounds of the model: pairs issued, calls made

Processes == {ProcessOf[t] : t \in Threads}
Calls     == {"get", "force", "login", "logout", "stale"}

ASSUME TokenAssumption ==
  /\ Unheld \notin Threads
  /\ ProcessOf \in [Threads -> Processes] /\ Does \in [Threads -> SUBSET Calls]
  /\ Faults \subseteq {"network", "lost_answer", "revoked", "preflight", "save", "lock",
                       "cancel", "crash", "expiry"}
  /\ MaxPair \in Nat \ {0} /\ MaxCalls \in Nat

VARIABLES
  store,      \* the keychain slot: the pair, and whether its tokens are still valid
  profile,    \* Profile.Status
  accepted,   \* the refresh tokens the server takes
  issued,     \* how many pairs the server has issued
  dead,       \* history: refresh tokens that died and left no successor in the store
  op, at,     \* per thread: what it is about, and where it is in it
  seen,       \* per thread: the token data it works with
  rejected,   \* per thread: rejectedAccessToken
  used,       \* per thread: the access token it was given last
  processLock, fileLock,
  failures,   \* per process: rejected tokens whose refresh failed a moment ago
  calls

vars == <<store, profile, accepted, issued, dead, op, at, seen, rejected, used,
          processLock, fileLock, failures, calls>>
server == <<accepted, issued>>

Pair(n)   == [pair |-> n, fresh |-> TRUE, refreshable |-> TRUE]
LoggedOut == [pair |-> 0, fresh |-> FALSE, refreshable |-> FALSE]
Locked    == {"in", "ask", "save"}
Inside    == {t \in Threads : at[t] \in Locked}

TypeOK ==
  /\ store \in [pair : 0..MaxPair, fresh : BOOLEAN, refreshable : BOOLEAN]
  /\ store.pair = 0 => store = LoggedOut
  /\ profile \in {"none", "active", "expired"} /\ (profile = "none" <=> store.pair = 0)
  /\ accepted \subseteq 1..issued /\ dead \subseteq 1..issued /\ issued \in 0..MaxPair
  /\ op \in [Threads -> Calls \cup {"refresh", "mark", "stale_save"}]
  /\ at \in [Threads -> Locked \cup {"idle", "process", "file", "follow"}]
  /\ rejected \in [Threads -> 0..MaxPair] /\ used \in [Threads -> 0..MaxPair]
  /\ Inside = {t \in Threads : fileLock = t}
  /\ \A t \in Threads : at[t] \in Locked \cup {"file"} <=> processLock[ProcessOf[t]] = t
  /\ \A p \in Processes : failures[p] \subseteq 1..MaxPair

Init ==
  /\ store = Pair(1) /\ profile = "active" /\ accepted = {1} /\ issued = 1 /\ dead = {}
  /\ op = [t \in Threads |-> "get"] /\ at = [t \in Threads |-> "idle"]
  /\ seen = [t \in Threads |-> LoggedOut]
  /\ rejected = [t \in Threads |-> 0] /\ used = [t \in Threads |-> 0]
  /\ processLock = [p \in Processes |-> Unheld] /\ fileLock = Unheld
  /\ failures = [p \in Processes |-> {}] /\ calls = 0

-----------------------------------------------------------------------------
(* The dual lock.                                                          *)

\* acquireProcessLock.
TakeProcess(t) ==
  /\ at[t] = "process" /\ processLock[ProcessOf[t]] = Unheld
  /\ processLock' = [processLock EXCEPT ![ProcessOf[t]] = t]
  /\ at' = [at EXCEPT ![t] = "file"]
  /\ UNCHANGED <<store, profile, server, dead, op, seen, rejected, used, fileLock, failures, calls>>

\* Mutant of TakeFile: the file lock of another process is not in the way.
TakeFile_Shared(t) ==
  /\ at[t] = "file"
  /\ fileLock' = t
  /\ at' = [at EXCEPT ![t] = "in"]
  /\ UNCHANGED <<store, profile, server, dead, op, seen, rejected, used, processLock, failures, calls>>

\* acquireTokenLock.
TakeFile(t) ==
  /\ at[t] = "file" /\ fileLock = Unheld
  /\ fileLock' = t
  /\ at' = [at EXCEPT ![t] = "in"]
  /\ UNCHANGED <<store, profile, server, dead, op, seen, rejected, used, processLock, failures, calls>>

\* DualLock.Release.
Release(t) ==
  /\ fileLock' = IF fileLock = t THEN Unheld ELSE fileLock
  /\ processLock' = [p \in Processes |-> IF processLock[p] = t THEN Unheld ELSE processLock[p]]

-----------------------------------------------------------------------------
(* How calls end.                                                          *)

\* Mutant of Followers: the leader ends without an answer for the others.
Followers_Forgotten(t) == {}

\* Those who wait for the single flight that t leads.
Followers(t) ==
  {u \in Threads : /\ at[u] = "follow" /\ op[t] = "force"
                   /\ ProcessOf[u] = ProcessOf[t] /\ rejected[u] = rejected[t]}

\* t, and who shares its answer, returns token n, or an error if n is 0.
Return(t, n) ==
  LET us == {t} \cup Followers(t)
  IN /\ at' = [u \in Threads |-> IF u \in us THEN "idle" ELSE at[u]]
     /\ used' = [u \in Threads |-> IF u \in us /\ n # 0 THEN n ELSE used[u]]
     /\ seen' = [u \in Threads |-> IF u \in us THEN LoggedOut ELSE seen[u]]
     /\ rejected' = [u \in Threads |-> IF u \in us THEN 0 ELSE rejected[u]]
     /\ op' = [u \in Threads |-> IF u \in us THEN "get" ELSE op[u]]
     /\ Release(t)

\* t goes on to something else that needs the lock.
Continue(t, what, data) ==
  /\ op' = [op EXCEPT ![t] = what] /\ at' = [at EXCEPT ![t] = "process"]
  /\ seen' = [seen EXCEPT ![t] = data]
  /\ UNCHANGED <<rejected, used>>
  /\ Release(t)

\* ClassifyRefreshFailure.
Transient == {"network", "lost_answer", "cancel"}

\* finishRejectedTokenRefresh, for the failures that recordFailure is true for.
Remembered(t, why) ==
  failures' = [failures EXCEPT ![ProcessOf[t]] =
    IF op[t] = "force" /\ why \notin {"lock", "not_found", "cancel"} THEN @ \cup {rejected[t]} ELSE @]

\* A refresh fails: an ordinary one marks the profile unless it may be tried again.
Fail(t, why) ==
  /\ Remembered(t, why)
  /\ IF op[t] = "refresh" /\ why \notin Transient THEN Continue(t, "mark", LoggedOut)
                                                  ELSE Return(t, 0)

FileTimeout(t) ==
  /\ at[t] = "file" /\ fileLock # Unheld /\ "lock" \in Faults
  /\ IF op[t] \in {"refresh", "force"} THEN Fail(t, "lock")
                                       ELSE Return(t, 0) /\ UNCHANGED failures
  /\ UNCHANGED <<store, profile, server, dead, calls>>

\* Only these two wait for the process lock with their caller's context.
Cancel(t) ==
  /\ at[t] = "process" /\ op[t] \in {"refresh", "force"} /\ "cancel" \in Faults
  /\ Fail(t, "cancel")
  /\ UNCHANGED <<store, profile, server, dead, calls>>

CancelFollower(t) ==
  /\ at[t] = "follow" /\ "cancel" \in Faults
  /\ at' = [at EXCEPT ![t] = "idle"]
  /\ rejected' = [rejected EXCEPT ![t] = 0] /\ op' = [op EXCEPT ![t] = "get"]
  /\ UNCHANGED <<store, profile, server, dead, seen, used, processLock, fileLock, failures, calls>>

-----------------------------------------------------------------------------
(* Calls.                                                                  *)

Begin(t, what) ==
  /\ at[t] = "idle" /\ what \in Does[t] /\ calls < MaxCalls
  /\ calls' = calls + 1
  /\ op' = [op EXCEPT ![t] = what]

\* GetTokenSnapshot, Logout and MarkAccessTokenStale begin with the lock.
Call(t, what) ==
  /\ Begin(t, what)
  /\ at' = [at EXCEPT ![t] = "process"]
  /\ UNCHANGED <<store, profile, server, dead, seen, rejected, used, processLock, fileLock, failures>>

\* The authorization is over: the server has issued a pair, to be saved.
Login(t) ==
  /\ Begin(t, "login") /\ issued < MaxPair
  /\ issued' = issued + 1 /\ accepted' = accepted \cup {issued'}
  /\ seen' = [seen EXCEPT ![t] = Pair(issued')]
  /\ at' = [at EXCEPT ![t] = "process"]
  /\ UNCHANGED <<store, profile, dead, rejected, used, processLock, fileLock, failures>>

\* beginRejectedTokenRefresh.
InFlight(t) ==
  \E u \in Threads : /\ op[u] = "force" /\ at[u] \notin {"idle", "follow"}
                     /\ ProcessOf[u] = ProcessOf[t] /\ rejected[u] = used[t]

\* ForceRefreshRejectedToken: the first one in a process leads, the others follow.
ForceRefresh(t) ==
  /\ Begin(t, "force") /\ used[t] # 0
  /\ rejected' = [rejected EXCEPT ![t] = used[t]]
  /\ at' = [at EXCEPT ![t] = IF InFlight(t) THEN "follow" ELSE "process"]
  /\ UNCHANGED <<store, profile, server, dead, seen, used, processLock, fileLock, failures>>

\* GetTokenSnapshot has loaded the token.
Load(t) ==
  /\ at[t] = "in" /\ op[t] = "get"
  /\ CASE store.pair = 0 \/ store.fresh -> Return(t, store.pair)
       [] store.pair # 0 /\ ~store.fresh /\ store.refreshable -> Continue(t, "refresh", LoggedOut)
       [] OTHER -> Continue(t, "mark", LoggedOut)
  /\ UNCHANGED <<store, profile, server, dead, failures, calls>>

\* The refresh token is valid and its successor can be stored: ask with what is stored now.
Asks(t) ==
  /\ store.refreshable
  /\ at' = [at EXCEPT ![t] = "ask"] /\ seen' = [seen EXCEPT ![t] = store]
  /\ UNCHANGED <<op, rejected, used, processLock, fileLock, failures>>
CannotAsk(t) ==
  /\ ~store.refreshable \/ "preflight" \in Faults
  /\ Fail(t, "local")

\* lockedRefresh, after its double check.
Recheck(t) ==
  /\ at[t] = "in" /\ op[t] = "refresh"
  /\ \/ store.pair = 0 /\ Fail(t, "not_found")
     \/ store.fresh /\ Return(t, store.pair) /\ UNCHANGED failures
     \/ store.pair # 0 /\ ~store.fresh /\ (Asks(t) \/ CannotAsk(t))
  /\ UNCHANGED <<store, profile, server, dead, calls>>

\* Mutant of Compare: whatever is stored is refreshed.
Compare_Not(t) ==
  /\ at[t] = "in" /\ op[t] = "force"
  /\ \/ store.pair = 0 /\ Fail(t, "not_found")
     \/ store.pair # 0 /\ (Asks(t) \/ CannotAsk(t))
  /\ UNCHANGED <<store, profile, server, dead, calls>>

\* forceRefreshRejectedTokenOnce: only the token that is still stored is refreshed.
Compare(t) ==
  /\ at[t] = "in" /\ op[t] = "force"
  /\ \/ store.pair = 0 /\ Fail(t, "not_found")
     \/ /\ store.pair \notin {0, rejected[t]} /\ Return(t, store.pair)
        /\ failures' = [failures EXCEPT ![ProcessOf[t]] = @ \ {rejected[t]}]
     \/ /\ store.pair = rejected[t] /\ store.pair \in failures[ProcessOf[t]]
        /\ Return(t, 0) /\ UNCHANGED failures
     \/ /\ store.pair = rejected[t] /\ store.pair \notin failures[ProcessOf[t]]
        /\ (Asks(t) \/ CannotAsk(t))
  /\ UNCHANGED <<store, profile, server, dead, calls>>

-----------------------------------------------------------------------------
(* The refresh.                                                            *)

\* The server takes the refresh token and issues the next pair.
Answered(t) ==
  /\ at[t] = "ask" /\ seen[t].pair \in accepted /\ issued < MaxPair
  /\ issued' = issued + 1
  /\ accepted' = (accepted \ {seen[t].pair}) \cup {issued'}

Refreshed(t) ==
  /\ Answered(t)
  /\ seen' = [seen EXCEPT ![t] = Pair(issued')] /\ at' = [at EXCEPT ![t] = "save"]
  /\ UNCHANGED <<store, profile, dead, op, rejected, used, processLock, fileLock, failures, calls>>

\* The answer is lost on its way.
AnswerLost(t) ==
  /\ "lost_answer" \in Faults /\ Answered(t)
  /\ dead' = dead \cup {seen[t].pair}
  /\ Fail(t, "lost_answer")
  /\ UNCHANGED <<store, profile, calls>>

\* The server cannot be reached, or it refuses the token.
Unanswered(t) ==
  /\ at[t] = "ask"
  /\ \/ "network" \in Faults /\ Fail(t, "network")
     \/ "cancel" \in Faults /\ Fail(t, "cancel")
     \/ seen[t].pair \notin accepted /\ Fail(t, "rejected")
  /\ UNCHANGED <<store, profile, server, dead, calls>>

Save(t) ==
  /\ at[t] = "save"
  /\ store' = seen[t] /\ profile' = "active"
  /\ failures' = IF op[t] = "force" THEN [failures EXCEPT ![ProcessOf[t]] = @ \ {rejected[t]}]
                                    ELSE failures
  /\ Return(t, seen[t].pair)
  /\ UNCHANGED <<server, dead, calls>>

\* Every slot is restored; the token that is back in the store has been used up.
SaveFails(t) ==
  /\ at[t] = "save" /\ "save" \in Faults
  /\ dead' = dead \cup {store.pair}
  /\ Fail(t, "local")
  /\ UNCHANGED <<store, profile, server, calls>>

-----------------------------------------------------------------------------
(* The other writers.                                                      *)

SaveLogin(t) ==
  /\ at[t] = "in" /\ op[t] = "login"
  /\ store' = seen[t] /\ profile' = "active"
  /\ Return(t, seen[t].pair)
  /\ UNCHANGED <<server, dead, failures, calls>>

Logout(t) ==
  /\ at[t] = "in" /\ op[t] = "logout"
  /\ store' = LoggedOut /\ profile' = "none"
  /\ Return(t, 0)
  /\ UNCHANGED <<server, dead, failures, calls>>

\* MarkProfileStatus.
Mark(t) ==
  /\ at[t] = "in" /\ op[t] = "mark"
  /\ profile' = IF profile = "none" THEN "none" ELSE "expired"
  /\ Return(t, 0)
  /\ UNCHANGED <<store, server, dead, failures, calls>>

\* MarkAccessTokenStale loads and saves, each under the lock.
StaleLoad(t) ==
  /\ at[t] = "in" /\ op[t] = "stale"
  /\ IF store.pair = 0 THEN Return(t, 0) ELSE Continue(t, "stale_save", store)
  /\ UNCHANGED <<store, profile, server, dead, failures, calls>>

StaleSave(t) ==
  /\ at[t] = "in" /\ op[t] = "stale_save"
  /\ store' = [seen[t] EXCEPT !.fresh = FALSE] /\ profile' = "active"
  /\ Return(t, 0)
  /\ UNCHANGED <<server, dead, failures, calls>>

-----------------------------------------------------------------------------
(* The world.                                                              *)

\* Tokens expire by the local clock.
Expire ==
  /\ store.pair # 0
  /\ \/ store.fresh /\ store' = [store EXCEPT !.fresh = FALSE]
     \/ store.refreshable /\ "expiry" \in Faults /\ store' = [store EXCEPT !.refreshable = FALSE]
  /\ UNCHANGED <<profile, server, dead, op, at, seen, rejected, used, processLock, fileLock, failures, calls>>

Revoke(n) ==
  /\ "revoked" \in Faults /\ n \in accepted
  /\ accepted' = accepted \ {n} /\ dead' = dead \cup {n}
  /\ UNCHANGED <<store, profile, issued, op, at, seen, rejected, used, processLock, fileLock, failures, calls>>

\* rejectedTokenRefreshFailureCooldown is over.
CoolDown(p) ==
  /\ \E n \in failures[p] : failures' = [failures EXCEPT ![p] = @ \ {n}]
  /\ UNCHANGED <<store, profile, server, dead, op, at, seen, rejected, used, processLock, fileLock, calls>>

\* A process dies: its file lock is free, and a pair it had not saved is lost.
Crash(p) ==
  LET mine == {t \in Threads : ProcessOf[t] = p}
  IN /\ "crash" \in Faults /\ \E t \in mine : at[t] # "idle"
     /\ at' = [t \in Threads |-> IF t \in mine THEN "idle" ELSE at[t]]
     /\ op' = [t \in Threads |-> IF t \in mine THEN "get" ELSE op[t]]
     /\ seen' = [t \in Threads |-> IF t \in mine THEN LoggedOut ELSE seen[t]]
     /\ rejected' = [t \in Threads |-> IF t \in mine THEN 0 ELSE rejected[t]]
     /\ used' = [t \in Threads |-> IF t \in mine THEN 0 ELSE used[t]]
     /\ failures' = [failures EXCEPT ![p] = {}]
     /\ processLock' = [processLock EXCEPT ![p] = Unheld]
     /\ fileLock' = IF fileLock \in mine THEN Unheld ELSE fileLock
     /\ dead' = IF \E t \in mine : at[t] = "save" THEN dead \cup {store.pair} ELSE dead
     /\ UNCHANGED <<store, profile, server, calls>>

Step(t) ==
  \/ TakeProcess(t) \/ TakeFile(t) \/ Load(t) \/ Recheck(t) \/ Compare(t)
  \/ Refreshed(t) \/ AnswerLost(t) \/ Unanswered(t) \/ Save(t) \/ SaveFails(t)
  \/ SaveLogin(t) \/ Logout(t) \/ Mark(t) \/ StaleLoad(t) \/ StaleSave(t)

Arrive(t) ==
  Call(t, "get") \/ Call(t, "logout") \/ Call(t, "stale") \/ Login(t) \/ ForceRefresh(t)

Next ==
  \/ \E t \in Threads :
       Step(t) \/ Arrive(t) \/ FileTimeout(t) \/ Cancel(t) \/ CancelFollower(t)
  \/ Expire \/ (\E n \in accepted : Revoke(n))
  \/ \E p \in Processes : CoolDown(p) \/ Crash(p)

Spec == Init /\ [][Next]_vars

\* Threads are scheduled; requests are answered or time out.
FairSpec == Spec /\ \A t \in Threads : WF_vars(Step(t))

-----------------------------------------------------------------------------
(* Properties.                                                             *)

\* The server never sees a refresh token again that it has exchanged, unless it was revoked
\* or the answer or the save was lost: nobody goes by a token that somebody else has
\* refreshed since, in whatever order processes refresh, fail, die, log in and out
\* (oauth_provider.go:889-924, force_refresh.go:124-159).
RefreshTokenUsedOnce ==
  \A t \in Threads : at[t] = "ask" => seen[t].pair \in accepted \cup dead

\* Only a login puts a token where there was none, or an older one in the place of a newer
\* one: no refresh undoes a logout or a login (oauth_provider.go:906, token.go:738-754).
OnlyLoginGoesBack ==
  [][store'.pair \notin {0, store.pair} =>
       \/ store.pair # 0 /\ store'.pair > store.pair
       \/ \E t \in Threads : op[t] = "login" /\ at[t] = "in"]_vars

\* "a late rejection cannot invalidate or refresh over a token another caller has already
\* rotated" (force_refresh.go:86-90): while the answer is awaited and saved the stored token
\* is still the rejected one.
LateRejectionIsHarmless ==
  \A t \in Threads : op[t] = "force" /\ at[t] \in {"ask", "save"} => store.pair = rejected[t]

\* Refreshes are serial: no refresh token is sent twice, and no rejection is acted upon when
\* its token is not the stored one any more (force_refresh.go:86-90).
RefreshIsSerial == TypeOK /\ RefreshTokenUsedOnce /\ LateRejectionIsHarmless

\* Every call returns, followers of a failed or cancelled leader included
\* (force_refresh.go:108-121, filelock.go:156-189).
CallsReturn == \A t \in Threads : at[t] # "idle" ~> at[t] = "idle"
=============================================================================
