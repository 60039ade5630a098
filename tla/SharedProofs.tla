---------------------------- MODULE SharedProofs ---------------------------
(***************************************************************************)
(* What commands of one user share on disk.                                *)
(*                                                                         *)
(* The stored login for every set of threads, processes, calls and faults: *)
(* no refresh token is sent twice, a late rejection is harmless, and only  *)
(* a login goes back, as long as nobody marks a stored token stale.        *)
(*                                                                         *)
(* The store of subscription attempts, for any number of commands, any     *)
(* plans, leases and backoffs.  The hard part is the count of failures: a  *)
(* claim takes away the record it replaces and puts it back when it ends,  *)
(* also long after its lease has run out, and then possibly over what a    *)
(* later claim has seen.  So what is invariant is said of a chain: the     *)
(* file, and the claims through whose end its records can come back.       *)
(***************************************************************************)
EXTENDS TokenRefresh, AttemptStore, TLAPS

\* MarkAccessTokenStale loads and saves under separate locks (force_refresh.go:71-94) and
\* has no caller but tests: what follows is about the calls that are made.
NobodyMarksStale == \A t \in Threads : "stale" \notin Does[t]

Data == [pair : 0..MaxPair, fresh : BOOLEAN, refreshable : BOOLEAN]
Ops  == {"get", "force", "login", "logout", "refresh", "mark"}
Ats  == Locked \cup {"idle", "process", "file", "follow"}

ThreadTypes ==
  /\ op \in [Threads -> Ops] /\ at \in [Threads -> Ats] /\ seen \in [Threads -> Data]
  /\ rejected \in [Threads -> 0..MaxPair] /\ used \in [Threads -> 0..MaxPair]

TokenTypes ==
  /\ store \in Data /\ (store.pair = 0 => store = LoggedOut)
  /\ profile \in {"none", "active", "expired"} /\ (profile = "none" <=> store.pair = 0)
  /\ issued \in 0..MaxPair /\ accepted \subseteq 1..issued /\ dead \subseteq 1..issued
  /\ ThreadTypes
  /\ \A t \in Threads : op[t] = "force" => rejected[t] # 0
  /\ failures \in [Processes -> SUBSET (1..MaxPair)]

\* Who is inside holds the file lock, and the lock of its process since it asked for it.
LockInv ==
  /\ fileLock \in Threads \cup {Unheld}
  /\ processLock \in [Processes -> Threads \cup {Unheld}]
  /\ \A t \in Threads : at[t] \in Locked <=> fileLock = t
  /\ \A t \in Threads : at[t] \in Locked \cup {"file"} <=> processLock[ProcessOf[t]] = t
  /\ \A p \in Processes : processLock[p] # Unheld => ProcessOf[processLock[p]] = p

\* A thread that carries a pair that is not in the store yet.
Hand(t) == (op[t] = "login" /\ at[t] \in {"process", "file", "in"}) \/ at[t] = "save"

\* What is asked with is what is stored, and what is to be saved is newer.
AskInv ==
  \A t \in Threads : /\ at[t] = "ask" => seen[t].pair = store.pair /\ store.pair # 0
                     /\ at[t] = "save" => store.pair # 0 /\ store.pair < seen[t].pair

\* Each pair is in one hand or in the store, and the server knows it or it died.
HandInv ==
  /\ \A t \in Threads : Hand(t) => /\ seen[t].pair \in accepted \cup dead
                                   /\ seen[t].pair # store.pair
  /\ \A t, u \in Threads : Hand(t) /\ Hand(u) /\ t # u => seen[t].pair # seen[u].pair

\* The stored token is good for a refresh, or has died, except in the middle of its refresh.
StoredIsGood ==
  /\ store.pair <= issued
  /\ store.pair # 0 /\ (\A t \in Threads : at[t] # "save") => store.pair \in accepted \cup dead

DataInv == AskInv /\ HandInv /\ StoredIsGood /\ LateRejectionIsHarmless

TokenInv == TokenTypes /\ LockInv /\ DataInv

-----------------------------------------------------------------------------
USE TokenAssumption

LEMMA LockedDef == Locked = {"in", "ask", "save"}
BY DEF Locked

\* A thread that a step of another one leaves alone, one that is sent away.
Same(u) ==
  /\ at'[u] = at[u] /\ op'[u] = op[u] /\ seen'[u] = seen[u]
  /\ rejected'[u] = rejected[u] /\ used'[u] = used[u]
Idled(u) == at'[u] = "idle" /\ op'[u] = "get"

\* A call has ended, or begins again with something else; who followed it is sent away.
Gone(t) ==
  /\ Release(t) /\ ThreadTypes'
  /\ \/ at'[t] = "idle" /\ op'[t] = "get"
     \/ at'[t] = "process" /\ op'[t] \in {"refresh", "mark"}
  /\ \A u \in Threads \ {t} : Same(u) \/ (at[u] = "follow" /\ Idled(u))

LEMMA ReturnIsGone ==
  ASSUME TokenTypes, NEW t \in Threads, NEW n \in 0..MaxPair, Return(t, n)
  PROVE  Gone(t)
<1> DEFINE us == {t} \cup Followers(t)
<1>1. \A u \in us : u = t \/ at[u] = "follow"
  BY DEF Followers
<1>2. us \subseteq Threads /\ t \in us
  BY DEF Followers
<1>3. LoggedOut \in Data /\ 0 \in 0..MaxPair /\ "idle" \in Ats /\ "get" \in Ops
  BY DEF LoggedOut, Data, Ats, Ops
<1>4. /\ at' = [u \in Threads |-> IF u \in us THEN "idle" ELSE at[u]]
      /\ used' = [u \in Threads |-> IF u \in us /\ n # 0 THEN n ELSE used[u]]
      /\ seen' = [u \in Threads |-> IF u \in us THEN LoggedOut ELSE seen[u]]
      /\ rejected' = [u \in Threads |-> IF u \in us THEN 0 ELSE rejected[u]]
      /\ op' = [u \in Threads |-> IF u \in us THEN "get" ELSE op[u]]
      /\ Release(t)
  BY DEF Return
<1> HIDE DEF us
<1>5. ThreadTypes'
  BY <1>3, <1>4 DEF TokenTypes, ThreadTypes
<1>6. \A u \in Threads \ {t} : Same(u) \/ (at[u] = "follow" /\ Idled(u))
  BY <1>1, <1>4 DEF Same, Idled
<1> QED BY <1>2, <1>4, <1>5, <1>6 DEF Gone

LEMMA ContinueIsGone ==
  ASSUME TokenTypes, NEW t \in Threads, NEW what \in {"refresh", "mark"},
         Continue(t, what, LoggedOut)
  PROVE  Gone(t)
<1>1. LoggedOut \in Data /\ "process" \in Ats /\ what \in Ops
  BY DEF LoggedOut, Data, Ats, Ops
<1>2. ThreadTypes'
  BY <1>1 DEF Continue, TokenTypes, ThreadTypes
<1>3. \A u \in Threads \ {t} : Same(u)
  BY DEF Continue, Same, TokenTypes, ThreadTypes
<1>4. at'[t] = "process" /\ op'[t] = what
  BY DEF Continue, TokenTypes, ThreadTypes
<1> QED BY <1>2, <1>3, <1>4 DEF Gone, Continue

\* A failure is remembered for a rejected token, and the thread is gone.
LEMMA FailIsGone ==
  ASSUME TokenTypes, NEW t \in Threads, NEW why, Fail(t, why)
  PROVE  Gone(t) /\ failures' \in [Processes -> SUBSET (1..MaxPair)]
<1>1. Gone(t)
  BY ReturnIsGone, ContinueIsGone DEF Fail
<1>2. failures' \in [Processes -> SUBSET (1..MaxPair)]
  <2>1. op[t] = "force" => rejected[t] \in 1..MaxPair
    BY DEF TokenTypes, ThreadTypes
  <2>2. ProcessOf[t] \in Processes
    BY DEF Processes
  <2> QED BY <2>1, <2>2 DEF Fail, Remembered, TokenTypes
<1> QED BY <1>1, <1>2

\* Whoever is gone holds no lock.
LEMMA GoneUnlocks ==
  ASSUME TokenTypes, LockInv, NEW t \in Threads, Gone(t)
  PROVE  LockInv'
<1> USE DEF LockInv, Gone, Release, Same, Idled, Locked
<1>0. \A u \in Threads : ProcessOf[u] \in Processes
  BY DEF Processes
<1>1. fileLock' \in Threads \cup {Unheld} /\ processLock' \in [Processes -> Threads \cup {Unheld}]
  OBVIOUS
<1>2. \A u \in Threads : at'[u] \in Locked <=> fileLock' = u
  OBVIOUS
<1>3. \A u \in Threads : at'[u] \in Locked \cup {"file"} <=> processLock'[ProcessOf[u]] = u
  BY <1>0
<1>4. \A p \in Processes : processLock'[p] # Unheld => ProcessOf[processLock'[p]] = p
  OBVIOUS
<1> QED BY <1>1, <1>2, <1>3, <1>4

-----------------------------------------------------------------------------
\* What a thread carries or asks with it had before the step.
KeepsData(u) ==
  /\ Hand(u)' => Hand(u) /\ seen'[u] = seen[u]
  /\ at'[u] \in {"ask", "save"} => /\ at'[u] = at[u] /\ op'[u] = op[u]
                                   /\ seen'[u] = seen[u] /\ rejected'[u] = rejected[u]

LEMMA GoneKeeps ==
  ASSUME NEW t \in Threads, Gone(t)
  PROVE  \A u \in Threads : KeepsData(u)
BY DEF Gone, KeepsData, Hand, Same, Idled

\* The store keeps its pair, no token vanishes, and the one whose refresh is broken off dies.
LEMMA DataFrame ==
  ASSUME TokenTypes, DataInv, \A u \in Threads : KeepsData(u),
         store'.pair = store.pair, issued <= issued', issued' \in Nat,
         accepted \cup dead \subseteq accepted' \cup dead',
         (\E t \in Threads : at[t] = "save") /\ (\A t \in Threads : at'[t] # "save")
           => store.pair \in accepted' \cup dead'
  PROVE  DataInv'
<1> USE DEF DataInv, KeepsData
<1>1. AskInv'
  BY DEF AskInv
<1>2. HandInv'
  BY DEF HandInv, Hand
<1>3. StoredIsGood'
  <2>1. store.pair \in Nat /\ issued \in Nat /\ store.pair <= issued
    BY DEF TokenTypes, Data, StoredIsGood
  <2>2. store'.pair <= issued'
    BY <2>1
  <2>3. store.pair # 0 /\ (\A t \in Threads : at'[t] # "save")
          => store.pair \in accepted' \cup dead'
    BY DEF StoredIsGood
  <2> QED BY <2>2, <2>3 DEF StoredIsGood
<1>4. LateRejectionIsHarmless'
  BY DEF LateRejectionIsHarmless
<1> QED BY <1>1, <1>2, <1>3, <1>4

-----------------------------------------------------------------------------
\* A call ends with the stored pair as it was.
LEMMA CallEnds ==
  ASSUME TokenInv, NEW t \in Threads, Gone(t), store' = store,
         profile' \in {"none", "active", "expired"}, profile' = "none" <=> profile = "none",
         issued' \in 0..MaxPair, issued <= issued',
         accepted' \subseteq 1..issued', dead' \subseteq 1..issued',
         accepted \cup dead \subseteq accepted' \cup dead',
         at[t] = "save" => store.pair \in accepted' \cup dead',
         failures' \in [Processes -> SUBSET (1..MaxPair)]
  PROVE  TokenInv'
<1> USE DEF TokenInv
<1>1. LockInv'
  BY GoneUnlocks
<1>2. \A u \in Threads : op'[u] = "force" => rejected'[u] # 0
  BY DEF Gone, Same, Idled, TokenTypes
<1>3. TokenTypes'
  BY <1>2 DEF Gone, TokenTypes
<1>4. (\E u \in Threads : at[u] = "save") /\ (\A u \in Threads : at'[u] # "save")
        => store.pair \in accepted' \cup dead'
  BY DEF Gone, Same
<1>5. DataInv'
  BY <1>4, GoneKeeps, DataFrame
<1> QED BY <1>1, <1>3, <1>5

\* A call ends that changed nothing but, perhaps, what is remembered of failures.
LEMMA CallFails ==
  ASSUME TokenInv, NEW t \in Threads, Gone(t), at[t] # "save",
         UNCHANGED <<store, profile, server, dead>>,
         failures' \in [Processes -> SUBSET (1..MaxPair)]
  PROVE  TokenInv'
<1>1. issued \in 0..MaxPair /\ issued <= issued
  BY DEF TokenInv, TokenTypes
<1> QED BY <1>1, CallEnds DEF server, TokenInv, TokenTypes

\* A thread goes on, and touches nothing that others read.
LEMMA GoesOn ==
  ASSUME TokenInv, NEW t \in Threads, ThreadTypes', LockInv', KeepsData(t),
         \A u \in Threads \ {t} : Same(u), at[t] # "save",
         op'[t] = "force" => rejected'[t] # 0,
         UNCHANGED <<store, profile, server, dead, failures>>
  PROVE  TokenInv'
<1> USE DEF TokenInv, server
<1>1. TokenTypes'
  BY DEF Same, TokenTypes
<1>2. \A u \in Threads : KeepsData(u)
  BY DEF Same, KeepsData, Hand
<1>3. (\E u \in Threads : at[u] = "save") => (\E u \in Threads : at'[u] = "save")
  BY DEF Same
<1>4. issued \in Nat /\ issued <= issued
  BY DEF TokenTypes
<1>5. DataInv'
  BY <1>2, <1>3, <1>4, DataFrame
<1> QED BY <1>1, <1>5

LEMMA TakeProcessStep ==
  ASSUME TokenInv, NEW t \in Threads, TakeProcess(t)
  PROVE  TokenInv'
<1> USE DEF TokenInv, TakeProcess
<1>1. ThreadTypes' /\ \A u \in Threads \ {t} : Same(u)
  BY DEF TokenTypes, ThreadTypes, Ats, Same
<1>2. ProcessOf[t] \in Processes /\ at'[t] = "file"
  BY DEF Processes, TokenTypes, ThreadTypes
<1>3. LockInv'
  <2> USE DEF LockInv, Locked
  <2>1. \A u \in Threads : at'[u] \in Locked <=> fileLock' = u
    BY <1>1, <1>2 DEF Same
  <2>2. processLock' \in [Processes -> Threads \cup {Unheld}]
    OBVIOUS
  <2>3. \A u \in Threads : at'[u] \in Locked \cup {"file"} <=> processLock'[ProcessOf[u]] = u
    <3> SUFFICES ASSUME NEW u \in Threads
                 PROVE  at'[u] \in Locked \cup {"file"} <=> processLock'[ProcessOf[u]] = u
      OBVIOUS
    <3>0. ProcessOf[u] \in Processes
      BY DEF Processes
    <3>1. CASE u = t
      BY <1>2, <3>1
    <3>2. CASE u # t /\ ProcessOf[u] = ProcessOf[t]
      BY <1>1, <1>2, <3>2 DEF Same
    <3>3. CASE ProcessOf[u] # ProcessOf[t]
      BY <1>1, <3>0, <3>3 DEF Same
    <3> QED BY <3>1, <3>2, <3>3
  <2>4. \A p \in Processes : processLock'[p] # Unheld => ProcessOf[processLock'[p]] = p
    BY <1>2
  <2> QED BY <2>1, <2>2, <2>3, <2>4
<1>4. KeepsData(t) /\ (op'[t] = "force" => rejected'[t] # 0)
  BY <1>2 DEF KeepsData, Hand, TokenTypes
<1> QED BY <1>1, <1>3, <1>4, GoesOn

LEMMA TakeFileStep ==
  ASSUME TokenInv, NEW t \in Threads, TakeFile(t)
  PROVE  TokenInv'
<1> USE DEF TokenInv, TakeFile
<1>1. ThreadTypes' /\ \A u \in Threads \ {t} : Same(u)
  BY DEF TokenTypes, ThreadTypes, Ats, Locked, Same
<1>2. at'[t] = "in"
  BY DEF TokenTypes, ThreadTypes
<1>3. LockInv'
  BY <1>1, <1>2 DEF LockInv, Locked, Same
<1>4. KeepsData(t) /\ (op'[t] = "force" => rejected'[t] # 0)
  BY <1>2 DEF KeepsData, Hand, TokenTypes
<1> QED BY <1>1, <1>3, <1>4, GoesOn

\* A thread without a lock starts or ends to wait for one.
LEMMA WaitsOutside ==
  ASSUME TokenInv, NEW t \in Threads, at[t] \in {"idle", "follow"},
         ThreadTypes', \A u \in Threads \ {t} : Same(u),
         at'[t] \in {"idle", "follow", "process"}, UNCHANGED <<processLock, fileLock>>
  PROVE  LockInv'
BY DEF TokenInv, LockInv, Locked, Same

LEMMA ArriveStep ==
  ASSUME NobodyMarksStale, TokenInv, NEW t \in Threads, Arrive(t)
  PROVE  TokenInv'
<1> USE DEF TokenInv, Begin
<1>1. ASSUME NEW what \in {"get", "logout", "stale"}, Call(t, what) PROVE TokenInv'
  <2>0. what \in {"get", "logout"}
    BY <1>1 DEF Call, NobodyMarksStale
  <2>1. ThreadTypes' /\ \A u \in Threads \ {t} : Same(u)
    BY <1>1, <2>0 DEF Call, TokenTypes, ThreadTypes, Ats, Ops, Same
  <2>2. at[t] = "idle" /\ at'[t] = "process" /\ op'[t] = what
    BY <1>1 DEF Call, TokenTypes, ThreadTypes
  <2>3. LockInv'
    BY <1>1, <2>1, <2>2, WaitsOutside DEF Call
  <2>4. KeepsData(t)
    BY <2>0, <2>2 DEF KeepsData, Hand
  <2> QED BY <1>1, <2>0, <2>1, <2>2, <2>3, <2>4, GoesOn DEF Call
<1>2. CASE ForceRefresh(t)
  <2>1. ThreadTypes' /\ \A u \in Threads \ {t} : Same(u)
    BY <1>2 DEF ForceRefresh, TokenTypes, ThreadTypes, Ats, Ops, Same
  <2>2. /\ at[t] = "idle" /\ at'[t] \in {"follow", "process"} /\ op'[t] = "force"
        /\ rejected'[t] # 0
    BY <1>2 DEF ForceRefresh, TokenTypes, ThreadTypes
  <2>3. LockInv'
    BY <1>2, <2>1, <2>2, WaitsOutside DEF ForceRefresh
  <2>4. KeepsData(t)
    BY <2>2 DEF KeepsData, Hand
  <2> QED BY <1>2, <2>1, <2>2, <2>3, <2>4, GoesOn DEF ForceRefresh
<1>3. CASE Login(t)
  <2>1. /\ issued \in Nat /\ issued' = issued + 1 /\ issued' \in 0..MaxPair
        /\ issued' \in 1..issued' /\ 1..issued \subseteq 1..issued' /\ issued' \notin 1..issued
    <3>1. issued \in 0..MaxPair /\ issued < MaxPair /\ MaxPair \in Nat
      BY <1>3 DEF Login, TokenTypes
    <3> QED BY <1>3, <3>1 DEF Login
  <2>2. Pair(issued') \in Data /\ Pair(issued').pair = issued'
    BY <2>1 DEF Pair, Data
  <2>3. ThreadTypes' /\ \A u \in Threads \ {t} : Same(u)
    BY <1>3, <2>2 DEF Login, TokenTypes, ThreadTypes, Ats, Ops, Same
  <2>4. at[t] = "idle" /\ at'[t] = "process" /\ op'[t] = "login" /\ seen'[t].pair = issued'
    BY <1>3, <2>2 DEF Login, TokenTypes, ThreadTypes
  <2>5. LockInv'
    BY <1>3, <2>3, <2>4, WaitsOutside DEF Login
  <2>6. TokenTypes'
    <3>1. UNCHANGED <<store, profile, failures>>
      BY <1>3 DEF Login
    <3>2. accepted' = accepted \cup {issued'} /\ dead' = dead
      BY <1>3 DEF Login
    <3>3. accepted' \subseteq 1..issued' /\ dead' \subseteq 1..issued'
      BY <2>1, <3>2 DEF TokenTypes
    <3>4. \A u \in Threads : op'[u] = "force" => rejected'[u] # 0
      BY <2>3, <2>4 DEF TokenTypes, Same
    <3> QED BY <2>1, <2>3, <3>1, <3>3, <3>4 DEF TokenTypes
  <2>7. \A u \in Threads \ {t} : (Hand(u)' <=> Hand(u)) /\ seen'[u] = seen[u]
    BY <2>3 DEF Same, Hand
  <2>8. /\ accepted \cup dead \subseteq 1..issued /\ store' = store
        /\ accepted' \cup dead' = accepted \cup dead \cup {issued'}
    BY <1>3 DEF Login, TokenTypes
  <2>9. store.pair # issued'
    <3>1. store.pair <= issued /\ store.pair \in Nat /\ issued \in Nat
      BY DEF DataInv, StoredIsGood, TokenTypes, Data
    <3> QED BY <2>1, <3>1
  <2>10. HandInv'
    <3>1. \A u \in Threads : Hand(u)' => /\ seen'[u].pair \in accepted' \cup dead'
                                         /\ seen'[u].pair # store'.pair
      BY <2>4, <2>7, <2>8, <2>9 DEF DataInv, HandInv
    <3>2. \A u \in Threads \ {t} : Hand(u)' => seen'[u].pair # issued'
      BY <2>1, <2>7, <2>8 DEF DataInv, HandInv
    <3>3. \A u, v \in Threads : Hand(u)' /\ Hand(v)' /\ u # v => seen'[u].pair # seen'[v].pair
      BY <2>4, <2>7, <3>2 DEF DataInv, HandInv
    <3> QED BY <3>1, <3>3 DEF HandInv, Hand
  <2>11. AskInv' /\ LateRejectionIsHarmless'
    BY <2>3, <2>4, <2>8 DEF DataInv, AskInv, LateRejectionIsHarmless, Same
  <2>12. StoredIsGood'
    <3>1. store.pair <= issued /\ store.pair \in Nat /\ issued \in Nat
      BY DEF DataInv, StoredIsGood, TokenTypes, Data
    <3>2. store'.pair <= issued'
      BY <2>1, <2>8, <3>1
    <3>3. (\A u \in Threads : at'[u] # "save") => (\A u \in Threads : at[u] # "save")
      BY <2>3, <2>4 DEF Same
    <3> QED BY <2>8, <3>2, <3>3 DEF DataInv, StoredIsGood
  <2> QED BY <2>5, <2>6, <2>10, <2>11, <2>12 DEF DataInv
<1> QED BY <1>1, <1>2, <1>3 DEF Arrive

-----------------------------------------------------------------------------
\* Who asks the server has the lock, and asks with what is stored.
LEMMA AskStarts ==
  ASSUME TokenInv, NEW t \in Threads, at[t] = "in", Asks(t), store.pair # 0,
         op[t] = "force" => store.pair = rejected[t], op[t] # "login",
         UNCHANGED <<store, profile, server, dead, calls>>
  PROVE  TokenInv'
<1> USE DEF TokenInv, Asks, server
<1>1. ThreadTypes' /\ \A u \in Threads \ {t} : Same(u)
  BY DEF TokenTypes, ThreadTypes, Ats, Locked, Same
<1>2. at'[t] = "ask" /\ op'[t] = op[t] /\ seen'[t] = store /\ rejected'[t] = rejected[t]
  BY DEF TokenTypes, ThreadTypes
<1>3. TokenTypes'
  BY <1>1 DEF TokenTypes
<1>4. LockInv'
  BY <1>1, <1>2 DEF LockInv, Locked, Same
<1>5. AskInv' /\ LateRejectionIsHarmless'
  BY <1>1, <1>2 DEF DataInv, AskInv, LateRejectionIsHarmless, Same
<1>6. \A u \in Threads : Hand(u)' => Hand(u) /\ u # t /\ seen'[u] = seen[u]
  BY <1>1, <1>2 DEF Hand, Same
<1>7. HandInv'
  BY <1>6 DEF DataInv, HandInv, Hand
<1>8. (\A u \in Threads : at'[u] # "save") => (\A u \in Threads : at[u] # "save")
  BY <1>1 DEF Same
<1>9. StoredIsGood'
  BY <1>8 DEF DataInv, StoredIsGood
<1> QED BY <1>3, <1>4, <1>5, <1>7, <1>9 DEF DataInv

LEMMA StoredPair ==
  ASSUME TokenInv
  PROVE  store.pair \in 0..MaxPair /\ issued \in 0..MaxPair /\ issued <= issued
BY DEF TokenInv, TokenTypes, Data

LEMMA LoadStep ==
  ASSUME TokenInv, NEW t \in Threads, Load(t)
  PROVE  TokenInv'
<1>1. Gone(t)
  <2>1. TokenTypes
    BY DEF TokenInv
  <2>2. CASE store.pair = 0 \/ store.fresh
    BY <2>1, <2>2, StoredPair, ReturnIsGone DEF Load
  <2>3. CASE ~(store.pair = 0 \/ store.fresh)
    <3>1. Continue(t, "refresh", LoggedOut) \/ Continue(t, "mark", LoggedOut)
      BY <2>3 DEF Load
    <3> QED BY <2>1, <3>1, ContinueIsGone
  <2> QED BY <2>2, <2>3
<1>2. failures' \in [Processes -> SUBSET (1..MaxPair)]
  BY DEF Load, TokenInv, TokenTypes
<1> QED BY <1>1, <1>2, CallFails DEF Load, server

\* What an ordinary failure leaves behind.
LEMMA FailStep ==
  ASSUME TokenInv, NEW t \in Threads, at[t] # "save", NEW why, Fail(t, why),
         UNCHANGED <<store, profile, server, dead>>
  PROVE  TokenInv'
<1>1. TokenTypes
  BY DEF TokenInv
<1> QED BY <1>1, FailIsGone, CallFails

LEMMA ReturnStep ==
  ASSUME TokenInv, NEW t \in Threads, at[t] # "save", NEW n \in 0..MaxPair, Return(t, n),
         failures' \in [Processes -> SUBSET (1..MaxPair)],
         UNCHANGED <<store, profile, server, dead>>
  PROVE  TokenInv'
<1>1. TokenTypes
  BY DEF TokenInv
<1> QED BY <1>1, ReturnIsGone, CallFails

LEMMA RecheckStep ==
  ASSUME TokenInv, NEW t \in Threads, Recheck(t)
  PROVE  TokenInv'
<1> USE DEF Recheck
<1>0. UNCHANGED <<store, profile, server, dead, calls>> /\ at[t] = "in" /\ op[t] = "refresh"
  OBVIOUS
<1>1. ASSUME NEW why, Fail(t, why) PROVE TokenInv'
  BY <1>0, <1>1, FailStep
<1>2. CASE Return(t, store.pair) /\ UNCHANGED failures
  <2>1. failures' \in [Processes -> SUBSET (1..MaxPair)]
    BY <1>2 DEF TokenInv, TokenTypes
  <2> QED BY <1>0, <1>2, <2>1, StoredPair, ReturnStep
<1>3. CASE store.pair # 0 /\ Asks(t)
  BY <1>0, <1>3, AskStarts
<1> QED BY <1>1, <1>2, <1>3 DEF CannotAsk

LEMMA CompareStep ==
  ASSUME TokenInv, NEW t \in Threads, Compare(t)
  PROVE  TokenInv'
<1> USE DEF Compare
<1>0. UNCHANGED <<store, profile, server, dead, calls>> /\ at[t] = "in" /\ op[t] = "force"
  OBVIOUS
<1>1. ASSUME NEW why, Fail(t, why) PROVE TokenInv'
  BY <1>0, <1>1, FailStep
<1>2. ASSUME NEW n \in 0..MaxPair, Return(t, n),
             failures' = failures
               \/ failures' = [failures EXCEPT ![ProcessOf[t]] = @ \ {rejected[t]}]
      PROVE  TokenInv'
  <2>1. failures' \in [Processes -> SUBSET (1..MaxPair)]
    BY <1>2 DEF TokenInv, TokenTypes
  <2> QED BY <1>0, <1>2, <2>1, ReturnStep
<1>3. CASE store.pair = rejected[t] /\ store.pair # 0 /\ Asks(t)
  BY <1>0, <1>3, AskStarts
<1>4. rejected[t] # 0 /\ 0 \in 0..MaxPair
  BY <1>0 DEF TokenInv, TokenTypes
<1>5. CASE store.pair = 0 /\ Fail(t, "not_found")
  BY <1>1, <1>5
<1>6. CASE /\ store.pair \notin {0, rejected[t]} /\ Return(t, store.pair)
           /\ failures' = [failures EXCEPT ![ProcessOf[t]] = @ \ {rejected[t]}]
  BY <1>2, <1>6, StoredPair
<1>7. CASE Return(t, 0) /\ UNCHANGED failures
  BY <1>2, <1>4, <1>7
<1>8. CASE store.pair = rejected[t] /\ (Asks(t) \/ CannotAsk(t))
  BY <1>1, <1>3, <1>4, <1>8 DEF CannotAsk
<1> QED BY <1>5, <1>6, <1>7, <1>8

-----------------------------------------------------------------------------
\* Only one thread is inside.
LEMMA Alone ==
  ASSUME TokenInv, NEW t \in Threads, at[t] \in Locked
  PROVE  \A u \in Threads \ {t} : at[u] \notin Locked
BY DEF TokenInv, LockInv

\* The server took a token that is in nobody's hand.
LEMMA AnsweredFacts ==
  ASSUME TokenInv, NEW t \in Threads, Answered(t)
  PROVE  /\ issued' = issued + 1 /\ issued' \in 1..MaxPair /\ issued <= issued'
         /\ 1..issued \subseteq 1..issued' /\ issued' \in 1..issued' /\ issued' \notin 1..issued
         /\ seen[t].pair = store.pair /\ store.pair # 0 /\ store.pair \in 1..issued
         /\ store.pair < issued'
         /\ accepted' = (accepted \ {store.pair}) \cup {issued'} /\ accepted' \subseteq 1..issued'
         /\ \A u \in Threads : Hand(u) => seen[u].pair \in accepted' \cup dead
                                         /\ seen[u].pair # issued'
<1>1. at[t] = "ask" /\ issued \in 0..MaxPair /\ issued < MaxPair /\ issued' = issued + 1
      /\ MaxPair \in Nat
  BY DEF Answered, TokenInv, TokenTypes
<1>2. /\ issued' \in 1..MaxPair /\ issued <= issued' /\ 1..issued \subseteq 1..issued'
      /\ issued' \in 1..issued' /\ issued' \notin 1..issued
  BY <1>1
<1>3. seen[t].pair = store.pair /\ store.pair # 0
  BY <1>1 DEF TokenInv, DataInv, AskInv
<1>4. store.pair \in 1..issued
  BY <1>3 DEF Answered, TokenInv, TokenTypes
<1>5. store.pair < issued'
  BY <1>1, <1>4
<1>6. accepted' = (accepted \ {store.pair}) \cup {issued'} /\ accepted \cup dead \subseteq 1..issued
  BY <1>3 DEF Answered, TokenInv, TokenTypes
<1>7. accepted' \subseteq 1..issued'
  BY <1>2, <1>6
<1>8. \A u \in Threads : Hand(u) => /\ seen[u].pair \in accepted \cup dead
                                   /\ seen[u].pair # store.pair
  BY DEF TokenInv, DataInv, HandInv
<1>9. \A u \in Threads : Hand(u) => seen[u].pair \in accepted' \cup dead /\ seen[u].pair # issued'
  BY <1>2, <1>6, <1>8
<1> QED BY <1>1, <1>2, <1>3, <1>4, <1>5, <1>6, <1>7, <1>9

LEMMA RefreshedStep ==
  ASSUME TokenInv, NEW t \in Threads, Refreshed(t)
  PROVE  TokenInv'
<1> USE DEF TokenInv
<1>0. at[t] = "ask" /\ Answered(t) /\ UNCHANGED <<store, profile, dead, op, rejected, used,
                                                 processLock, fileLock, failures, calls>>
  BY DEF Refreshed, Answered
<1>1. Pair(issued') \in Data /\ Pair(issued').pair = issued'
  BY <1>0, AnsweredFacts DEF Pair, Data
<1>2. ThreadTypes' /\ \A u \in Threads \ {t} : Same(u)
  BY <1>1 DEF Refreshed, TokenTypes, ThreadTypes, Ats, Locked, Same
<1>3. at'[t] = "save" /\ seen'[t].pair = issued' /\ op'[t] = op[t]
  BY <1>1 DEF Refreshed, TokenTypes, ThreadTypes
<1>4. TokenTypes'
  BY <1>0, <1>2, AnsweredFacts DEF TokenTypes
<1>5. LockInv'
  BY <1>0, <1>2, <1>3 DEF LockInv, Locked, Same
<1>6. AskInv'
  BY <1>0, <1>2, <1>3, AnsweredFacts DEF DataInv, AskInv, Same
<1>7. LateRejectionIsHarmless'
  BY <1>0, <1>2, <1>3 DEF DataInv, LateRejectionIsHarmless, Same
<1>8. \A u \in Threads \ {t} : Hand(u)' => Hand(u) /\ seen'[u] = seen[u]
  BY <1>2 DEF Hand, Same
<1>9. HandInv'
  <2>1. \A u \in Threads \ {t} : Hand(u)' => /\ seen'[u].pair \in accepted' \cup dead
                                             /\ seen'[u].pair # issued'
    BY <1>0, <1>8, AnsweredFacts
  <2>2. issued' \in accepted' /\ issued' # store.pair
    BY <1>0, AnsweredFacts
  <2>3. \A u \in Threads : Hand(u)' => /\ seen'[u].pair \in accepted' \cup dead'
                                       /\ seen'[u].pair # store'.pair
    BY <1>0, <1>3, <1>8, <2>1, <2>2 DEF DataInv, HandInv
  <2>4. \A u, v \in Threads : Hand(u)' /\ Hand(v)' /\ u # v => seen'[u].pair # seen'[v].pair
    BY <1>3, <1>8, <2>1 DEF DataInv, HandInv
  <2> QED BY <2>3, <2>4 DEF HandInv, Hand
<1>10. StoredIsGood'
  <2>1. store'.pair <= issued'
    BY <1>0, AnsweredFacts
  <2> QED BY <1>3, <2>1 DEF StoredIsGood
<1> QED BY <1>4, <1>5, <1>6, <1>7, <1>9, <1>10 DEF DataInv

\* The answer is lost: the token that was asked with has died.
LEMMA AnswerLostStep ==
  ASSUME TokenInv, NEW t \in Threads, AnswerLost(t)
  PROVE  TokenInv'
<1>0. /\ at[t] = "ask" /\ Answered(t) /\ dead' = dead \cup {store.pair} /\ store' = store
      /\ profile' = profile /\ Fail(t, "lost_answer")
  BY AnsweredFacts DEF AnswerLost, Answered
<1>1. Gone(t) /\ failures' \in [Processes -> SUBSET (1..MaxPair)]
  BY <1>0, FailIsGone DEF TokenInv
<1>2. dead \subseteq 1..issued /\ profile \in {"none", "active", "expired"}
      /\ accepted \subseteq 1..issued
  BY DEF TokenInv, TokenTypes
<1>3. /\ issued' \in 0..MaxPair /\ issued <= issued' /\ accepted' \subseteq 1..issued'
      /\ 1..issued \subseteq 1..issued' /\ store.pair \in 1..issued
      /\ accepted' = (accepted \ {store.pair}) \cup {issued'}
  <2>1. issued' \in 1..MaxPair => issued' \in 0..MaxPair
    BY DEF TokenInv, TokenTypes
  <2> QED BY <1>0, <2>1, AnsweredFacts
<1>4. dead' \subseteq 1..issued' /\ accepted \cup dead \subseteq accepted' \cup dead'
  BY <1>0, <1>2, <1>3
<1> QED BY <1>0, <1>1, <1>2, <1>3, <1>4, CallEnds

LEMMA UnansweredStep ==
  ASSUME TokenInv, NEW t \in Threads, Unanswered(t)
  PROVE  TokenInv'
<1>1. at[t] # "save" /\ UNCHANGED <<store, profile, server, dead>>
  BY DEF Unanswered
<1>2. \E why \in {"network", "cancel", "rejected"} : Fail(t, why)
  BY DEF Unanswered
<1> QED BY <1>1, <1>2, FailStep

\* Every slot is restored, and the token that is back in the store is used up.
LEMMA SaveFailsStep ==
  ASSUME TokenInv, NEW t \in Threads, SaveFails(t)
  PROVE  TokenInv'
<1>1. /\ at[t] = "save" /\ dead' = dead \cup {store.pair} /\ Fail(t, "local")
      /\ UNCHANGED <<store, profile, accepted, issued>>
  BY DEF SaveFails, server
<1>2. Gone(t) /\ failures' \in [Processes -> SUBSET (1..MaxPair)]
  BY <1>1, FailIsGone DEF TokenInv
<1>3. store.pair \in 1..issued
  <2>1. store.pair # 0 /\ store.pair <= issued
    BY <1>1 DEF TokenInv, DataInv, AskInv, StoredIsGood
  <2> QED BY <2>1, StoredPair
<1>4. /\ dead' \subseteq 1..issued' /\ accepted' \subseteq 1..issued'
      /\ accepted \cup dead \subseteq accepted' \cup dead' /\ store.pair \in accepted' \cup dead'
      /\ profile \in {"none", "active", "expired"}
  BY <1>1, <1>3 DEF TokenInv, TokenTypes
<1> QED BY <1>1, <1>2, <1>4, StoredPair, CallEnds

-----------------------------------------------------------------------------
\* Who is inside puts in the store what it carries, or empties it.
LEMMA StoreChanges ==
  ASSUME TokenInv, NEW t \in Threads, at[t] \in Locked, Gone(t),
         store' \in Data, store'.pair = 0 => store' = LoggedOut,
         store'.pair = 0 \/ (Hand(t) /\ store'.pair = seen[t].pair),
         profile' \in {"none", "active", "expired"}, profile' = "none" <=> store'.pair = 0,
         UNCHANGED <<server, dead>>, failures' \in [Processes -> SUBSET (1..MaxPair)]
  PROVE  TokenInv'
<1> USE DEF TokenInv, server
<1>1. LockInv'
  BY GoneUnlocks
<1>2. TokenTypes'
  <2>1. \A u \in Threads : op'[u] = "force" => rejected'[u] # 0
    BY DEF Gone, Same, Idled, TokenTypes
  <2> QED BY <2>1 DEF Gone, TokenTypes
<1>3. \A u \in Threads : at'[u] \notin {"ask", "save"}
  <2>1. \A u \in Threads \ {t} : at[u] \notin Locked
    BY Alone
  <2> QED BY <2>1 DEF Gone, Same, Idled, Locked
<1>4. AskInv' /\ LateRejectionIsHarmless'
  BY <1>3 DEF AskInv, LateRejectionIsHarmless
<1>5. \A u \in Threads : Hand(u)' => Hand(u) /\ u # t /\ seen'[u] = seen[u]
  BY DEF Gone, Same, Idled, Hand
<1>6. \A u \in Threads : Hand(u) => seen[u].pair \in accepted \cup dead
  BY DEF DataInv, HandInv
<1>7. \A u \in Threads : Hand(u)' => seen'[u].pair # store'.pair
  <2>1. accepted \cup dead \subseteq 1..issued
    BY DEF TokenTypes
  <2>2. \A u \in Threads : Hand(u)' => seen[u].pair # 0
    BY <1>5, <1>6, <2>1, StoredPair
  <2> QED BY <1>5, <2>2 DEF DataInv, HandInv
<1>8. HandInv'
  BY <1>5, <1>6, <1>7 DEF DataInv, HandInv, Hand
<1>9. StoredIsGood'
  <2>1. CASE store'.pair = 0
    BY <2>1, StoredPair DEF StoredIsGood
  <2>2. CASE Hand(t) /\ store'.pair = seen[t].pair
    <3>1. store'.pair \in accepted \cup dead
      BY <1>6, <2>2
    <3>2. store'.pair \in 1..issued
      BY <3>1 DEF TokenTypes
    <3> QED BY <3>1, <3>2, StoredPair DEF StoredIsGood
  <2> QED BY <2>1, <2>2
<1> QED BY <1>1, <1>2, <1>4, <1>8, <1>9 DEF DataInv

LEMMA SaveStep ==
  ASSUME TokenInv, NEW t \in Threads, Save(t)
  PROVE  TokenInv'
<1>1. at[t] = "save" /\ store' = seen[t] /\ profile' = "active" /\ Return(t, seen[t].pair)
      /\ UNCHANGED <<server, dead>>
  BY DEF Save
<1>2. seen[t] \in Data /\ seen[t].pair \in 0..MaxPair
  BY DEF TokenInv, TokenTypes, ThreadTypes, Data
<1>3. Gone(t)
  BY <1>1, <1>2, ReturnIsGone DEF TokenInv
<1>4. store'.pair # 0
  <2>1. store.pair < seen[t].pair
    BY <1>1 DEF TokenInv, DataInv, AskInv
  <2> QED BY <1>1, <1>2, <2>1, StoredPair
<1>5. failures' \in [Processes -> SUBSET (1..MaxPair)]
  BY DEF Save, TokenInv, TokenTypes
<1> QED BY <1>1, <1>2, <1>3, <1>4, <1>5, StoreChanges DEF Hand, Locked

LEMMA SaveLoginStep ==
  ASSUME TokenInv, NEW t \in Threads, SaveLogin(t)
  PROVE  TokenInv'
<1>1. /\ at[t] = "in" /\ op[t] = "login" /\ store' = seen[t] /\ profile' = "active"
      /\ Return(t, seen[t].pair) /\ UNCHANGED <<server, dead, failures>>
  BY DEF SaveLogin
<1>2. seen[t] \in Data /\ seen[t].pair \in 0..MaxPair
  BY DEF TokenInv, TokenTypes, ThreadTypes, Data
<1>3. Gone(t)
  BY <1>1, <1>2, ReturnIsGone DEF TokenInv
<1>4. store'.pair # 0
  <2>1. seen[t].pair \in accepted \cup dead
    BY <1>1 DEF TokenInv, DataInv, HandInv, Hand
  <2>2. accepted \cup dead \subseteq 1..issued
    BY DEF TokenInv, TokenTypes
  <2> QED BY <1>1, <2>1, <2>2, StoredPair
<1>5. failures' \in [Processes -> SUBSET (1..MaxPair)]
  BY <1>1 DEF TokenInv, TokenTypes
<1> QED BY <1>1, <1>2, <1>3, <1>4, <1>5, StoreChanges DEF Hand, Locked

LEMMA LogoutStep ==
  ASSUME TokenInv, NEW t \in Threads, Logout(t)
  PROVE  TokenInv'
<1>1. at[t] = "in" /\ store' = LoggedOut /\ profile' = "none" /\ Return(t, 0)
      /\ UNCHANGED <<server, dead, failures>>
  BY DEF Logout
<1>2. LoggedOut \in Data /\ LoggedOut.pair = 0 /\ 0 \in 0..MaxPair
  BY DEF LoggedOut, Data
<1>3. Gone(t)
  BY <1>1, <1>2, ReturnIsGone DEF TokenInv
<1>4. failures' \in [Processes -> SUBSET (1..MaxPair)]
  BY <1>1 DEF TokenInv, TokenTypes
<1> QED BY <1>1, <1>2, <1>3, <1>4, StoreChanges DEF Locked

LEMMA MarkStep ==
  ASSUME TokenInv, NEW t \in Threads, Mark(t)
  PROVE  TokenInv'
<1>1. /\ at[t] = "in" /\ Return(t, 0) /\ UNCHANGED <<store, accepted, issued, dead, failures>>
      /\ profile' = IF profile = "none" THEN "none" ELSE "expired"
  BY DEF Mark, server
<1>2. Gone(t)
  <2>1. 0 \in 0..MaxPair
    OBVIOUS
  <2> QED BY <1>1, <2>1, ReturnIsGone DEF TokenInv
<1>3. /\ accepted \subseteq 1..issued /\ dead \subseteq 1..issued
      /\ failures' \in [Processes -> SUBSET (1..MaxPair)]
  BY <1>1 DEF TokenInv, TokenTypes
<1> QED BY <1>1, <1>2, <1>3, StoredPair, CallEnds

-----------------------------------------------------------------------------
\* Calls that never reach the lock.
LEMMA TimeoutStep ==
  ASSUME TokenInv, NEW t \in Threads, FileTimeout(t) \/ Cancel(t)
  PROVE  TokenInv'
<1>1. at[t] # "save" /\ UNCHANGED <<store, profile, server, dead>>
  BY DEF FileTimeout, Cancel
<1>2. \/ \E why \in {"lock", "cancel"} : Fail(t, why)
      \/ Return(t, 0) /\ UNCHANGED failures
  BY DEF FileTimeout, Cancel
<1>3. CASE \E why \in {"lock", "cancel"} : Fail(t, why)
  BY <1>1, <1>3, FailStep
<1>4. CASE Return(t, 0) /\ UNCHANGED failures
  <2>1. failures' \in [Processes -> SUBSET (1..MaxPair)] /\ 0 \in 0..MaxPair
    BY <1>4 DEF TokenInv, TokenTypes
  <2> QED BY <1>1, <1>4, <2>1, ReturnStep
<1> QED BY <1>2, <1>3, <1>4

LEMMA FollowerStep ==
  ASSUME TokenInv, NEW t \in Threads, CancelFollower(t)
  PROVE  TokenInv'
<1> USE DEF CancelFollower
<1>1. ThreadTypes' /\ \A u \in Threads \ {t} : Same(u)
  BY DEF TokenInv, TokenTypes, ThreadTypes, Ats, Ops, Same
<1>2. at[t] = "follow" /\ at'[t] = "idle" /\ op'[t] = "get"
  BY DEF TokenInv, TokenTypes, ThreadTypes
<1>3. LockInv'
  BY <1>1, <1>2, WaitsOutside
<1>4. KeepsData(t) /\ (op'[t] = "force" => rejected'[t] # 0)
  BY <1>2 DEF KeepsData, Hand
<1> QED BY <1>1, <1>2, <1>3, <1>4, GoesOn

\* The world: tokens expire, are revoked, failures are forgotten.
LEMMA WorldStep ==
  ASSUME TokenInv, Expire \/ (\E n \in accepted : Revoke(n)) \/ (\E p \in Processes : CoolDown(p))
  PROVE  TokenInv'
<1> USE DEF TokenInv
<1>1. UNCHANGED <<profile, issued, op, at, seen, rejected, used, processLock, fileLock>>
  BY DEF Expire, Revoke, CoolDown, server
<1>2. LockInv' /\ ThreadTypes'
  BY <1>1 DEF LockInv, TokenTypes, ThreadTypes
<1>3. \A u \in Threads : KeepsData(u)
  BY <1>1 DEF KeepsData, Hand
<1>4. /\ store'.pair = store.pair /\ store' \in Data /\ (store'.pair = 0 => store' = LoggedOut)
  BY DEF Expire, Revoke, CoolDown, TokenTypes, Data
<1>5. /\ accepted \cup dead \subseteq accepted' \cup dead'
      /\ accepted' \subseteq 1..issued /\ dead' \subseteq 1..issued
  BY DEF Expire, Revoke, CoolDown, server, TokenTypes
<1>6. failures' \in [Processes -> SUBSET (1..MaxPair)]
  BY DEF Expire, Revoke, CoolDown, TokenTypes
<1>7. TokenTypes'
  BY <1>1, <1>2, <1>4, <1>5, <1>6 DEF TokenTypes
<1>8. DataInv'
  <2>1. issued' \in Nat /\ issued <= issued'
    BY <1>1, StoredPair
  <2>2. (\E t \in Threads : at[t] = "save") => (\E t \in Threads : at'[t] = "save")
    BY <1>1
  <2> QED BY <1>3, <1>4, <1>5, <2>1, <2>2, DataFrame
<1> QED BY <1>2, <1>7, <1>8

\* A process dies with what its threads carry.
LEMMA CrashStep ==
  ASSUME TokenInv, NEW p \in Processes, Crash(p)
  PROVE  TokenInv'
<1> DEFINE mine == {t \in Threads : ProcessOf[t] = p}
<1> USE DEF TokenInv
<1>1. /\ at' = [t \in Threads |-> IF t \in mine THEN "idle" ELSE at[t]]
      /\ op' = [t \in Threads |-> IF t \in mine THEN "get" ELSE op[t]]
      /\ seen' = [t \in Threads |-> IF t \in mine THEN LoggedOut ELSE seen[t]]
      /\ rejected' = [t \in Threads |-> IF t \in mine THEN 0 ELSE rejected[t]]
      /\ used' = [t \in Threads |-> IF t \in mine THEN 0 ELSE used[t]]
  BY DEF Crash
<1>2. /\ failures' = [failures EXCEPT ![p] = {}]
      /\ processLock' = [processLock EXCEPT ![p] = Unheld]
      /\ fileLock' = IF fileLock \in mine THEN Unheld ELSE fileLock
      /\ dead' = IF \E t \in mine : at[t] = "save" THEN dead \cup {store.pair} ELSE dead
      /\ UNCHANGED <<store, profile, accepted, issued>>
  BY DEF Crash, server
<1>3. \A t \in Threads : t \in mine <=> ProcessOf[t] = p
  OBVIOUS
<1> HIDE DEF mine
<1>4. ThreadTypes'
  BY <1>1 DEF TokenTypes, ThreadTypes, Ats, Ops, Data, LoggedOut
<1>5. \A u \in Threads : IF u \in mine THEN Idled(u) ELSE Same(u)
  BY <1>1 DEF Idled, Same
<1>6. LockInv'
  <2> USE DEF LockInv, Locked, Same, Idled
  <2>1. fileLock' \in Threads \cup {Unheld} /\ processLock' \in [Processes -> Threads \cup {Unheld}]
    BY <1>2
  <2>2. \A u \in Threads : at'[u] \in Locked <=> fileLock' = u
    BY <1>2, <1>5
  <2>3. \A u \in Threads : at'[u] \in Locked \cup {"file"} <=> processLock'[ProcessOf[u]] = u
    <3>1. \A u \in Threads : ProcessOf[u] \in Processes
      BY DEF Processes
    <3> QED BY <1>2, <1>3, <1>5, <3>1
  <2>4. \A q \in Processes : processLock'[q] # Unheld => ProcessOf[processLock'[q]] = q
    BY <1>2
  <2> QED BY <2>1, <2>2, <2>3, <2>4
<1>7. \A u \in Threads : KeepsData(u)
  BY <1>5 DEF KeepsData, Hand, Same, Idled
<1>8. (\E t \in Threads : at[t] = "save") => store.pair \in 1..issued
  <2>1. (\E t \in Threads : at[t] = "save") => store.pair # 0 /\ store.pair <= issued
    BY DEF DataInv, AskInv, StoredIsGood
  <2> QED BY <2>1, StoredPair
<1>9. mine \subseteq Threads
  BY DEF mine
<1>10. TokenTypes'
  <2>1. dead' \subseteq 1..issued
    BY <1>2, <1>8, <1>9 DEF TokenTypes
  <2>2. \A u \in Threads : op'[u] = "force" => rejected'[u] # 0
    BY <1>5 DEF Same, Idled, TokenTypes
  <2>3. failures' \in [Processes -> SUBSET (1..MaxPair)]
    BY <1>2 DEF TokenTypes
  <2> QED BY <1>2, <1>4, <2>1, <2>2, <2>3 DEF TokenTypes
<1>11. DataInv'
  <2>1. issued' \in Nat /\ issued <= issued'
    BY <1>2, StoredPair
  <2>2. (\E t \in Threads : at[t] = "save") /\ (\A t \in Threads : at'[t] # "save")
          => store.pair \in accepted' \cup dead'
    BY <1>2, <1>5 DEF Same
  <2>3. accepted \cup dead \subseteq accepted' \cup dead'
    BY <1>2
  <2> QED BY <1>2, <1>7, <2>1, <2>2, <2>3, DataFrame
<1> QED BY <1>6, <1>10, <1>11

-----------------------------------------------------------------------------
LEMMA TokenStart == Init => TokenInv
<1> SUFFICES ASSUME Init PROVE TokenInv
  OBVIOUS
<1> USE DEF Init
<1>1. 1 \in 0..MaxPair /\ 0 \in 0..MaxPair /\ 1 \in 1..1 /\ 1 <= 1
  OBVIOUS
<1>2. TokenTypes
  BY <1>1 DEF TokenTypes, ThreadTypes, Pair, LoggedOut, Data, Ops, Ats
<1>3. LockInv
  <2>1. \A t \in Threads : ProcessOf[t] \in Processes
    BY DEF Processes
  <2> QED BY <2>1 DEF LockInv, Locked
<1>4. DataInv
  BY <1>1 DEF DataInv, AskInv, HandInv, Hand, StoredIsGood, LateRejectionIsHarmless, Pair
<1> QED BY <1>2, <1>3, <1>4 DEF TokenInv

LEMMA NotStale ==
  ASSUME TokenInv, NEW t \in Threads
  PROVE  ~StaleLoad(t) /\ ~StaleSave(t)
BY DEF TokenInv, TokenTypes, ThreadTypes, Ops, StaleLoad, StaleSave

LEMMA TokenStep ==
  ASSUME NobodyMarksStale, TokenInv, [Next]_vars
  PROVE  TokenInv'
<1>1. ASSUME NEW t \in Threads, Step(t) PROVE TokenInv'
  BY <1>1, TakeProcessStep, TakeFileStep, LoadStep, RecheckStep, CompareStep, RefreshedStep,
     AnswerLostStep, UnansweredStep, SaveStep, SaveFailsStep, SaveLoginStep, LogoutStep,
     MarkStep, NotStale DEF Step
<1>2. CASE UNCHANGED vars
  <2>1. UNCHANGED <<TokenTypes, LockInv>>
    BY <1>2 DEF vars, server, TokenTypes, ThreadTypes, LockInv
  <2>2. UNCHANGED DataInv
    BY <1>2 DEF vars, server, DataInv, AskInv, HandInv, Hand, StoredIsGood, LateRejectionIsHarmless
  <2> QED BY <2>1, <2>2 DEF TokenInv
<1> QED BY <1>1, <1>2, ArriveStep, TimeoutStep, FollowerStep, WorldStep, CrashStep DEF Next

\* The invariant that carries the properties of the stored login (filelock.go:123-189,
\* oauth_provider.go:889-924, force_refresh.go:124-159): one thread is inside, what it asks
\* with is what is stored, and each new pair is in one hand.
THEOREM TokenInvariant == NobodyMarksStale => (Spec => []TokenInv)
<1> SUFFICES ASSUME NobodyMarksStale PROVE Spec => []TokenInv
  OBVIOUS
<1>1. TokenInv /\ [Next]_vars => TokenInv'
  BY TokenStep
<1> QED BY <1>1, TokenStart, PTL DEF Spec

\* Refreshes are serial: no refresh token is sent that the server has exchanged for a pair
\* that is still there, and no rejection is acted upon when its token is not the stored one
\* any more (force_refresh.go:86-90, 124-159).
THEOREM RefreshIsSerialAlways == NobodyMarksStale => (Spec => []RefreshIsSerial)
<1> SUFFICES ASSUME NobodyMarksStale PROVE Spec => []RefreshIsSerial
  OBVIOUS
<1>1. TokenInv => RefreshIsSerial
  <2> SUFFICES ASSUME TokenInv PROVE RefreshIsSerial
    OBVIOUS
  <2> USE DEF TokenInv
  <2>1. TypeOK
    BY DEF TokenTypes, ThreadTypes, LockInv, TypeOK, Inside, Data, Ops, Ats, Calls
  <2>2. RefreshTokenUsedOnce
    <3> SUFFICES ASSUME NEW t \in Threads, at[t] = "ask" PROVE seen[t].pair \in accepted \cup dead
      BY DEF RefreshTokenUsedOnce
    <3>1. \A u \in Threads : at[u] # "save"
      BY Alone DEF Locked
    <3> QED BY <3>1 DEF DataInv, AskInv, StoredIsGood
  <2> QED BY <2>1, <2>2 DEF RefreshIsSerial, DataInv
<1>2. Spec => []TokenInv
  BY TokenInvariant
<1> QED BY <1>1, <1>2, PTL

\* Only a login puts a token where there was none, or an older one in the place of a newer
\* one: no refresh undoes a logout or a login (oauth_provider.go:906, token.go:738-754).
THEOREM OnlyLoginGoesBackAlways == NobodyMarksStale => (Spec => OnlyLoginGoesBack)
<1> SUFFICES ASSUME NobodyMarksStale PROVE Spec => OnlyLoginGoesBack
  OBVIOUS
<1> DEFINE Allowed == store'.pair \notin {0, store.pair} =>
                        \/ store.pair # 0 /\ store'.pair > store.pair
                        \/ \E t \in Threads : op[t] = "login" /\ at[t] = "in"
<1>1. TokenInv /\ [Next]_vars => [Allowed]_vars
  <2> SUFFICES ASSUME TokenInv, Next PROVE Allowed
    OBVIOUS
  <2>1. ASSUME NEW t \in Threads, Step(t) PROVE Allowed
    <3>1. CASE Save(t)
      <4>1. at[t] = "save" /\ store' = seen[t]
        BY <3>1 DEF Save
      <4>2. store.pair # 0 /\ store.pair < seen[t].pair
        BY <4>1 DEF TokenInv, DataInv, AskInv
      <4>3. store.pair \in Nat /\ seen[t].pair \in Nat
        BY DEF TokenInv, TokenTypes, ThreadTypes, Data
      <4> QED BY <4>1, <4>2, <4>3
    <3>2. CASE SaveLogin(t)
      BY <3>2 DEF SaveLogin
    <3>3. CASE Logout(t)
      BY <3>3 DEF Logout, LoggedOut
    <3>4. CASE UNCHANGED store
      BY <3>4
    <3>5. TakeProcess(t) \/ TakeFile(t) \/ Load(t) \/ Recheck(t) \/ Compare(t) \/ Refreshed(t)
            \/ AnswerLost(t) \/ Unanswered(t) \/ SaveFails(t) \/ Mark(t) => UNCHANGED store
      BY DEF TakeProcess, TakeFile, Load, Recheck, Compare, Refreshed, AnswerLost, Unanswered,
             SaveFails, Mark
    <3> QED BY <2>1, <3>1, <3>2, <3>3, <3>4, <3>5, NotStale DEF Step
  <2>2. ASSUME NEW t \in Threads, Arrive(t) \/ FileTimeout(t) \/ Cancel(t) \/ CancelFollower(t)
        PROVE  UNCHANGED store
    BY <2>2 DEF Arrive, Call, Login, ForceRefresh, FileTimeout, Cancel, CancelFollower
  <2>3. CASE Expire
    BY <2>3 DEF Expire, TokenInv, TokenTypes, Data
  <2>4. ASSUME (\E n \in accepted : Revoke(n)) \/ (\E p \in Processes : CoolDown(p) \/ Crash(p))
        PROVE  UNCHANGED store
    BY <2>4 DEF Revoke, CoolDown, Crash
  <2> QED BY <2>1, <2>2, <2>3, <2>4 DEF Next
<1>2. Spec => []TokenInv
  BY TokenInvariant
<1> QED BY <1>1, <1>2, PTL DEF Spec, OnlyLoginGoesBack

-----------------------------------------------------------------------------
(* AttemptStore.                                                           *)

HIDE TokenAssumption

\* The jittered delay after n failures is a number of time units (attempt_store.go:577-604).
BackoffIsTime == \A n \in Nat : Backoff(n) \in Nat

Ids == (Procs \X Nat) \cup {<<>>}

Records == [state : {"in_flight", "cooldown", "terminal_hold"}, id : Ids,
            lease : Nat, next : Nat, retry : {"", "unknown", "retryable", "non_retryable"},
            count : Nat, last : Nat]

\* A record that the store can have written by time t, with c claims made.
Whole(r, t, c) ==
  /\ r \in Records /\ Loads(r) /\ r.last <= t
  /\ r.last = 0 <=> r.count = 0
  /\ IF r.state = "in_flight"
       THEN r.next = 0 /\ r.id \in Procs \X Nat /\ r.id[2] <= c[r.id[1]]
       ELSE r.last > 0

\* What is in the file, or in what a claim has replaced.
Stored(s) == DOMAIN s \subseteq Prints /\ \A f \in DOMAIN s : Whole(s[f], now, claims)

Failings == [at : Nat, done : Nat, retry : {"unknown", "retryable", "non_retryable"}, after : Nat]

Typed ==
  /\ now \in 1..MaxTime
  /\ pc \in [Procs -> Claimed \cup {"idle", "claim", "rollback", "consume"}]
  /\ clock \in [Procs -> 0..now] /\ claims \in [Procs -> 0..MaxClaims]
  /\ made \in [Procs -> Nat] /\ failure \in [Procs -> Failings]
  /\ previous = [p \in Procs |-> previous[p]]
  /\ counted \in [Prints -> Nat] /\ lastFailure \in [Prints -> Nat] /\ heldUntil \in [Prints -> Nat]

Stocked ==
  /\ Stored(records)
  /\ \A p \in Procs : Stored(previous[p]) /\ DOMAIN previous[p] \subseteq Items(p)

\* How far a command is.
Advanced(p) ==
  /\ pc[p] # "idle" => clock[p] > 0
  /\ pc[p] \in {"idle", "claim"} => made[p] = 0
  /\ pc[p] = "claim" => claims[p] < MaxClaims
  /\ made[p] <= Len(Plan[p])
  /\ pc[p] = "create" => made[p] < Len(Plan[p])
  /\ pc[p] \in {"success", "consume"} => made[p] = Len(Plan[p])
  /\ pc[p] = "failed" => failure[p].at \in 1..Len(Plan[p]) /\ failure[p].done < failure[p].at

\* The record r belongs to the claim that p, at "where" and with n claims, still has to end.
Holds(r, p, where, n) == where \in Claimed /\ r.state = "in_flight" /\ r.id = <<p, n>>
Owned(r, p) == Holds(r, p, pc[p], claims[p])

CountOf(s, f) == IF f \in DOMAIN s THEN s[f].count ELSE 0
LastOf(s, f)  == IF f \in DOMAIN s THEN s[f].last ELSE 0

\* The record of a claim carries the count of the one it has replaced, and its lease until
\* the claim is cancelled or over.
Fits(r, f, p, where, n, before, t) ==
  Holds(r, p, where, n) =>
    /\ f \in Items(p)
    /\ r.count = CountOf(before, f) /\ r.last = LastOf(before, f)
    /\ where \in {"create", "success"} => r.lease = t + Lease

Matches(r, f, p) == Fits(r, f, p, pc[p], claims[p], previous[p], clock[p])

\* So it is of every record in the file, and of every record that another claim has replaced.
Matching ==
  \A p \in Procs :
    /\ \A f \in DOMAIN records : Matches(records[f], f, p)
    /\ \A q \in Procs : \A f \in DOMAIN previous[q] : Matches(previous[q][f], f, p)

\* What a claim has replaced did not block it, so it does not block later.
Freed ==
  \A p \in Procs : pc[p] \in Claimed =>
    \A f \in DOMAIN previous[p] : ~Blocks(previous[p][f], now)

\* While the lease lasts nobody else has the record.
Leased ==
  \A p \in Procs : Working(p) => \A f \in Items(p) :
    LeaseOf(p) <= now \/ (f \in DOMAIN records /\ Owned(records[f], p))

\* A count is the one of history, or forgotten because the reset has passed.
Tallied(n, t, count, last, time) ==
  /\ n = count \/ (n = 0 /\ time - last >= Reset)
  /\ n > 0 => t = last

\* s carries the right count of f, and who can still put something else in its place is in L.
CountsWith(s, f, L, count, last, time, where, ids) ==
  /\ Tallied(CountOf(s, f), LastOf(s, f), count, last, time)
  /\ \A q \in Procs : f \in DOMAIN s /\ Holds(s[f], q, where[q], ids[q]) => q \in L

\* So does what p has replaced; and a failure that p is about to record counts on from it.
Member(p, f, L) ==
  /\ pc[p] \in Claimed /\ f \in Items(p)
  /\ CountsWith(previous[p], f, L, counted[f], lastFailure[f], now, pc, claims)
  /\ pc[p] = "failed" => CountOf(previous[p], f) = counted[f] \/ clock[p] - lastFailure[f] >= Reset

\* The chain of f: the file, the claim that owns its record, the claim that owned what that
\* one has replaced, and so on.
Chained(f, L) ==
  /\ CountsWith(records, f, L, counted[f], lastFailure[f], now, pc, claims)
  /\ \A p \in L : Member(p, f, L)

Counting == \A f \in Prints : \E L \in SUBSET Procs : Chained(f, L)

AttemptInv ==
  /\ Typed /\ Stocked /\ (\A p \in Procs : Advanced(p))
  /\ Matching /\ Freed /\ Leased /\ HoldsLast /\ Counting

\* What the steps of p leave to the other processes.
OthersKeep(p) ==
  \A q \in Procs \ {p} :
    /\ pc'[q] = pc[q] /\ clock'[q] = clock[q] /\ claims'[q] = claims[q]
    /\ previous'[q] = previous[q] /\ made'[q] = made[q] /\ failure'[q] = failure[q]

\* A step of p that does not touch the store.
Quiet(p) ==
  /\ now' = now /\ records' = records /\ claims' = claims
  /\ counted' = counted /\ lastFailure' = lastFailure /\ heldUntil' = heldUntil
  /\ OthersKeep(p)
  /\ pc'[p] \in Claimed => pc[p] \in Claimed /\ previous'[p] = previous[p]
  /\ Working(p)' => Working(p) /\ clock'[p] = clock[p]
  /\ pc'[p] = "failed" => clock'[p] = now \/ (pc[p] = "failed" /\ clock'[p] = clock[p])
  /\ previous'[p] = previous[p] \/ previous'[p] = <<>>

\* What becomes of one fingerprint when a claim of p ends.
SameHistory(f) ==
  counted'[f] = counted[f] /\ lastFailure'[f] = lastFailure[f] /\ heldUntil'[f] = heldUntil[f]

Keeps(f) ==
  /\ f \in DOMAIN records' <=> f \in DOMAIN records
  /\ f \in DOMAIN records' => records'[f] = records[f]
  /\ SameHistory(f)

Restores(p, f) ==
  /\ f \in DOMAIN records' <=> f \in DOMAIN previous[p]
  /\ f \in DOMAIN records' => records'[f] = previous[p][f]
  /\ SameHistory(f)

Clears(f) ==
  /\ f \notin DOMAIN records'
  /\ counted'[f] = 0 /\ lastFailure'[f] = lastFailure[f] /\ heldUntil'[f] = heldUntil[f]

FailsHere(p, f) ==
  /\ pc[p] = "failed" /\ f = Plan[p][failure[p].at]
  /\ f \in DOMAIN records' /\ records'[f] = FailedRecord(p)
  /\ counted'[f] = NextCount(counted[f], lastFailure[f], clock[p])
  /\ lastFailure'[f] = clock[p] /\ heldUntil'[f] = FailedRecord(p).next

\* A step that ends the claim of p.
Settles(p) ==
  /\ pc[p] \in Claimed /\ OwnsAll(p) /\ pc' = [pc EXCEPT ![p] = pc'[p]]
  /\ pc'[p] \in {"consume", "rollback"}
  /\ now' = now /\ clock' = clock /\ claims' = claims /\ previous' = previous
  /\ made' = made /\ failure' = failure
  /\ DOMAIN records' \subseteq Prints
  /\ \A f \in Prints :
       IF f \in Items(p) THEN FailsHere(p, f) \/ Clears(f) \/ Restores(p, f) ELSE Keeps(f)

-----------------------------------------------------------------------------
LEMMA PlansAreItems ==
  ASSUME AttemptConstants, NEW p \in Procs
  PROVE  /\ Len(Plan[p]) \in Nat \ {0} /\ Items(p) \subseteq Prints
         /\ \A i \in 1..Len(Plan[p]) : Plan[p][i] \in Items(p)
BY DEF AttemptConstants, Items

LEMMA PrunedIs ==
  ASSUME NEW t
  PROVE  /\ DOMAIN Pruned(t) = {f \in DOMAIN records : ~Forgotten(records[f], t)}
         /\ \A f \in DOMAIN Pruned(t) : Pruned(t)[f] = records[f]
BY DEF Pruned, Restrict

LEMMA OnlyIs ==
  ASSUME NEW s, NEW S
  PROVE  DOMAIN Only(s, S) = DOMAIN s \cap S /\ \A f \in DOMAIN Only(s, S) : Only(s, S)[f] = s[f]
BY DEF Only, Restrict

LEMMA WithoutIs ==
  ASSUME NEW s, NEW S
  PROVE  /\ DOMAIN Without(s, S) = DOMAIN s \ S
         /\ \A f \in DOMAIN Without(s, S) : Without(s, S)[f] = s[f]
BY DEF Without, Restrict

LEMMA RestoredIs ==
  ASSUME NEW p, NEW S
  PROVE  /\ DOMAIN Restored(p, S) = (DOMAIN previous[p] \cap S) \cup (DOMAIN records \ S)
         /\ \A f \in DOMAIN Restored(p, S) :
              Restored(p, S)[f] = IF f \in S THEN previous[p][f] ELSE records[f]
BY DEF Restored

-----------------------------------------------------------------------------
(* Typed and Advanced.                                                     *)
LEMMA NextCountIs ==
  ASSUME NEW n \in Nat, NEW last, NEW t
  PROVE  NextCount(n, last, t) \in Nat /\ NextCount(n, last, t) > 0
BY DEF NextCount

LEMMA FailedRecordIs ==
  ASSUME AttemptConstants, BackoffIsTime, Typed, Stocked, NEW p \in Procs, Advanced(p),
         pc[p] = "failed"
  PROVE  /\ FailedRecord(p) \in Records /\ Loads(FailedRecord(p))
         /\ FailedRecord(p).state # "in_flight"
         /\ FailedRecord(p).last = clock[p] /\ FailedRecord(p).next > 0
         /\ FailedRecord(p).count > 0
         /\ Plan[p][failure[p].at] \in Items(p)
<1> DEFINE x == failure[p]
           f == Plan[p][x.at]
           c == IF f \in DOMAIN previous[p]
                  THEN NextCount(previous[p][f].count, previous[p][f].last, clock[p]) ELSE 1
<1>1. x \in Failings /\ x.at \in 1..Len(Plan[p]) /\ clock[p] \in Nat /\ clock[p] > 0
  BY DEF Typed, Advanced, Failings
<1>2. f \in Items(p)
  BY <1>1, PlansAreItems
<1>3. c \in Nat /\ c > 0
  <2>1. CASE f \in DOMAIN previous[p]
    <3>1. previous[p][f].count \in Nat /\ previous[p][f].last \in Nat
      <4>1. Whole(previous[p][f], now, claims)
        BY <2>1 DEF Stocked, Stored
      <4>2. previous[p][f] \in Records
        BY <4>1 DEF Whole
      <4>. QED BY <4>2 DEF Records
    <3>2. c = NextCount(previous[p][f].count, previous[p][f].last, clock[p])
      BY <2>1
    <3> HIDE DEF c
    <3>. QED BY <3>1, <3>2, NextCountIs
  <2>2. CASE f \notin DOMAIN previous[p]
    BY <2>2
  <2>. QED BY <2>1, <2>2
<1>4. Delay(x, c) \in Nat
  <2>1. Backoff(c) \in Nat /\ x.after \in Nat /\ TerminalHold \in Nat
    BY <1>1, <1>3 DEF BackoffIsTime, AttemptConstants, Failings
  <2>. QED BY <2>1 DEF Delay, Larger
<1>5. x.retry \in {"unknown", "retryable", "non_retryable"}
  BY <1>1 DEF Failings
<1>6. FailedRecord(p) =
        [state |-> FailureState(x.retry), id |-> <<>>, lease |-> 0,
         next |-> clock[p] + Delay(x, c), retry |-> x.retry, count |-> c, last |-> clock[p]]
  BY DEF FailedRecord
<1> HIDE DEF x, f, c
<1>7. FailedRecord(p) \in Records /\ FailedRecord(p).state # "in_flight"
  <2>1. clock[p] + Delay(x, c) \in Nat
    BY <1>1, <1>4
  <2>2. FailureState(x.retry) \in {"cooldown", "terminal_hold"}
    BY DEF FailureState
  <2> DEFINE id == <<>>
  <2>3. id \in Ids
    BY DEF Ids
  <2> HIDE DEF id
  <2>4. FailedRecord(p) =
        [state |-> FailureState(x.retry), id |-> id, lease |-> 0,
         next |-> clock[p] + Delay(x, c), retry |-> x.retry, count |-> c, last |-> clock[p]]
    BY <1>6 DEF id
  <2>5. x.retry \in {"", "unknown", "retryable", "non_retryable"}
    BY <1>5
  <2>6. clock[p] \in Nat /\ c \in Nat
    BY <1>1, <1>3
  <2> DEFINE n == clock[p] + Delay(x, c)
             st == FailureState(x.retry)
  <2>7. n \in Nat /\ st \in {"in_flight", "cooldown", "terminal_hold"} /\ st # "in_flight"
    BY <2>1, <2>2
  <2>8. FailedRecord(p) = [state |-> st, id |-> id, lease |-> 0,
         next |-> n, retry |-> x.retry, count |-> c, last |-> clock[p]]
    BY <2>4
  <2> HIDE DEF n, st
  <2>9. [state |-> st, id |-> id, lease |-> 0,
         next |-> n, retry |-> x.retry, count |-> c, last |-> clock[p]] \in Records
    BY <2>3, <2>5, <2>6, <2>7 DEF Records
  <2>10. FailedRecord(p).state = st
    BY <2>8
  <2>. QED BY <2>7, <2>8, <2>9, <2>10
<1>8. Loads(FailedRecord(p)) /\ FailedRecord(p).next > 0
  BY <1>1, <1>4, <1>5, <1>6 DEF Loads, FailureState
<1>. QED BY <1>1, <1>2, <1>3, <1>6, <1>7, <1>8 DEF f, x

\* What a claim of p finds in the file once the forgotten records are gone.
Kept(p) == {f \in DOMAIN records : ~Forgotten(records[f], clock[p])}

\* The record that a claim of p writes.
Claimant(p, f) ==
  [state |-> "in_flight", id |-> <<p, claims[p] + 1>>, lease |-> clock[p] + Lease,
   next |-> 0, retry |-> "", count |-> CountOf(previous'[p], f), last |-> LastOf(previous'[p], f)]

LEMMA ClaimantIs ==
  ASSUME NEW p, NEW f
  PROVE  /\ Claimant(p, f).state = "in_flight" /\ Claimant(p, f).id = <<p, claims[p] + 1>>
         /\ Claimant(p, f).lease = clock[p] + Lease /\ Claimant(p, f).next = 0
         /\ Claimant(p, f).count = CountOf(previous'[p], f)
         /\ Claimant(p, f).last = LastOf(previous'[p], f)
BY DEF Claimant

LEMMA ClaimDoes ==
  ASSUME Typed, NEW p \in Procs, Claim(p)
  PROVE  /\ pc[p] = "claim" /\ pc' = [pc EXCEPT ![p] = "create"]
         /\ claims' = [claims EXCEPT ![p] = @ + 1]
         /\ UNCHANGED <<now, clock, made, failure, history>>
         /\ previous' = [previous EXCEPT ![p] = previous'[p]]
         /\ DOMAIN previous'[p] = Kept(p) \cap Items(p)
         /\ \A f \in DOMAIN previous'[p] :
              previous'[p][f] = records[f] /\ ~Blocks(records[f], clock[p])
         /\ DOMAIN records' = Items(p) \cup Kept(p)
         /\ \A f \in DOMAIN records' :
              IF f \in Items(p)
                THEN records'[f] = Claimant(p, f)
                ELSE records'[f] = records[f]
<1> DEFINE kept == Pruned(clock[p])
<1>1. DOMAIN kept = Kept(p) /\ \A f \in DOMAIN kept : kept[f] = records[f]
  BY PrunedIs DEF Kept
<1>2. /\ pc[p] = "claim" /\ ~Refused(p, kept) /\ pc' = [pc EXCEPT ![p] = "create"]
      /\ claims' = [claims EXCEPT ![p] = @ + 1]
      /\ UNCHANGED <<now, clock, made, failure, history>>
      /\ previous' = [previous EXCEPT ![p] = Only(kept, Items(p))]
      /\ records' = [f \in Items(p) \cup DOMAIN kept |->
                      IF f \in Items(p) THEN ClaimedRecord(p, kept, f) ELSE kept[f]]
  BY DEF Claim, Goto
<1> HIDE DEF kept
<1>3. previous'[p] = Only(kept, Items(p))
  BY <1>2 DEF Typed
<1>4. /\ DOMAIN previous'[p] = DOMAIN kept \cap Items(p)
      /\ \A f \in DOMAIN previous'[p] : previous'[p][f] = kept[f]
  <2> DEFINE o == Only(kept, Items(p))
  <2>1. DOMAIN o = DOMAIN kept \cap Items(p) /\ \A f \in DOMAIN o : o[f] = kept[f]
    BY OnlyIs
  <2> HIDE DEF o
  <2>. QED BY <1>3, <2>1 DEF o
<1>5. \A f \in DOMAIN previous'[p] : ~Blocks(records[f], clock[p])
  BY <1>1, <1>2, <1>4 DEF Refused
<1>6. DOMAIN records' = Items(p) \cup Kept(p)
  BY <1>1, <1>2
<1>7. ASSUME NEW f \in Items(p)
      PROVE  records'[f] = Claimant(p, f)
  BY <1>1, <1>2, <1>4, <1>7 DEF ClaimedRecord, Claimant, CountOf, LastOf
<1>8. ASSUME NEW f \in DOMAIN records', f \notin Items(p)
      PROVE  records'[f] = records[f]
  BY <1>1, <1>2, <1>8
<1>. QED BY <1>1, <1>2, <1>3, <1>4, <1>5, <1>6, <1>7, <1>8 DEF Claimant

LEMMA TypedStep ==
  ASSUME AttemptConstants, BackoffIsTime, Typed, Stocked, NEW p \in Procs, Advanced(p),
         Command(p) \/ CommandCrash(p)
  PROVE  Typed'
<1>1. /\ clock[p] \in Nat /\ now \in Nat /\ made[p] \in Nat /\ claims[p] \in 0..MaxClaims
      /\ MaxClaims \in Nat
  BY DEF Typed, AttemptConstants
<1>2. NoFailure \in Failings /\ 0 \in 0..now
  BY <1>1 DEF NoFailure, Failings
<1>3. CASE BeginClaim(p)
  BY <1>1, <1>3 DEF Typed, BeginClaim, Goto, history
<1>4. CASE Claim(p)
  <2>1. previous' = [q \in Procs |-> previous'[q]]
    BY <1>4, ClaimDoes DEF Typed
  <2>2. claims' \in [Procs -> 0..MaxClaims]
    <3>1. claims[p] < MaxClaims
      BY <1>4 DEF Advanced, Claim
    <3>2. claims' = [claims EXCEPT ![p] = @ + 1]
      BY <1>4 DEF Claim
    <3>. QED BY <1>1, <3>1, <3>2 DEF Typed
  <2>3. pc' = [pc EXCEPT ![p] = "create"] /\ UNCHANGED <<now, clock, made, failure, history>>
    BY <1>4, ClaimDoes
  <2>4. pc' \in [Procs -> Claimed \cup {"idle", "claim", "rollback", "consume"}]
    BY <2>3 DEF Typed, Claimed
  <2>. QED BY <2>1, <2>2, <2>3, <2>4 DEF Typed, history
<1>5. CASE ClaimRefused(p)
  BY <1>2, <1>5 DEF Typed, ClaimRefused, Ended, Goto, history
<1>6. CASE Create(p)
  BY <1>1, <1>6 DEF Typed, Create, Goto, history, Claimed
<1>7. CASE Cancelled(p)
  <2>1. pc' \in [Procs -> Claimed \cup {"idle", "claim", "rollback", "consume"}]
    BY <1>7 DEF Typed, Cancelled, Claimed
  <2>. QED BY <1>7, <2>1 DEF Typed, Cancelled, history
<1>8. ASSUME NEW fault \in CreationFaults, NEW saved \in BOOLEAN, CreateFails(p, fault, saved)
      PROVE  Typed'
  <2> DEFINE y == [at |-> made[p] + 1, done |-> made[p], retry |-> fault.retry, after |-> fault.after]
  <2>1. y \in Failings
    <3>1. fault.retry \in {"unknown", "retryable", "non_retryable"} /\ fault.after \in Nat
      BY DEF AttemptConstants
    <3>. QED BY <1>1, <3>1 DEF Failings
  <2>2. failure' = [failure EXCEPT ![p] = y]
    BY <1>8 DEF CreateFails
  <2> HIDE DEF y
  <2>3. failure' \in [Procs -> Failings]
    BY <2>1, <2>2 DEF Typed
  <2>4. made' \in [Procs -> Nat] /\ clock' \in [Procs -> 0..now]
    BY <1>1, <1>8 DEF Typed, CreateFails
  <2>5. pc' \in [Procs -> Claimed \cup {"idle", "claim", "rollback", "consume"}]
    BY <1>8 DEF Typed, CreateFails, Goto, Claimed
  <2>6. UNCHANGED <<now, claims, previous, history>>
    BY <1>8 DEF CreateFails
  <2>. QED BY <2>3, <2>4, <2>5, <2>6 DEF Typed, history
<1>9. CASE CompleteSuccess(p)
  BY <1>9 DEF Typed, CompleteSuccess, Goto
<1>10. CASE CompleteFailure(p)
  <2> DEFINE x == failure[p]
             f == Plan[p][x.at]
             done == {Plan[p][i] : i \in 1..x.done}
  <2>1. FailedRecord(p).next \in Nat /\ f \in Prints
    BY <1>10, FailedRecordIs, PlansAreItems DEF CompleteFailure, Records
  <2>2. NextCount(counted[f], lastFailure[f], clock[p]) \in Nat
    BY <1>1, <2>1 DEF NextCount, Typed
  <2>3. counted' \in [Prints -> Nat]
    <3>1. counted' = [g \in Prints |->
            IF g = f THEN NextCount(counted[f], lastFailure[f], clock[p])
                     ELSE IF g \in done THEN 0 ELSE counted[g]]
      BY <1>10 DEF CompleteFailure
    <3> HIDE DEF f, done
    <3>. QED BY <2>2, <3>1 DEF Typed
  <2>4. lastFailure' \in [Prints -> Nat] /\ heldUntil' \in [Prints -> Nat]
    BY <1>1, <1>10, <2>1 DEF CompleteFailure, Typed
  <2>5. pc' \in [Procs -> Claimed \cup {"idle", "claim", "rollback", "consume"}]
    BY <1>10 DEF Typed, CompleteFailure, Goto
  <2>6. UNCHANGED <<now, clock, claims, previous, made, failure>>
    BY <1>10 DEF CompleteFailure
  <2>. QED BY <2>3, <2>4, <2>5, <2>6 DEF Typed
<1>11. CASE ReleaseClaim(p)
  BY <1>11 DEF Typed, ReleaseClaim, Goto, history
<1>12. CASE StoreFails(p)
  BY <1>12 DEF Typed, StoreFails, Goto, history
<1>13. CASE Delete(p)
  BY <1>1, <1>13 DEF Typed, Delete, history
<1>14. CASE Finish(p)
  BY <1>2, <1>14 DEF Typed, Finish, Ended, Goto, history
<1>15. CASE Exit(p)
  BY <1>15 DEF Typed, Exit, Goto, history
<1>16. CASE CommandCrash(p)
  BY <1>2, <1>16 DEF Typed, CommandCrash, Ended, Goto, history
<1>. QED BY <1>3, <1>4, <1>5, <1>6, <1>7, <1>8, <1>9, <1>10, <1>11, <1>12, <1>13, <1>14, <1>15,
            <1>16 DEF Command

LEMMA AdvancedStep ==
  ASSUME AttemptConstants, Typed, NEW p \in Procs, Advanced(p), Command(p) \/ CommandCrash(p)
  PROVE  Advanced(p)'
<1>1. /\ clock[p] \in Nat /\ now \in Nat \ {0} /\ made[p] \in Nat /\ Len(Plan[p]) \in Nat \ {0}
  <2>1. Len(Plan[p]) \in Nat \ {0}
    BY PlansAreItems
  <2>2. MaxTime \in Nat
    BY DEF AttemptConstants
  <2>3. clock[p] \in Nat /\ now \in Nat \ {0} /\ made[p] \in Nat
    BY <2>2 DEF Typed
  <2>. QED BY <2>1, <2>3
<1>2. CASE BeginClaim(p)
  BY <1>1, <1>2 DEF Typed, Advanced, BeginClaim, Goto
<1>3. CASE Claim(p)
  <2>1. pc' = [pc EXCEPT ![p] = "create"] /\ UNCHANGED <<clock, made, failure>> /\ pc[p] = "claim"
    BY <1>3, ClaimDoes
  <2>2. made[p] = 0
    BY <2>1 DEF Advanced
  <2>. QED BY <1>1, <2>1, <2>2 DEF Typed, Advanced
<1>4. CASE Ended(p)
  BY <1>1, <1>4 DEF Typed, Advanced, Ended, Goto
<1>5. CASE Create(p)
  BY <1>1, <1>5 DEF Typed, Advanced, Create, Goto
<1>6. CASE Cancelled(p)
  BY <1>1, <1>6 DEF Typed, Advanced, Cancelled
<1>7. ASSUME NEW fault \in CreationFaults, NEW saved \in BOOLEAN, CreateFails(p, fault, saved)
      PROVE  Advanced(p)'
  <2>1. failure'[p].at = made[p] + 1 /\ failure'[p].done = made[p]
    BY <1>7 DEF Typed, CreateFails
  <2>2. made'[p] \in {made[p], made[p] + 1} /\ clock'[p] = now /\ pc'[p] = "failed" /\ pc[p] = "create"
    BY <1>1, <1>7 DEF Typed, CreateFails, Goto
  <2>. QED BY <1>1, <2>1, <2>2 DEF Advanced
<1>8. CASE CompleteSuccess(p) \/ CompleteFailure(p) \/ ReleaseClaim(p) \/ StoreFails(p) \/ Exit(p)
  BY <1>1, <1>8 DEF Typed, Advanced, CompleteSuccess, CompleteFailure, ReleaseClaim, StoreFails,
                    Exit, Goto, Claimed
<1>9. CASE Delete(p)
  BY <1>1, <1>9 DEF Typed, Advanced, Delete
<1>. QED BY <1>2, <1>3, <1>4, <1>5, <1>6, <1>7, <1>8, <1>9
         DEF Command, ClaimRefused, Finish, CommandCrash

LEMMA SuccessSettles ==
  ASSUME AttemptConstants, Typed, Stocked, NEW p \in Procs, CompleteSuccess(p)
  PROVE  Settles(p)
<1>1. /\ OwnsAll(p) /\ pc[p] = "success" /\ pc' = [pc EXCEPT ![p] = "consume"]
      /\ UNCHANGED <<now, clock, claims, previous, made, failure, lastFailure, heldUntil>>
      /\ records' = Without(records, Items(p))
      /\ counted' = [f \in Prints |-> IF f \in Items(p) THEN 0 ELSE counted[f]]
  BY DEF CompleteSuccess, Goto
<1>2. DOMAIN records' = DOMAIN records \ Items(p) /\ \A f \in DOMAIN records' : records'[f] = records[f]
  <2> DEFINE o == Without(records, Items(p))
  <2>1. DOMAIN o = DOMAIN records \ Items(p) /\ \A f \in DOMAIN o : o[f] = records[f]
    BY WithoutIs
  <2>2. records' = o
    BY <1>1
  <2> HIDE DEF o
  <2>. QED BY <2>1, <2>2
<1>3. pc'[p] = "consume" /\ pc[p] \in Claimed /\ pc' = [pc EXCEPT ![p] = pc'[p]]
  BY <1>1 DEF Claimed, Typed
<1>4. ASSUME NEW f \in Prints PROVE IF f \in Items(p) THEN Clears(f) ELSE Keeps(f)
  BY <1>1, <1>2 DEF Clears, Keeps, SameHistory
<1>5. DOMAIN records' \subseteq Prints
  BY <1>2 DEF Stocked, Stored
<1>. QED BY <1>1, <1>3, <1>4, <1>5 DEF Settles

LEMMA FailureSettles ==
  ASSUME AttemptConstants, Typed, Stocked, NEW p \in Procs, Advanced(p), CompleteFailure(p)
  PROVE  Settles(p)
<1> DEFINE f == Plan[p][failure[p].at]
           done == {Plan[p][i] : i \in 1..failure[p].done}
           rest == Restored(p, Items(p))
           others == Without(rest, done)
<1>1. f \in Items(p) /\ done \subseteq Items(p) /\ pc[p] = "failed" /\ Items(p) \subseteq Prints
  <2>1. failure[p].at \in 1..Len(Plan[p]) /\ failure[p].done < failure[p].at /\ pc[p] = "failed"
    BY DEF Advanced, CompleteFailure
  <2>2. failure[p].done \in Nat /\ Len(Plan[p]) \in Nat
    BY PlansAreItems DEF Typed, Failings
  <2>. QED BY <2>1, <2>2, PlansAreItems
<1>2. records' = [g \in {f} \cup DOMAIN others |-> IF g = f THEN FailedRecord(p) ELSE others[g]]
  BY DEF CompleteFailure
<1>3. /\ DOMAIN rest = (DOMAIN previous[p] \cap Items(p)) \cup (DOMAIN records \ Items(p))
      /\ \A g \in DOMAIN rest : rest[g] = IF g \in Items(p) THEN previous[p][g] ELSE records[g]
  BY RestoredIs
<1>4. DOMAIN others = DOMAIN rest \ done /\ \A g \in DOMAIN others : others[g] = rest[g]
  BY WithoutIs
<1>5. /\ OwnsAll(p) /\ pc' = [pc EXCEPT ![p] = "rollback"]
      /\ UNCHANGED <<now, clock, claims, previous, made, failure>>
  BY DEF CompleteFailure, Goto
<1>6. counted' = [g \in Prints |->
          IF g = f THEN NextCount(counted[f], lastFailure[f], clock[p])
                   ELSE IF g \in done THEN 0 ELSE counted[g]]
  BY DEF CompleteFailure
<1>7. /\ lastFailure' = [lastFailure EXCEPT ![f] = clock[p]]
      /\ heldUntil' = [heldUntil EXCEPT ![f] = FailedRecord(p).next]
  BY DEF CompleteFailure
<1>8. f = Plan[p][failure[p].at]
  OBVIOUS
<1> HIDE DEF f, done, rest, others
<1>9. DOMAIN records' = {f} \cup DOMAIN others
  BY <1>2
<1>10. DOMAIN records' \subseteq Prints
  BY <1>1, <1>3, <1>4, <1>9 DEF Stocked, Stored
<1>11. ASSUME NEW g \in Prints
       PROVE  /\ lastFailure'[g] = (IF g = f THEN clock[p] ELSE lastFailure[g])
              /\ heldUntil'[g] = (IF g = f THEN FailedRecord(p).next ELSE heldUntil[g])
              /\ g = f => counted'[g] = NextCount(counted[f], lastFailure[f], clock[p])
              /\ g # f /\ g \in done => counted'[g] = 0
              /\ g # f /\ g \notin done => counted'[g] = counted[g]
  <2>1. /\ lastFailure'[g] = (IF g = f THEN clock[p] ELSE lastFailure[g])
        /\ heldUntil'[g] = (IF g = f THEN FailedRecord(p).next ELSE heldUntil[g])
    BY <1>7 DEF Typed
  <2> DEFINE n == NextCount(counted[f], lastFailure[f], clock[p])
  <2>2. counted'[g] = IF g = f THEN n ELSE IF g \in done THEN 0 ELSE counted[g]
    BY <1>6
  <2> HIDE DEF n
  <2>3. /\ g = f => counted'[g] = n
        /\ g # f /\ g \in done => counted'[g] = 0
        /\ g # f /\ g \notin done => counted'[g] = counted[g]
    BY <1>1, <2>2
  <2>. QED BY <2>1, <2>3 DEF n
<1>12. ASSUME NEW g \in Items(p)
       PROVE  FailsHere(p, g) \/ Clears(g) \/ Restores(p, g)
  <2>1. g \in Prints
    BY <1>1
  <2>2. CASE g = f
    BY <1>1, <1>2, <1>8, <1>9, <1>11, <2>1, <2>2 DEF FailsHere
  <2>3. CASE g # f /\ g \in done
    BY <1>4, <1>9, <1>11, <2>1, <2>3 DEF Clears
  <2>4. CASE g # f /\ g \notin done
    <3>1. g \in DOMAIN records' <=> g \in DOMAIN previous[p]
      BY <1>3, <1>4, <1>9, <1>12, <2>4
    <3>2. g \in DOMAIN records' => records'[g] = previous[p][g]
      BY <1>2, <1>3, <1>4, <1>9, <1>12, <2>4
    <3>. QED BY <1>11, <2>1, <2>4, <3>1, <3>2 DEF Restores, SameHistory
  <2>. QED BY <2>2, <2>3, <2>4
<1>13. ASSUME NEW g \in Prints, g \notin Items(p)
       PROVE  Keeps(g)
  <2>1. g # f /\ g \notin done
    BY <1>1, <1>13
  <2>2. g \in DOMAIN records' <=> g \in DOMAIN records
    BY <1>3, <1>4, <1>9, <1>13, <2>1
  <2>3. g \in DOMAIN records' => records'[g] = records[g]
    BY <1>2, <1>3, <1>4, <1>9, <1>13, <2>1
  <2>. QED BY <1>11, <2>1, <2>2, <2>3 DEF Keeps, SameHistory
<1>14. pc'[p] = "rollback" /\ pc[p] \in Claimed /\ pc' = [pc EXCEPT ![p] = pc'[p]]
  BY <1>1, <1>5 DEF Claimed, Typed
<1>. QED BY <1>5, <1>10, <1>12, <1>13, <1>14 DEF Settles

LEMMA ReleaseSettles ==
  ASSUME AttemptConstants, Typed, Stocked, NEW p \in Procs, ReleaseClaim(p)
  PROVE  /\ Settles(p)
         /\ \A f \in Items(p) : Restores(p, f)
<1>1. /\ OwnsAll(p) /\ pc[p] \in Claimed /\ pc' = [pc EXCEPT ![p] = "rollback"]
      /\ UNCHANGED <<now, clock, claims, previous, made, failure, history>>
      /\ records' = Restored(p, Items(p))
  BY DEF ReleaseClaim, Goto, Claimed
<1>2. /\ DOMAIN records' = (DOMAIN previous[p] \cap Items(p)) \cup (DOMAIN records \ Items(p))
      /\ \A f \in DOMAIN records' : records'[f] = IF f \in Items(p) THEN previous[p][f] ELSE records[f]
  <2> DEFINE o == Restored(p, Items(p))
  <2>1. /\ DOMAIN o = (DOMAIN previous[p] \cap Items(p)) \cup (DOMAIN records \ Items(p))
        /\ \A f \in DOMAIN o : o[f] = IF f \in Items(p) THEN previous[p][f] ELSE records[f]
    BY RestoredIs
  <2>2. records' = o
    BY <1>1
  <2> HIDE DEF o
  <2>. QED BY <2>1, <2>2
<1>3. pc'[p] = "rollback" /\ pc' = [pc EXCEPT ![p] = pc'[p]]
  BY <1>1 DEF Typed
<1>4. \A f : SameHistory(f)
  BY <1>1 DEF SameHistory, history
<1>5. \A f \in Items(p) : Restores(p, f)
  BY <1>2, <1>4 DEF Restores
<1>6. \A f : f \notin Items(p) => Keeps(f)
  BY <1>2, <1>4 DEF Keeps
<1>7. DOMAIN records' \subseteq Prints
  BY <1>2 DEF Stocked, Stored
<1>. QED BY <1>1, <1>3, <1>5, <1>6, <1>7 DEF Settles

LEMMA StepKinds ==
  ASSUME AttemptConstants, Typed, Stocked, NEW p \in Procs, Advanced(p),
         Command(p) \/ CommandCrash(p)
  PROVE  Quiet(p) \/ Claim(p) \/ Settles(p)
<1>1. CASE BeginClaim(p)
  BY <1>1 DEF Typed, BeginClaim, Goto, history, Quiet, OthersKeep, Working, Claimed
<1>2. CASE Ended(p) /\ UNCHANGED <<now, records, claims, history>>
  BY <1>2 DEF Typed, Ended, Goto, history, Quiet, OthersKeep, Working, Claimed
<1>3. CASE Create(p)
  BY <1>3 DEF Typed, Create, Goto, history, Quiet, OthersKeep, Working, Claimed
<1>4. CASE Cancelled(p)
  BY <1>4 DEF Typed, Cancelled, history, Quiet, OthersKeep, Working, Claimed
<1>5. ASSUME NEW fault \in CreationFaults, NEW saved \in BOOLEAN, CreateFails(p, fault, saved)
      PROVE  Quiet(p)
  BY <1>5 DEF Typed, CreateFails, Goto, history, Quiet, OthersKeep, Working, Claimed
<1>6. CASE StoreFails(p) \/ Exit(p)
  BY <1>6 DEF Typed, StoreFails, Exit, Goto, history, Quiet, OthersKeep, Working, Claimed
<1>7. CASE Delete(p)
  BY <1>7 DEF Typed, Delete, history, Quiet, OthersKeep, Working, Claimed
<1>. QED BY <1>1, <1>2, <1>3, <1>4, <1>5, <1>6, <1>7, SuccessSettles, FailureSettles, ReleaseSettles
         DEF Command, ClaimRefused, Finish, CommandCrash

-----------------------------------------------------------------------------
(* Stocked.                                                                *)
LEMMA WholeStays ==
  ASSUME NEW t \in Nat, NEW u \in Nat, t <= u, NEW c \in [Procs -> Nat], NEW d \in [Procs -> Nat],
         \A q \in Procs : c[q] <= d[q], NEW r, Whole(r, t, c)
  PROVE  Whole(r, u, d)
<1>1. r.last \in Nat /\ r.id \in Ids
  BY DEF Whole, Records
<1>2. CASE r.state = "in_flight"
  <2>1. r.id \in Procs \X Nat /\ r.id[1] \in Procs /\ r.id[2] \in Nat /\ r.id[2] <= c[r.id[1]]
    BY <1>2 DEF Whole
  <2>2. c[r.id[1]] \in Nat /\ d[r.id[1]] \in Nat /\ c[r.id[1]] <= d[r.id[1]]
    BY <2>1
  <2>. QED BY <1>1, <1>2, <2>1, <2>2 DEF Whole
<1>3. CASE r.state # "in_flight"
  BY <1>1, <1>3 DEF Whole
<1>. QED BY <1>2, <1>3

LEMMA StockedQuiet ==
  ASSUME Typed, Stocked, NEW p \in Procs, Quiet(p)
  PROVE  Stocked'
<1>1. now' = now /\ claims' = claims /\ records' = records
  BY DEF Quiet
<1>2. Stored(records)'
  BY <1>1 DEF Stocked, Stored
<1>3. ASSUME NEW q \in Procs
      PROVE  (Stored(previous[q]) /\ DOMAIN previous[q] \subseteq Items(q))'
  <2>1. previous'[q] = previous[q] \/ previous'[q] = <<>>
    BY DEF Quiet, OthersKeep
  <2>2. CASE previous'[q] = previous[q]
    BY <1>1, <2>2 DEF Stocked, Stored, Items
  <2>3. CASE previous'[q] = <<>>
    <3>1. DOMAIN previous'[q] = {}
      BY <2>3
    <3>. QED BY <3>1 DEF Stored
  <2>. QED BY <2>1, <2>2, <2>3
<1>. QED BY <1>2, <1>3 DEF Stocked

LEMMA StockedTick ==
  ASSUME AttemptConstants, Typed, Stocked, Tick
  PROVE  Stocked'
<1>1. /\ now \in Nat /\ now' \in Nat /\ now <= now' /\ claims \in [Procs -> Nat]
      /\ claims' = claims /\ records' = records /\ previous' = previous
  BY DEF Tick, Typed, history, AttemptConstants
<1>2. \A r : Whole(r, now, claims) => Whole(r, now', claims')
  BY <1>1, WholeStays
<1>. QED BY <1>1, <1>2 DEF Stocked, Stored, Items

LEMMA StockedClaim ==
  ASSUME AttemptConstants, Typed, Stocked, NEW p \in Procs, Advanced(p), Claim(p)
  PROVE  Stocked'
<1>1. /\ now \in Nat /\ now' = now /\ claims \in [Procs -> Nat] /\ claims[p] \in Nat
      /\ clock[p] \in Nat /\ clock[p] > 0 /\ Lease \in Nat /\ Items(p) \subseteq Prints
  <2>1. pc[p] = "claim" /\ now' = now
    BY ClaimDoes
  <2>2. claims \in [Procs -> Nat] /\ claims[p] \in Nat /\ now \in Nat /\ clock[p] \in Nat
    BY DEF Typed, AttemptConstants
  <2>. QED BY <2>1, <2>2, PlansAreItems DEF AttemptConstants, Advanced
<1>2. claims' = [claims EXCEPT ![p] = @ + 1]
  BY ClaimDoes
<1>3. claims' \in [Procs -> Nat] /\ (\A q \in Procs : claims[q] <= claims'[q]) /\ claims'[p] = claims[p] + 1
  BY <1>1, <1>2
<1>4. \A r : Whole(r, now, claims) => Whole(r, now', claims')
  BY <1>1, <1>3, WholeStays
<1>5. /\ DOMAIN previous'[p] \subseteq Items(p)
      /\ \A f \in DOMAIN previous'[p] : f \in DOMAIN records /\ previous'[p][f] = records[f]
  BY ClaimDoes DEF Kept
<1>6. \A f \in DOMAIN previous'[p] : Whole(previous'[p][f], now', claims') /\ f \in Prints
  BY <1>4, <1>5 DEF Stocked, Stored
<1>7. ASSUME NEW f \in Items(p)
      PROVE  Whole(Claimant(p, f), now', claims')
  <2>1. /\ CountOf(previous'[p], f) \in Nat /\ LastOf(previous'[p], f) \in Nat
        /\ LastOf(previous'[p], f) <= now
        /\ LastOf(previous'[p], f) = 0 <=> CountOf(previous'[p], f) = 0
    <3>1. CASE f \in DOMAIN previous'[p]
      <4>1. Whole(previous'[p][f], now, claims')
        BY <1>1, <1>6, <3>1
      <4>. QED BY <3>1, <4>1 DEF CountOf, LastOf, Whole, Records
    <3>2. CASE f \notin DOMAIN previous'[p]
      BY <1>1, <3>2 DEF CountOf, LastOf
    <3>. QED BY <3>1, <3>2
  <2> DEFINE id == <<p, claims[p] + 1>>
             n == CountOf(previous'[p], f)
             t == LastOf(previous'[p], f)
             e == clock[p] + Lease
  <2>2. id \in Ids /\ id \in Procs \X Nat /\ id[2] <= claims'[id[1]]
    BY <1>1, <1>3 DEF Ids
  <2>3. e \in Nat /\ e > 0
    BY <1>1
  <2>4. Claimant(p, f) = [state |-> "in_flight", id |-> id, lease |-> e, next |-> 0, retry |-> "",
                          count |-> n, last |-> t]
    BY DEF Claimant
  <2>5. n \in Nat /\ t \in Nat /\ t <= now' /\ (t = 0 <=> n = 0)
    BY <1>1, <2>1
  <2> HIDE DEF id, n, t, e
  <2>6. [state |-> "in_flight", id |-> id, lease |-> e, next |-> 0, retry |-> "",
         count |-> n, last |-> t] \in Records
    BY <2>2, <2>3, <2>5 DEF Records
  <2> DEFINE c == Claimant(p, f)
  <2>7. /\ c \in Records /\ c.state = "in_flight" /\ c.id = id /\ c.lease = e /\ c.next = 0
        /\ c.count = n /\ c.last = t
    <3>1. c \in Records
      BY <2>4, <2>6
    <3>. QED BY <3>1, ClaimantIs DEF id, n, t, e
  <2> HIDE DEF c
  <2>8. Whole(c, now', claims')
    BY <2>2, <2>3, <2>5, <2>7 DEF Whole, Loads
  <2>. QED BY <2>8 DEF c
<1>8. Stored(records)'
  <2>1. DOMAIN records' \subseteq Prints
    <3>1. DOMAIN records' = Items(p) \cup Kept(p)
      BY ClaimDoes
    <3>2. Kept(p) \subseteq Prints
      BY DEF Kept, Stocked, Stored
    <3>. QED BY <1>1, <3>1, <3>2
  <2>2. ASSUME NEW f \in DOMAIN records' PROVE Whole(records'[f], now', claims')
    <3>1. CASE f \in Items(p)
      BY <1>7, <3>1, ClaimDoes
    <3>2. CASE f \notin Items(p)
      <4>1. f \in DOMAIN records /\ records'[f] = records[f]
        BY <3>2, ClaimDoes DEF Kept
      <4>. QED BY <1>4, <4>1 DEF Stocked, Stored
    <3>. QED BY <3>1, <3>2
  <2>. QED BY <2>1, <2>2 DEF Stored
<1>9. ASSUME NEW q \in Procs
      PROVE  (Stored(previous[q]) /\ DOMAIN previous[q] \subseteq Items(q))'
  <2>1. CASE q = p
    BY <1>1, <1>5, <1>6, <2>1 DEF Stored, Items
  <2>2. CASE q # p
    <3>1. previous' = [previous EXCEPT ![p] = previous'[p]]
      BY ClaimDoes
    <3>2. previous'[q] = previous[q]
      BY <2>2, <3>1 DEF Typed
    <3>. QED BY <1>4, <3>2 DEF Stocked, Stored, Items
  <2>. QED BY <2>1, <2>2
<1>. QED BY <1>8, <1>9 DEF Stocked

LEMMA StockedSettles ==
  ASSUME AttemptConstants, BackoffIsTime, Typed, Stocked, NEW p \in Procs, Advanced(p), Settles(p)
  PROVE  Stocked'
<1>1. /\ now' = now /\ claims' = claims /\ previous' = previous /\ clock[p] \in Nat /\ now \in Nat
      /\ clock[p] <= now /\ clock[p] > 0
  BY DEF Settles, Typed, Advanced, Claimed
<1>2. pc[p] = "failed" => Whole(FailedRecord(p), now, claims)
  <2>1. pc[p] = "failed" =>
          /\ FailedRecord(p) \in Records /\ Loads(FailedRecord(p))
          /\ FailedRecord(p).state # "in_flight" /\ FailedRecord(p).last = clock[p]
          /\ FailedRecord(p).count > 0
    BY FailedRecordIs
  <2>. QED BY <1>1, <2>1 DEF Whole
<1>3. DOMAIN records' \subseteq Prints
  BY DEF Settles
<1>4. ASSUME NEW f \in DOMAIN records' PROVE Whole(records'[f], now, claims)
  <2>1. \/ pc[p] = "failed" /\ records'[f] = FailedRecord(p)
        \/ f \in DOMAIN previous[p] /\ records'[f] = previous[p][f]
        \/ f \in DOMAIN records /\ records'[f] = records[f]
    BY <1>3 DEF Settles, FailsHere, Clears, Restores, Keeps
  <2>. QED BY <1>2, <2>1 DEF Stocked, Stored
<1>. QED BY <1>1, <1>3, <1>4 DEF Stocked, Stored, Items

-----------------------------------------------------------------------------
(* Matching.                                                               *)
LEMMA MatchingQuiet ==
  ASSUME Typed, Matching, NEW p \in Procs, Quiet(p)
  PROVE  Matching'
<1>1. /\ records' = records /\ claims' = claims
      /\ \A q \in Procs : previous'[q] = previous[q] \/ previous'[q] = <<>>
  BY DEF Quiet, OthersKeep
<1>2. ASSUME NEW r, NEW f, NEW q \in Procs, Matches(r, f, q)
      PROVE  Fits(r, f, q, pc'[q], claims'[q], previous'[q], clock'[q])
  <2>1. CASE q # p
    BY <1>1, <1>2, <2>1 DEF Matches, Quiet, OthersKeep
  <2>2. CASE q = p
    <3>1. /\ pc'[p] \in Claimed => pc[p] \in Claimed /\ previous'[p] = previous[p]
          /\ pc'[p] \in {"create", "success"} =>
               pc[p] \in {"create", "success"} /\ clock'[p] = clock[p]
      BY DEF Quiet, Working
    <3>. QED BY <1>1, <1>2, <2>2, <3>1 DEF Matches, Fits, Holds
  <2>. QED BY <2>1, <2>2
<1>3. \A q \in Procs, f \in DOMAIN records' : Matches(records[f], f, q)'
  BY <1>1, <1>2 DEF Matching, Matches
<1>4. ASSUME NEW q \in Procs, NEW o \in Procs, NEW f \in DOMAIN previous'[o]
      PROVE  Matches(previous[o][f], f, q)'
  <2>1. CASE previous'[o] = previous[o]
    BY <1>2, <1>4, <2>1 DEF Matching, Matches
  <2>2. CASE previous'[o] = <<>>
    BY <1>4, <2>2
  <2>. QED BY <1>1, <2>1, <2>2
<1>. QED BY <1>3, <1>4 DEF Matching

LEMMA MatchingClaim ==
  ASSUME Typed, Stocked, Matching, NEW p \in Procs, Claim(p)
  PROVE  Matching'
<1>1. /\ pc[p] = "claim" /\ pc' = [pc EXCEPT ![p] = "create"] /\ clock' = clock
      /\ claims' = [claims EXCEPT ![p] = @ + 1] /\ previous' = [previous EXCEPT ![p] = previous'[p]]
  BY ClaimDoes
<1>2. claims[p] \in Nat /\ pc'[p] = "create" /\ claims'[p] = claims[p] + 1
  BY <1>1 DEF Typed
<1>3. \A q \in Procs \ {p} : pc'[q] = pc[q] /\ claims'[q] = claims[q] /\ previous'[q] = previous[q]
  BY <1>1 DEF Typed
<1>4. ASSUME NEW r, NEW f, NEW q \in Procs, Matches(r, f, q), Whole(r, now, claims)
      PROVE  Fits(r, f, q, pc'[q], claims'[q], previous'[q], clock'[q])
  <2>1. CASE q # p
    BY <1>1, <1>3, <1>4, <2>1 DEF Matches
  <2>2. CASE q = p
    <3>1. ~Holds(r, p, pc'[p], claims'[p])
      <4>1. SUFFICES ASSUME r.state = "in_flight", r.id = <<p, claims[p] + 1>>
                     PROVE  FALSE
        BY <1>2 DEF Holds
      <4>2. r.id[2] <= claims[r.id[1]]
        BY <1>4, <4>1 DEF Whole
      <4>3. claims[p] + 1 <= claims[p]
        BY <4>1, <4>2
      <4>. QED BY <1>2, <4>3
    <3>. QED BY <2>2, <3>1 DEF Fits
  <2>. QED BY <2>1, <2>2
<1>5. ASSUME NEW f \in Items(p), NEW q \in Procs
      PROVE  Fits(records'[f], f, q, pc'[q], claims'[q], previous'[q], clock'[q])
  <2> DEFINE c == Claimant(p, f)
  <2>1. /\ c.id = <<p, claims[p] + 1>> /\ c.lease = clock[p] + Lease
        /\ c.count = CountOf(previous'[p], f) /\ c.last = LastOf(previous'[p], f)
    BY ClaimantIs
  <2>2. records'[f] = c /\ f \in DOMAIN records'
    BY <1>5, ClaimDoes
  <2> HIDE DEF c
  <2>3. CASE q = p
    BY <1>1, <1>2, <1>5, <2>1, <2>2, <2>3 DEF Fits
  <2>4. CASE q # p
    <3>1. c.id # <<q, claims'[q]>>
      BY <2>1, <2>4
    <3>. QED BY <2>2, <3>1 DEF Fits, Holds
  <2>. QED BY <2>3, <2>4
<1>6. ASSUME NEW f \in DOMAIN records, NEW q \in Procs
      PROVE  Fits(records[f], f, q, pc'[q], claims'[q], previous'[q], clock'[q])
  BY <1>4 DEF Matching, Stocked, Stored
<1>7. ASSUME NEW q \in Procs, NEW f \in DOMAIN records'
      PROVE  Matches(records[f], f, q)'
  <2>1. CASE f \in Items(p)
    BY <1>5, <2>1 DEF Matches
  <2>2. CASE f \notin Items(p)
    <3>1. f \in DOMAIN records /\ records'[f] = records[f]
      BY <2>2, ClaimDoes DEF Kept
    <3>. QED BY <1>6, <3>1 DEF Matches
  <2>. QED BY <2>1, <2>2
<1>8. ASSUME NEW q \in Procs, NEW o \in Procs, NEW f \in DOMAIN previous'[o]
      PROVE  Matches(previous[o][f], f, q)'
  <2>1. CASE o = p
    <3>1. f \in DOMAIN records /\ previous'[p][f] = records[f]
      BY <1>8, <2>1, ClaimDoes DEF Kept
    <3>. QED BY <1>6, <2>1, <3>1 DEF Matches
  <2>2. CASE o # p
    <3>1. previous'[o] = previous[o] /\ f \in DOMAIN previous[o]
      BY <1>3, <2>2
    <3>2. Matches(previous[o][f], f, q) /\ Whole(previous[o][f], now, claims)
      BY <3>1 DEF Matching, Stocked, Stored
    <3>. QED BY <1>4, <3>1, <3>2 DEF Matches
  <2>. QED BY <2>1, <2>2
<1>. QED BY <1>7, <1>8 DEF Matching

LEMMA MatchingSettles ==
  ASSUME AttemptConstants, BackoffIsTime, Typed, Stocked, Matching, NEW p \in Procs, Advanced(p),
         Settles(p)
  PROVE  Matching'
<1>1. /\ claims' = claims /\ previous' = previous /\ clock' = clock
      /\ pc' = [pc EXCEPT ![p] = pc'[p]] /\ pc'[p] \in {"consume", "rollback"}
  BY DEF Settles
<1>2. ASSUME NEW r, NEW f, NEW q \in Procs, Matches(r, f, q)
      PROVE  Fits(r, f, q, pc'[q], claims'[q], previous'[q], clock'[q])
  <2>1. CASE q # p
    <3>1. pc'[q] = pc[q]
      BY <1>1, <2>1 DEF Typed
    <3>. QED BY <1>1, <1>2, <3>1 DEF Matches
  <2>2. CASE q = p
    BY <1>1, <2>2 DEF Fits, Holds, Claimed
  <2>. QED BY <2>1, <2>2
<1>3. ASSUME NEW q \in Procs, NEW f \in DOMAIN records'
      PROVE  Matches(records[f], f, q)'
  <2>1. CASE f \in DOMAIN previous[p] /\ records'[f] = previous[p][f]
    BY <1>2, <2>1 DEF Matching, Matches
  <2>2. CASE pc[p] = "failed" /\ records'[f] = FailedRecord(p)
    BY <2>2, FailedRecordIs DEF Matches, Fits, Holds
  <2>3. CASE f \in DOMAIN records /\ records'[f] = records[f]
    BY <1>2, <2>3 DEF Matching, Matches
  <2>. QED BY <2>1, <2>2, <2>3 DEF Settles, FailsHere, Clears, Restores, Keeps
<1>4. ASSUME NEW q \in Procs, NEW o \in Procs, NEW f \in DOMAIN previous'[o]
      PROVE  Matches(previous[o][f], f, q)'
  BY <1>1, <1>2 DEF Matching, Matches
<1>. QED BY <1>3, <1>4 DEF Matching

LEMMA MatchingTick ==
  ASSUME Matching, Tick
  PROVE  Matching'
BY DEF Tick, Matching, Matches

-----------------------------------------------------------------------------
(* Freed, Leased and HoldsLast.                                            *)
LEMMA BlocksEnds ==
  ASSUME NEW r, NEW t \in Nat, NEW u \in Nat, t <= u, r \in Records, ~Blocks(r, t)
  PROVE  ~Blocks(r, u)
<1>1. r.lease \in Nat /\ r.next \in Nat
  BY DEF Records
<1>. QED BY <1>1 DEF Blocks

\* A record that a claim does not find, or that does not stop it, has no lease or hold left.
LEMMA KeptBlocks ==
  ASSUME AttemptConstants, Typed, Stocked, NEW p \in Procs, Claim(p), NEW f \in DOMAIN records,
         f \in Items(p) \/ f \notin Kept(p)
  PROVE  ~Blocks(records[f], now)
<1>1. clock[p] \in Nat /\ now \in Nat /\ clock[p] <= now /\ Reset \in Nat \ {0}
  BY DEF Typed, AttemptConstants
<1>2. Whole(records[f], now, claims) /\ records[f] \in Records
  BY DEF Stocked, Stored, Whole
<1>3. ~Blocks(records[f], clock[p])
  <2>1. CASE f \in Kept(p)
    BY <2>1, ClaimDoes
  <2>2. CASE f \notin Kept(p)
    <3>1. Forgotten(records[f], clock[p])
      BY <2>2 DEF Kept
    <3>2. records[f].last \in Nat /\ records[f].lease \in Nat
      BY <1>2 DEF Records
    <3>. QED BY <1>1, <3>1, <3>2 DEF Forgotten, Blocks
  <2>. QED BY <2>1, <2>2
<1>. QED BY <1>1, <1>2, <1>3, BlocksEnds

LEMMA FreedStep ==
  ASSUME AttemptConstants, Typed, Stocked, Freed, NEW p \in Procs,
         Quiet(p) \/ Claim(p) \/ Settles(p)
  PROVE  Freed'
<1>1. SUFFICES ASSUME NEW q \in Procs, pc'[q] \in Claimed, NEW f \in DOMAIN previous'[q]
               PROVE  ~Blocks(previous'[q][f], now')
  BY DEF Freed
<1>2. CASE Quiet(p)
  <2>1. pc[q] \in Claimed /\ previous'[q] = previous[q] /\ now' = now
    BY <1>1, <1>2 DEF Quiet, OthersKeep
  <2>. QED BY <1>1, <2>1 DEF Freed
<1>3. CASE Claim(p)
  <2>1. /\ pc' = [pc EXCEPT ![p] = "create"] /\ previous' = [previous EXCEPT ![p] = previous'[p]]
        /\ now' = now
    BY <1>3, ClaimDoes
  <2>2. CASE q = p
    <3>1. f \in DOMAIN records /\ f \in Items(p) /\ previous'[q][f] = records[f]
      BY <1>1, <1>3, <2>2, ClaimDoes DEF Kept
    <3>. QED BY <1>3, <2>1, <3>1, KeptBlocks
  <2>3. CASE q # p
    <3>1. pc'[q] = pc[q] /\ previous'[q] = previous[q]
      BY <2>1, <2>3 DEF Typed
    <3>. QED BY <1>1, <2>1, <3>1 DEF Freed
  <2>. QED BY <2>2, <2>3
<1>4. CASE Settles(p)
  <2>1. /\ pc' = [pc EXCEPT ![p] = pc'[p]] /\ pc'[p] \in {"consume", "rollback"}
        /\ now' = now /\ previous' = previous
    BY <1>4 DEF Settles
  <2>2. q # p
    BY <1>1, <2>1 DEF Claimed
  <2>3. pc'[q] = pc[q]
    BY <2>1, <2>2 DEF Typed
  <2>. QED BY <1>1, <2>1, <2>3 DEF Freed
<1>. QED BY <1>2, <1>3, <1>4

LEMMA LeasedStep ==
  ASSUME AttemptConstants, Typed, Stocked, Matching, Leased, NEW p \in Procs,
         Quiet(p) \/ Claim(p) \/ Settles(p)
  PROVE  Leased'
<1>1. SUFFICES ASSUME NEW q \in Procs, Working(q)', NEW f \in Items(q)
               PROVE  \/ LeaseOf(q)' <= now'
                      \/ f \in DOMAIN records' /\ Holds(records'[f], q, pc'[q], claims'[q])
  BY DEF Leased, Owned, Items
<1>2. CASE Quiet(p)
  <2>1. /\ Working(q) /\ clock'[q] = clock[q] /\ now' = now /\ records' = records
        /\ claims'[q] = claims[q]
    BY <1>1, <1>2 DEF Quiet, OthersKeep, Working
  <2>2. LeaseOf(q) <= now \/ (f \in DOMAIN records /\ Owned(records[f], q))
    BY <2>1 DEF Leased
  <2>3. pc'[q] \in Claimed
    BY <1>1 DEF Working, Claimed
  <2>. QED BY <2>1, <2>2, <2>3 DEF LeaseOf, Owned, Holds
<1>3. CASE Claim(p)
  <2>1. /\ pc' = [pc EXCEPT ![p] = "create"] /\ claims' = [claims EXCEPT ![p] = @ + 1]
        /\ now' = now /\ clock' = clock
    BY <1>3, ClaimDoes
  <2>2. CASE q = p
    <3>1. pc'[p] = "create" /\ claims'[p] = claims[p] + 1
      BY <2>1 DEF Typed
    <3>2. f \in DOMAIN records' /\ records'[f] = Claimant(p, f)
      BY <1>3, <2>2, ClaimDoes
    <3>. QED BY <2>2, <3>1, <3>2, ClaimantIs DEF Holds, Claimed
  <2>3. CASE q # p
    <3>1. pc'[q] = pc[q] /\ claims'[q] = claims[q]
      BY <2>1, <2>3 DEF Typed
    <3>2. Working(q)
      BY <1>1, <3>1 DEF Working
    <3>3. LeaseOf(q) <= now \/ (f \in DOMAIN records /\ Owned(records[f], q))
      BY <3>2 DEF Leased
    <3>4. CASE LeaseOf(q) <= now
      BY <2>1, <3>4 DEF LeaseOf
    <3>5. CASE f \in DOMAIN records /\ Owned(records[f], q)
      <4>1. CASE f \in Kept(p) /\ f \notin Items(p)
        <5>1. f \in DOMAIN records' /\ records'[f] = records[f]
          BY <1>3, <4>1, ClaimDoes
        <5>. QED BY <3>1, <3>5, <5>1 DEF Owned
      <4>2. CASE f \notin Kept(p) \/ f \in Items(p)
        <5>1. ~Blocks(records[f], now)
          BY <1>3, <3>5, <4>2, KeptBlocks
        <5>2. records[f].state = "in_flight" /\ records[f].lease = LeaseOf(q)
          BY <3>2, <3>5 DEF Matching, Matches, Fits, Owned, Holds, Working, LeaseOf
        <5>3. LeaseOf(q) \in Nat /\ now \in Nat
          BY DEF LeaseOf, Typed, AttemptConstants
        <5>4. LeaseOf(q) <= now
          BY <5>1, <5>2, <5>3 DEF Blocks
        <5>. QED BY <2>1, <5>4 DEF LeaseOf
      <4>. QED BY <4>1, <4>2
    <3>. QED BY <3>3, <3>4, <3>5
  <2>. QED BY <2>2, <2>3
<1>4. CASE Settles(p)
  <2>1. /\ pc' = [pc EXCEPT ![p] = pc'[p]] /\ pc'[p] \in {"consume", "rollback"}
        /\ now' = now /\ clock' = clock /\ claims' = claims /\ OwnsAll(p)
    BY <1>4 DEF Settles
  <2>2. q # p
    BY <1>1, <2>1 DEF Working
  <2>3. pc'[q] = pc[q]
    BY <2>1, <2>2 DEF Typed
  <2>4. Working(q) /\ f \in Prints
    BY <1>1, <2>3, PlansAreItems DEF Working
  <2>5. LeaseOf(q) <= now \/ (f \in DOMAIN records /\ Owned(records[f], q))
    BY <2>4 DEF Leased
  <2>6. CASE f \in Items(p)
    <3>1. f \in DOMAIN records /\ records[f].id = <<p, claims[p]>>
      BY <2>1, <2>6 DEF OwnsAll, Id
    <3>2. ~Owned(records[f], q)
      BY <2>2, <3>1 DEF Owned, Holds
    <3>. QED BY <2>1, <2>5, <3>2 DEF LeaseOf
  <2>7. CASE f \notin Items(p)
    <3>1. Keeps(f)
      BY <1>4, <2>4, <2>7 DEF Settles
    <3>. QED BY <2>1, <2>3, <2>5, <3>1 DEF LeaseOf, Owned, Keeps
  <2>. QED BY <2>6, <2>7
<1>. QED BY <1>2, <1>3, <1>4

LEMMA HoldsLastStep ==
  ASSUME AttemptConstants, Typed, Stocked, HoldsLast, NEW p \in Procs,
         Quiet(p) \/ Claim(p) \/ Settles(p)
  PROVE  HoldsLast'
<1>1. SUFFICES ASSUME NEW f \in Prints, heldUntil'[f] > now'
               PROVE  f \in DOMAIN records' /\ records'[f].next = heldUntil'[f]
  BY DEF HoldsLast
<1>2. now' = now /\ now \in Nat /\ heldUntil[f] \in Nat
  <2>1. now' = now
    BY ClaimDoes DEF Quiet, Settles
  <2>. QED BY <2>1 DEF Typed, AttemptConstants
<1>3. ASSUME heldUntil'[f] = heldUntil[f]
      PROVE  /\ f \in DOMAIN records /\ records[f].next = heldUntil[f]
             /\ records[f].state # "in_flight" /\ Blocks(records[f], now)
  <2>1. f \in DOMAIN records /\ records[f].next = heldUntil[f] /\ heldUntil[f] > now
    BY <1>1, <1>2, <1>3 DEF HoldsLast
  <2>2. records[f].state = "in_flight" => records[f].next = 0
    BY <2>1 DEF Stocked, Stored, Whole
  <2>. QED BY <1>2, <2>1, <2>2 DEF Blocks
<1>4. CASE Quiet(p)
  BY <1>3, <1>4 DEF Quiet
<1>5. CASE Claim(p)
  <2>1. heldUntil' = heldUntil
    BY <1>5, ClaimDoes DEF history
  <2>2. f \in Kept(p) /\ f \notin Items(p)
    BY <1>3, <1>5, <2>1, KeptBlocks
  <2>3. f \in DOMAIN records' /\ records'[f] = records[f]
    BY <1>5, <2>2, ClaimDoes
  <2>. QED BY <1>3, <2>1, <2>3
<1>6. CASE Settles(p)
  <2>1. CASE f \notin Items(p)
    BY <1>3, <1>6, <2>1 DEF Settles, Keeps, SameHistory
  <2>2. CASE f \in Items(p)
    <3>1. records[f].state = "in_flight"
      BY <1>6, <2>2 DEF Settles, OwnsAll
    <3>2. heldUntil'[f] # heldUntil[f]
      BY <1>3, <3>1
    <3>3. FailsHere(p, f)
      BY <1>6, <2>2, <3>2 DEF Settles, Clears, Restores, SameHistory
    <3>. QED BY <3>3 DEF FailsHere
  <2>. QED BY <2>1, <2>2
<1>. QED BY <1>4, <1>5, <1>6

LEMMA TickSteps ==
  ASSUME AttemptConstants, Typed, Stocked, Freed, Leased, HoldsLast, Tick
  PROVE  Typed' /\ Freed' /\ Leased' /\ HoldsLast' /\ \A p \in Procs : Advanced(p) => Advanced(p)'
<1>1. /\ now \in Nat /\ now' = now + 1 /\ now' \in Nat /\ now <= now' /\ now' \in 1..MaxTime
      /\ UNCHANGED <<records, pc, clock, claims, previous, made, failure,
                     counted, lastFailure, heldUntil>>
  BY DEF Tick, Typed, AttemptConstants, history
<1>2. clock \in [Procs -> 0..now']
  BY <1>1 DEF Typed
<1>3. Typed'
  BY <1>1, <1>2 DEF Typed
<1>4. Freed'
  <2>1. SUFFICES ASSUME NEW p \in Procs, pc[p] \in Claimed, NEW f \in DOMAIN previous[p]
                 PROVE  ~Blocks(previous[p][f], now')
    BY <1>1 DEF Freed
  <2>2. ~Blocks(previous[p][f], now) /\ previous[p][f] \in Records
    BY <2>1 DEF Freed, Stocked, Stored, Whole
  <2>. QED BY <1>1, <2>2, BlocksEnds
<1>5. Leased'
  <2>1. SUFFICES ASSUME NEW p \in Procs, Working(p), NEW f \in Items(p)
                 PROVE  LeaseOf(p) <= now' \/ (f \in DOMAIN records /\ Owned(records[f], p))
    BY <1>1 DEF Leased, Working, LeaseOf, Owned, Items
  <2>2. LeaseOf(p) \in Nat
    BY DEF Typed, LeaseOf, AttemptConstants
  <2>. QED BY <1>1, <2>1, <2>2 DEF Leased
<1>6. HoldsLast'
  <2>1. \A f \in Prints : heldUntil[f] \in Nat
    BY DEF Typed
  <2>. QED BY <1>1, <2>1 DEF HoldsLast
<1>7. \A p \in Procs : Advanced(p) => Advanced(p)'
  BY <1>1 DEF Advanced
<1>. QED BY <1>3, <1>4, <1>5, <1>6, <1>7

-----------------------------------------------------------------------------
(* Counting.                                                               *)
LEMMA CountsCarry ==
  ASSUME AttemptConstants, NEW f, NEW L, NEW M, NEW count, NEW last \in Nat,
         NEW t \in Nat, NEW u \in Nat, t <= u, NEW where, NEW ids, NEW where2, NEW ids2,
         NEW s, NEW v, CountsWith(s, f, L, count, last, t, where, ids),
         f \in DOMAIN v <=> f \in DOMAIN s, f \in DOMAIN v => v[f] = s[f],
         \A q \in Procs : f \in DOMAIN s /\ Holds(s[f], q, where2[q], ids2[q]) =>
                            Holds(s[f], q, where[q], ids[q]),
         \A q \in L : where2[q] \in Claimed => q \in M
  PROVE  CountsWith(v, f, M, count, last, u, where2, ids2)
<1>1. CountOf(v, f) = CountOf(s, f) /\ LastOf(v, f) = LastOf(s, f)
  BY DEF CountOf, LastOf
<1>2. Tallied(CountOf(v, f), LastOf(v, f), count, last, u)
  BY <1>1 DEF CountsWith, Tallied, AttemptConstants
<1>3. ASSUME NEW q \in Procs, f \in DOMAIN v, Holds(v[f], q, where2[q], ids2[q])
      PROVE  q \in M
  BY <1>3 DEF CountsWith, Holds
<1>. QED BY <1>2, <1>3 DEF CountsWith

\* Nobody comes to own a record that is there already.
NoNewOwner ==
  \A r : Whole(r, now, claims) =>
    \A q \in Procs : Holds(r, q, pc'[q], claims'[q]) => Holds(r, q, pc[q], claims[q])

LEMMA OwnersStay ==
  ASSUME AttemptConstants, Typed, NEW p \in Procs, Quiet(p) \/ Claim(p) \/ Settles(p)
  PROVE  NoNewOwner
<1>1. CASE Quiet(p) \/ Settles(p)
  <2>1. claims' = claims /\ \A q \in Procs : pc'[q] \in Claimed => pc[q] \in Claimed
    BY <1>1 DEF Quiet, OthersKeep, Settles, Typed
  <2>. QED BY <2>1 DEF NoNewOwner, Holds
<1>2. CASE Claim(p)
  <2>1. pc' = [pc EXCEPT ![p] = "create"] /\ claims' = [claims EXCEPT ![p] = @ + 1]
    BY <1>2, ClaimDoes
  <2>2. claims[p] \in Nat /\ claims'[p] = claims[p] + 1
    BY <2>1 DEF Typed
  <2>3. \A q \in Procs \ {p} : pc'[q] = pc[q] /\ claims'[q] = claims[q]
    BY <2>1 DEF Typed
  <2>4. ASSUME NEW r, Whole(r, now, claims), Holds(r, p, pc'[p], claims'[p])
        PROVE  FALSE
    <3>1. r.state = "in_flight" /\ r.id = <<p, claims[p] + 1>>
      BY <2>2, <2>4 DEF Holds
    <3>2. r.id[2] <= claims[r.id[1]]
      BY <2>4, <3>1 DEF Whole
    <3>3. claims[p] + 1 <= claims[p]
      BY <3>1, <3>2
    <3>. QED BY <2>2, <3>3
  <2>. QED BY <2>3, <2>4 DEF NoNewOwner
<1>. QED BY <1>1, <1>2

\* What a step leaves to the processes whose claim goes on.
ClaimsGoOn ==
  \A q \in Procs : pc[q] \in Claimed /\ pc'[q] \in Claimed =>
    /\ previous'[q] = previous[q]
    /\ pc'[q] = "failed" =>
         (now' = now /\ clock'[q] = now) \/ (pc[q] = "failed" /\ clock'[q] = clock[q])

LEMMA MembersStay ==
  ASSUME AttemptConstants, Typed, Stocked, now' \in Nat, now <= now', NoNewOwner, ClaimsGoOn,
         NEW f \in Prints, NEW L \in SUBSET Procs, Chained(f, L),
         counted'[f] = counted[f], lastFailure'[f] = lastFailure[f],
         NEW M \in SUBSET Procs, \A q \in L : pc'[q] \in Claimed => q \in M,
         NEW p \in L, pc'[p] \in Claimed
  PROVE  Member(p, f, M)'
<1>1. Member(p, f, L) /\ p \in Procs
  BY DEF Chained
<1>2. previous'[p] = previous[p] /\ pc[p] \in Claimed
  BY <1>1 DEF Member, ClaimsGoOn
<1>3. now \in Nat /\ lastFailure[f] \in Nat /\ counted[f] \in Nat
  BY DEF Typed, AttemptConstants
<1>4. CountsWith(previous[p], f, L, counted[f], lastFailure[f], now, pc, claims)
  BY <1>1 DEF Member
<1>5. \A q \in Procs : f \in DOMAIN previous[p] /\ Holds(previous[p][f], q, pc'[q], claims'[q]) =>
                         Holds(previous[p][f], q, pc[q], claims[q])
  BY <1>1 DEF NoNewOwner, Stocked, Stored
<1>6. CountsWith(previous[p], f, M, counted[f], lastFailure[f], now', pc', claims')
  BY <1>3, <1>4, <1>5, CountsCarry
<1>7. ASSUME pc'[p] = "failed"
      PROVE  CountOf(previous[p], f) = counted[f] \/ clock'[p] - lastFailure[f] >= Reset
  <2>1. (now' = now /\ clock'[p] = now) \/ (pc[p] = "failed" /\ clock'[p] = clock[p])
    BY <1>1, <1>2, <1>7 DEF ClaimsGoOn
  <2>2. CASE pc[p] = "failed" /\ clock'[p] = clock[p]
    BY <1>1, <2>2 DEF Member
  <2>3. CASE clock'[p] = now
    BY <1>4, <2>3 DEF CountsWith, Tallied
  <2>. QED BY <2>1, <2>2, <2>3
<1>8. f \in Items(p)
  BY <1>1 DEF Member
<1>. QED BY <1>2, <1>6, <1>7, <1>8 DEF Member, Items

LEMMA ChainKeeps ==
  ASSUME AttemptConstants, Typed, Stocked, now' \in Nat, now <= now', NoNewOwner, ClaimsGoOn,
         NEW f \in Prints, NEW L \in SUBSET Procs, Chained(f, L),
         counted'[f] = counted[f], lastFailure'[f] = lastFailure[f],
         NEW s, f \in DOMAIN s => Whole(s[f], now, claims),
         CountsWith(s, f, L, counted[f], lastFailure[f], now, pc, claims),
         f \in DOMAIN records' <=> f \in DOMAIN s, f \in DOMAIN records' => records'[f] = s[f]
  PROVE  \E M \in SUBSET Procs : Chained(f, M)'
<1>1. PICK M \in SUBSET Procs : \A q \in Procs : q \in M <=> q \in L /\ pc'[q] \in Claimed
  <2>1. {q \in L : pc'[q] \in Claimed} \in SUBSET Procs
    OBVIOUS
  <2>. QED BY <2>1
<1>2. ASSUME NEW p \in M PROVE Member(p, f, M)'
  BY <1>1, MembersStay
<1>3. now \in Nat /\ lastFailure[f] \in Nat
  BY DEF Typed, AttemptConstants
<1>4. \A q \in Procs : f \in DOMAIN s /\ Holds(s[f], q, pc'[q], claims'[q]) =>
                         Holds(s[f], q, pc[q], claims[q])
  BY DEF NoNewOwner
<1>5. CountsWith(records', f, M, counted[f], lastFailure[f], now', pc', claims')
  BY <1>1, <1>3, <1>4, CountsCarry
<1>6. Chained(f, M)'
  BY <1>2, <1>5 DEF Chained
<1>. QED BY <1>1, <1>6

LEMMA CountingQuiet ==
  ASSUME AttemptConstants, Typed, Stocked, Counting, (\E p \in Procs : Quiet(p)) \/ Tick
  PROVE  Counting'
<1>1. SUFFICES ASSUME NEW f \in Prints PROVE \E M \in SUBSET Procs : Chained(f, M)'
  BY DEF Counting
<1>2. PICK L \in SUBSET Procs : Chained(f, L)
  BY DEF Counting
<1>3. now \in Nat /\ now' \in Nat /\ now <= now'
  BY DEF Typed, Tick, Quiet, AttemptConstants
<1>4. records' = records /\ counted' = counted /\ lastFailure' = lastFailure
  BY DEF Quiet, Tick, history
<1>5. NoNewOwner
  BY OwnersStay DEF Tick, NoNewOwner
<1>6. ClaimsGoOn
  BY DEF Quiet, OthersKeep, Tick, ClaimsGoOn
<1>7. CountsWith(records, f, L, counted[f], lastFailure[f], now, pc, claims)
  BY <1>2 DEF Chained
<1>8. f \in DOMAIN records => Whole(records[f], now, claims)
  BY DEF Stocked, Stored
<1>. QED BY <1>2, <1>3, <1>4, <1>5, <1>6, <1>7, <1>8, ChainKeeps

LEMMA CountingSettles ==
  ASSUME AttemptConstants, BackoffIsTime, Typed, Stocked, Matching, Counting,
         NEW p \in Procs, Advanced(p), Settles(p)
  PROVE  Counting'
<1>1. SUFFICES ASSUME NEW f \in Prints PROVE \E M \in SUBSET Procs : Chained(f, M)'
  BY DEF Counting
<1>2. PICK L \in SUBSET Procs : Chained(f, L)
  BY DEF Counting
<1>3. /\ now \in Nat /\ now' = now /\ pc' = [pc EXCEPT ![p] = pc'[p]] /\ pc[p] \in Claimed
      /\ clock' = clock /\ previous' = previous /\ claims' = claims
      /\ pc'[p] \in {"consume", "rollback"} /\ OwnsAll(p)
  BY DEF Settles, Typed, AttemptConstants
<1>4. NoNewOwner
  BY OwnersStay
<1>5. ClaimsGoOn
  BY <1>3 DEF ClaimsGoOn, Typed, Claimed
<1>6. /\ CountsWith(records, f, L, counted[f], lastFailure[f], now, pc, claims)
      /\ f \in DOMAIN records => Whole(records[f], now, claims)
  BY <1>2 DEF Chained, Stocked, Stored
<1>7. CASE f \notin Items(p)
  <2>1. Keeps(f)
    BY <1>7 DEF Settles
  <2>. QED BY <1>2, <1>3, <1>4, <1>5, <1>6, <2>1, ChainKeeps DEF Keeps, SameHistory
<1>8. CASE f \in Items(p)
  <2>1. f \in DOMAIN records /\ Holds(records[f], p, pc[p], claims[p])
    BY <1>3, <1>8 DEF OwnsAll, Id, Holds
  <2>2. p \in L
    BY <1>6, <2>1 DEF CountsWith
  <2>3. Member(p, f, L)
    BY <1>2, <2>2 DEF Chained
  <2>4. CASE Restores(p, f)
    <3>1. CountsWith(previous[p], f, L, counted[f], lastFailure[f], now, pc, claims)
      BY <2>3 DEF Member
    <3>2. f \in DOMAIN previous[p] => Whole(previous[p][f], now, claims)
      BY DEF Stocked, Stored
    <3>. QED BY <1>2, <1>3, <1>4, <1>5, <2>4, <3>1, <3>2, ChainKeeps DEF Restores, SameHistory
  <2>5. CASE Clears(f)
    <3>1. CountOf(records', f) = 0 /\ f \notin DOMAIN records' /\ counted'[f] = 0
      BY <2>5 DEF CountOf, Clears
    <3>2. Chained(f, {})'
      BY <3>1 DEF Chained, CountsWith, Tallied
    <3>. QED BY <3>2
  <2>6. CASE FailsHere(p, f)
    <3>1. /\ pc[p] = "failed" /\ f = Plan[p][failure[p].at]
          /\ f \in DOMAIN records' /\ records'[f] = FailedRecord(p)
          /\ counted'[f] = NextCount(counted[f], lastFailure[f], clock[p])
          /\ lastFailure'[f] = clock[p]
      BY <2>6 DEF FailsHere
    <3> DEFINE n == CountOf(previous[p], f)
               t == LastOf(previous[p], f)
    <3>2. /\ n = counted[f] \/ (n = 0 /\ clock[p] - lastFailure[f] >= Reset)
          /\ n > 0 => t = lastFailure[f]
      BY <2>3, <3>1 DEF Member, CountsWith, Tallied
    <3>3. n \in Nat /\ t \in Nat /\ (t = 0 <=> n = 0)
      <4>1. CASE f \in DOMAIN previous[p]
        <5>1. Whole(previous[p][f], now, claims)
          BY <4>1 DEF Stocked, Stored
        <5>. QED BY <4>1, <5>1 DEF CountOf, LastOf, Whole, Records
      <4>2. CASE f \notin DOMAIN previous[p]
        BY <4>2 DEF CountOf, LastOf
      <4>. QED BY <4>1, <4>2
    <3>4. FailedRecord(p).count = IF f \in DOMAIN previous[p] THEN NextCount(n, t, clock[p]) ELSE 1
      BY <3>1 DEF FailedRecord, CountOf, LastOf
    <3>5. f \notin DOMAIN previous[p] => n = 0
      BY DEF CountOf
    <3>6. FailedRecord(p).count = NextCount(n, t, clock[p])
      BY <3>3, <3>4, <3>5 DEF NextCount
    <3> HIDE DEF n, t
    <3>7. counted[f] \in Nat /\ lastFailure[f] \in Nat /\ clock[p] \in Nat /\ Reset \in Nat
      BY DEF Typed, AttemptConstants
    <3>8. NextCount(n, t, clock[p]) = NextCount(counted[f], lastFailure[f], clock[p])
      BY <3>2, <3>3, <3>7 DEF NextCount
    <3>9. CountOf(records', f) = counted'[f] /\ LastOf(records', f) = lastFailure'[f]
      BY <3>1, <3>6, <3>8, FailedRecordIs DEF CountOf, LastOf
    <3>10. records'[f].state # "in_flight"
      BY <3>1, FailedRecordIs
    <3>11. Chained(f, {})'
      BY <3>9, <3>10 DEF Chained, CountsWith, Tallied, Holds
    <3>. QED BY <3>11
  <2>. QED BY <1>8, <2>4, <2>5, <2>6 DEF Settles
<1>. QED BY <1>7, <1>8

LEMMA CountingClaim ==
  ASSUME AttemptConstants, Typed, Stocked, Stocked', Counting, NEW p \in Procs, Claim(p)
  PROVE  Counting'
<1>1. SUFFICES ASSUME NEW f \in Prints PROVE \E M \in SUBSET Procs : Chained(f, M)'
  BY DEF Counting
<1>2. PICK L \in SUBSET Procs : Chained(f, L)
  BY DEF Counting
<1>3. /\ now \in Nat /\ clock[p] \in Nat /\ clock[p] <= now /\ Reset \in Nat \ {0}
      /\ lastFailure[f] \in Nat /\ counted[f] \in Nat
  BY DEF Typed, AttemptConstants
<1>4. /\ pc[p] = "claim" /\ now' = now /\ pc' = [pc EXCEPT ![p] = "create"] /\ clock' = clock
      /\ previous' = [previous EXCEPT ![p] = previous'[p]]
      /\ claims' = [claims EXCEPT ![p] = @ + 1] /\ counted' = counted /\ lastFailure' = lastFailure
  BY ClaimDoes DEF history
<1>5. NoNewOwner
  BY OwnersStay
<1>6. pc'[p] = "create" /\ pc[p] \notin Claimed /\ \A q \in Procs \ {p} : pc'[q] = pc[q] /\ previous'[q] = previous[q]
  BY <1>4 DEF Typed, Claimed
<1>7. ClaimsGoOn
  BY <1>4, <1>6 DEF ClaimsGoOn
<1>8. /\ CountsWith(records, f, L, counted[f], lastFailure[f], now, pc, claims)
      /\ f \in DOMAIN records => Whole(records[f], now, claims)
  BY <1>2 DEF Chained, Stocked, Stored
\* A store that has at f what the claim kept of it.
<1>9. ASSUME NEW v, f \in DOMAIN v <=> f \in Kept(p), f \in DOMAIN v => v[f] = records[f],
             NEW M \in SUBSET Procs, L \subseteq M
      PROVE  CountsWith(v, f, M, counted[f], lastFailure[f], now, pc', claims')
  <2>1. \A q \in Procs : f \in DOMAIN records /\ Holds(records[f], q, pc'[q], claims'[q]) =>
                           Holds(records[f], q, pc[q], claims[q])
    BY <1>5, <1>8 DEF NoNewOwner
  <2>2. CASE f \in DOMAIN records => f \in Kept(p)
    <3>1. f \in DOMAIN v <=> f \in DOMAIN records
      BY <1>9, <2>2 DEF Kept
    <3>. QED BY <1>3, <1>8, <1>9, <2>1, <3>1, CountsCarry
  <2>3. CASE f \in DOMAIN records /\ f \notin Kept(p)
    <3>1. Forgotten(records[f], clock[p])
      BY <2>3 DEF Kept
    <3>2. /\ records[f].last \in Nat /\ records[f].count \in Nat
          /\ records[f].last = 0 <=> records[f].count = 0
      BY <1>8, <2>3 DEF Whole, Records
    <3>3. Tallied(records[f].count, records[f].last, counted[f], lastFailure[f], now)
      BY <1>8, <2>3 DEF CountsWith, CountOf, LastOf
    <3>4. counted[f] = 0 \/ now - lastFailure[f] >= Reset
      BY <1>3, <3>1, <3>2, <3>3 DEF Forgotten, Tallied
    <3>5. f \notin DOMAIN v
      BY <1>9, <2>3
    <3>. QED BY <3>4, <3>5 DEF CountsWith, Tallied, CountOf
  <2>. QED BY <2>2, <2>3
<1>10. CASE f \notin Items(p)
  <2>1. f \in DOMAIN records' <=> f \in Kept(p)
    BY <1>10, ClaimDoes
  <2>2. f \in DOMAIN records' => records'[f] = records[f]
    BY <1>10, ClaimDoes
  <2>3. CountsWith(records', f, L, counted[f], lastFailure[f], now, pc', claims')
    BY <1>9, <2>1, <2>2
  <2>4. ASSUME NEW q \in L PROVE Member(q, f, L)'
    <3>1. pc[q] \in Claimed /\ q \in Procs
      BY <1>2 DEF Chained, Member
    <3>2. pc'[q] \in Claimed
      BY <1>6, <3>1
    <3>. QED BY <1>2, <1>3, <1>4, <1>5, <1>7, <3>2, MembersStay
  <2>5. Chained(f, L)'
    BY <1>4, <2>3, <2>4 DEF Chained
  <2>. QED BY <2>5
<1>11. CASE f \in Items(p)
  <2> DEFINE M == L \cup {p}
  <2>1. M \in SUBSET Procs /\ L \subseteq M /\ p \in M
    OBVIOUS
  <2>2. /\ f \in DOMAIN previous'[p] <=> f \in Kept(p)
        /\ f \in DOMAIN previous'[p] => previous'[p][f] = records[f]
    BY <1>11, ClaimDoes
  <2>3. CountsWith(previous'[p], f, M, counted[f], lastFailure[f], now, pc', claims')
    BY <1>9, <2>1, <2>2
  <2>4. f \in DOMAIN records' /\ records'[f] = Claimant(p, f)
    BY <1>11, ClaimDoes
  <2>5. CountOf(records', f) = CountOf(previous'[p], f) /\ LastOf(records', f) = LastOf(previous'[p], f)
    <3>1. CountOf(records', f) = Claimant(p, f).count /\ LastOf(records', f) = Claimant(p, f).last
      BY <2>4 DEF CountOf, LastOf
    <3>. QED BY <3>1, ClaimantIs
  <2>6. \A q \in Procs : Holds(records'[f], q, pc'[q], claims'[q]) => q \in M
    <3>1. records'[f].id = <<p, claims[p] + 1>>
      BY <2>4, ClaimantIs
    <3>. QED BY <2>1, <3>1 DEF Holds
  <2> HIDE DEF M
  <2>7. CountsWith(records', f, M, counted[f], lastFailure[f], now, pc', claims')
    BY <2>3, <2>5, <2>6 DEF CountsWith
  <2>8. Member(p, f, M)'
    BY <1>4, <1>6, <1>11, <2>3 DEF Member, Items, Claimed
  <2>9. ASSUME NEW q \in L PROVE Member(q, f, M)'
    <3>1. pc[q] \in Claimed /\ q \in Procs
      BY <1>2 DEF Chained, Member
    <3>2. pc'[q] \in Claimed
      BY <1>6, <3>1
    <3>3. \A o \in L : pc'[o] \in Claimed => o \in M
      BY <2>1
    <3>. QED BY <1>2, <1>3, <1>4, <1>5, <1>7, <2>1, <3>2, <3>3, MembersStay
  <2>10. Chained(f, M)'
    BY <1>4, <2>7, <2>8, <2>9 DEF Chained, M
  <2>. QED BY <2>1, <2>10
<1>. QED BY <1>10, <1>11

-----------------------------------------------------------------------------
(* The theorem.                                                            *)
LEMMA AttemptInvInit ==
  ASSUME AttemptConstants, AttemptsInit
  PROVE  AttemptInv
<1>1. NoFailure \in Failings
  BY DEF NoFailure, Failings
<1>2. Typed
  BY <1>1 DEF AttemptsInit, Typed, AttemptConstants
<1>3. DOMAIN records = {} /\ \A p \in Procs : DOMAIN previous[p] = {} /\ pc[p] = "idle"
  BY DEF AttemptsInit
<1>4. Stocked
  BY <1>3 DEF Stocked, Stored
<1>5. \A p \in Procs : Advanced(p)
  BY <1>3, PlansAreItems DEF AttemptsInit, Advanced
<1>6. Matching /\ Freed /\ Leased
  BY <1>3 DEF Matching, Freed, Leased, Working, Claimed
<1>7. HoldsLast
  BY DEF AttemptsInit, HoldsLast
<1>8. Counting
  <2>1. ASSUME NEW f \in Prints PROVE Chained(f, {})
    BY <1>3 DEF AttemptsInit, Chained, CountsWith, Tallied, CountOf
  <2>. QED BY <2>1 DEF Counting
<1>. QED BY <1>2, <1>4, <1>5, <1>6, <1>7, <1>8 DEF AttemptInv

LEMMA AttemptInvStep ==
  ASSUME AttemptConstants, BackoffIsTime, AttemptInv, [AttemptsNext]_attemptVars
  PROVE  AttemptInv'
<1>. USE DEF AttemptInv
<1>1. CASE Tick
  <2>1. Stocked' /\ Matching' /\ Counting'
    BY <1>1, StockedTick, MatchingTick, CountingQuiet
  <2>. QED BY <1>1, <2>1, TickSteps
<1>2. ASSUME NEW p \in Procs, Command(p) \/ CommandCrash(p)
      PROVE  AttemptInv'
  <2>1. Quiet(p) \/ Claim(p) \/ Settles(p)
    BY <1>2, StepKinds
  <2>2. Typed' /\ Advanced(p)'
    BY <1>2, TypedStep, AdvancedStep
  <2>3. ASSUME NEW q \in Procs \ {p} PROVE Advanced(q)'
    <3>1. pc'[q] = pc[q] /\ clock'[q] = clock[q] /\ claims'[q] = claims[q] /\ made'[q] = made[q]
          /\ failure'[q] = failure[q]
      <4>1. CASE Quiet(p)
        BY <4>1 DEF Quiet, OthersKeep
      <4>2. CASE Claim(p)
        <5>1. /\ pc' = [pc EXCEPT ![p] = "create"] /\ claims' = [claims EXCEPT ![p] = @ + 1]
              /\ UNCHANGED <<clock, made, failure>>
          BY <4>2, ClaimDoes
        <5>. QED BY <5>1 DEF Typed
      <4>3. CASE Settles(p)
        BY <4>3 DEF Settles, Typed
      <4>. QED BY <2>1, <4>1, <4>2, <4>3
    <3>. QED BY <3>1 DEF Advanced
  <2>4. Stocked'
    BY <2>1, StockedQuiet, StockedClaim, StockedSettles
  <2>5. Matching'
    BY <2>1, MatchingQuiet, MatchingClaim, MatchingSettles
  <2>6. Freed' /\ Leased' /\ HoldsLast'
    BY <2>1, FreedStep, LeasedStep, HoldsLastStep
  <2>7. Counting'
    BY <2>1, <2>4, CountingQuiet, CountingClaim, CountingSettles
  <2>. QED BY <2>2, <2>3, <2>4, <2>5, <2>6, <2>7
<1>3. CASE UNCHANGED attemptVars
  <2>1. /\ UNCHANGED <<now, records, pc, clock, claims, previous, made, failure>>
        /\ UNCHANGED <<counted, lastFailure, heldUntil>>
    BY <1>3 DEF attemptVars
  <2>2. Typed' /\ Stocked' /\ (\A p \in Procs : Advanced(p)')
    BY <2>1 DEF Typed, Stocked, Stored, Advanced, Items
  <2>3. Matching' /\ Freed' /\ Leased' /\ HoldsLast'
    BY <2>1 DEF Matching, Matches, Freed, Leased, Working, LeaseOf, Owned, Items, HoldsLast
  <2>4. Counting'
    BY <2>1 DEF Counting, Chained, Member, Items
  <2>. QED BY <2>2, <2>3, <2>4
<1>. QED BY <1>1, <1>2, <1>3 DEF AttemptsNext

LEMMA AttemptInvGives ==
  ASSUME AttemptConstants, AttemptInv
  PROVE  AttemptsTypeOK /\ OneBatchAtATime /\ FailuresAreCounted /\ HoldsLast
<1>. USE DEF AttemptInv
<1>1. AttemptsTypeOK
  <2>1. ASSUME NEW f \in DOMAIN records
        PROVE  Loads(records[f]) /\ records[f].count \in Nat /\ records[f].last \in 0..now
    <3>1. Whole(records[f], now, claims)
      BY DEF Stocked, Stored
    <3>2. Loads(records[f]) /\ records[f] \in Records /\ records[f].last <= now
      BY <3>1 DEF Whole
    <3>3. now \in Nat
      BY DEF Typed, AttemptConstants
    <3> DEFINE r == records[f]
    <3>4. r.last \in Nat /\ r.count \in Nat
      BY <3>2 DEF Records
    <3> HIDE DEF r
    <3>5. r.last \in 0..now
      BY <3>2, <3>3, <3>4 DEF r
    <3>. QED BY <3>2, <3>4, <3>5 DEF r
  <2>2. ASSUME NEW p \in Procs
        PROVE  /\ DOMAIN previous[p] \subseteq Items(p) /\ made[p] \in 0..Len(Plan[p])
               /\ pc[p] \in {"success", "consume"} => made[p] = Len(Plan[p])
    <3>1. made[p] \in Nat /\ Len(Plan[p]) \in Nat
      BY PlansAreItems DEF Typed
    <3>. QED BY <3>1 DEF Stocked, Advanced
  <2>. QED BY <2>1, <2>2 DEF AttemptsTypeOK, Typed, Stocked, Stored
<1>2. OneBatchAtATime
  <2>1. SUFFICES ASSUME NEW p \in Procs, NEW q \in Procs, p # q, Working(p), Working(q),
                        NEW f \in Items(p), f \in Items(q)
                 PROVE  LeaseOf(p) <= now \/ LeaseOf(q) <= now
    BY DEF OneBatchAtATime
  <2>2. LeaseOf(p) <= now \/ Owned(records[f], p)
    BY <2>1 DEF Leased
  <2>3. LeaseOf(q) <= now \/ Owned(records[f], q)
    BY <2>1 DEF Leased
  <2>4. ~(Owned(records[f], p) /\ Owned(records[f], q))
    BY <2>1 DEF Owned, Holds
  <2>. QED BY <2>2, <2>3, <2>4
<1>3. FailuresAreCounted
  <2>1. SUFFICES ASSUME NEW f \in Prints
                 PROVE  \/ CountOf(records, f) = counted[f]
                        \/ CountOf(records, f) = 0 /\ now - lastFailure[f] >= Reset
    BY DEF FailuresAreCounted, CountOf
  <2>2. PICK L \in SUBSET Procs : Chained(f, L)
    BY DEF Counting
  <2>. QED BY <2>2 DEF Chained, CountsWith, Tallied
<1>. QED BY <1>1, <1>2, <1>3

LEMMA ReleaseIsFree ==
  ASSUME AttemptConstants, AttemptInv, [AttemptsNext]_attemptVars, NEW p \in Procs,
         pc[p] \in {"release", "rollback_release"}, pc'[p] = "rollback", records' # records
  PROVE  \A f \in Items(p) \cap DOMAIN records' : ~Blocks(records'[f], now)
<1>. USE DEF AttemptInv
<1>1. ~UNCHANGED attemptVars /\ ~Tick
  BY DEF attemptVars, Tick
<1>2. PICK q \in Procs : Command(q) \/ CommandCrash(q)
  BY <1>1 DEF AttemptsNext
<1>3. q = p
  <2>1. ASSUME q # p PROVE FALSE
    <3>1. CASE Quiet(q)
      BY <3>1 DEF Quiet
    <3>2. CASE Claim(q)
      <4>1. pc' = [pc EXCEPT ![q] = "create"]
        BY <3>2, ClaimDoes
      <4>. QED BY <2>1, <4>1 DEF Typed
    <3>3. CASE Settles(q)
      BY <2>1, <3>3 DEF Settles, Typed
    <3>. QED BY <1>2, <3>1, <3>2, <3>3, StepKinds
  <2>. QED BY <2>1
<1>4. ReleaseClaim(p)
  <2>1. CASE Claim(p) \/ CompleteSuccess(p) \/ CompleteFailure(p)
    BY <2>1 DEF Claim, CompleteSuccess, CompleteFailure
  <2>2. CASE /\ Command(p) \/ CommandCrash(p)
             /\ ~(Claim(p) \/ CompleteSuccess(p) \/ CompleteFailure(p) \/ ReleaseClaim(p))
    BY <2>2 DEF Command, BeginClaim, ClaimRefused, Create, Cancelled, CreateFails, StoreFails,
                Delete, Finish, Exit, CommandCrash
  <2>. QED BY <1>2, <1>3, <2>1, <2>2
<1>5. \A f \in Items(p) : Restores(p, f)
  BY <1>4, ReleaseSettles
<1>6. pc[p] \in Claimed
  BY DEF Claimed
<1>. QED BY <1>5, <1>6 DEF Restores, Freed

\* Whatever the plans, the leases, the backoffs, and the number of commands that claim,
\* create, fail, cancel, die and complete late: two commands create the same subscription
\* at once only when a lease has run out, no failure is forgotten before its time, no hold
\* ends early, and a released claim leaves nothing that blocks (attempt_store.go:271-475).
THEOREM AttemptsAreSafe ==
  AttemptConstants /\ BackoffIsTime => (AttemptsSpec => AttemptsSafe)
<1>. SUFFICES ASSUME AttemptConstants /\ BackoffIsTime PROVE AttemptsSpec => AttemptsSafe
  OBVIOUS
<1>1. AttemptsInit => AttemptInv
  BY AttemptInvInit
<1>2. AttemptInv /\ [AttemptsNext]_attemptVars => AttemptInv'
  BY AttemptInvStep
<1>3. AttemptInv => AttemptsTypeOK /\ OneBatchAtATime /\ FailuresAreCounted /\ HoldsLast
  BY AttemptInvGives
<1> DEFINE Free == \A p \in Procs :
       pc[p] \in {"release", "rollback_release"} /\ pc'[p] = "rollback" /\ records' # records =>
         \A f \in Items(p) \cap DOMAIN records' : ~Blocks(records'[f], now)
<1>4. AttemptInv /\ [AttemptsNext]_attemptVars => [Free]_attemptVars
  BY ReleaseIsFree
<1>5. AttemptsSpec => [](AttemptsTypeOK /\ OneBatchAtATime /\ FailuresAreCounted /\ HoldsLast)
  BY <1>1, <1>2, <1>3, PTL DEF AttemptsSpec
<1>6. AttemptsSpec => [][Free]_attemptVars
  BY <1>1, <1>2, <1>4, PTL DEF AttemptsSpec
<1>. QED BY <1>5, <1>6 DEF AttemptsSafe, ReleasedIsFree
=============================================================================
