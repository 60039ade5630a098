--------------------------- MODULE ConnectProofs ---------------------------
(***************************************************************************)
(* The robot connector.  Its confirmation gate, for every set of requests  *)
(* and answers, in text and in card mode and under every policy: nothing   *)
(* runs without consent, nor after a rejection, nor twice, and no approval *)
(* is dropped.  Its processes, for every number of them: the lock names    *)
(* whoever is connected, and a stopped supervisor leaves no worker.  And   *)
(* its agents: no session comes back, and every turn gets its own answer.  *)
(***************************************************************************)
EXTENDS ConnectApproval, ConnectDaemon, ConnectSessions, AgentStream, SequenceTheorems,
        FiniteSetTheorems, WellFoundedInduction, TLAPS

-----------------------------------------------------------------------------
(* The confirmation gate.                                                 *)

Running == {"run", "ran", "failed"}
Places == {"idle", "begun", "decide", "ask", "sent", "waiting", "woken", "rule", "gaveup", "done"}
            \cup Running
Reasons == {"none", "ask", "auto", "approve", "reject", "retry"}
JobType == [Jobs -> [pc : Places, how : Reasons, todo : Seq(Requests)]]
Kinds == {"taps", "crashes", "faults", "failures"}

\* The request is in the hands of a goroutine that runs actions.
Has(a, r) == job[a].pc \in Running /\ r \in ToSet(job[a].todo)

\* What has not been decided, or not in favour.
Open == {"none", "pending"}
NotApproved == Open \cup {"rejected"}

ApprovalType ==
  /\ gate \in [Requests -> States] /\ disk \in [Requests -> States]
  /\ asked \in Seq(Requests) /\ IsInjective(asked)
  /\ waiters \subseteq Requests /\ \A r \in waiters : gate[r] \in Open
  /\ remembered \in {"none", "approve", "reject"}
  /\ job \in JobType
  /\ \A a \in Jobs : job[a].pc \in Running => job[a].todo # <<>>
  /\ told \subseteq Requests /\ consent \subseteq Requests /\ lent \subseteq Requests
  /\ held \subseteq Requests /\ undone \subseteq Requests
  /\ runs \in [Requests -> Nat]
  /\ used \in [Kinds -> Nat] /\ \A b \in Kinds : used[b] <= Bound[b]

\* A requester's turn: it has its own request in hand, which is nowhere before Submit.
RequestersTurn ==
  \A r \in Requests :
    /\ job[r].pc = "idle" => job[r].how = "none"
    /\ job[r].pc # "idle" => job[r].todo = <<r>> /\ job[r].how \in {"ask", "auto", "reject"}
    /\ job[r].pc \in {"idle", "begun"} =>
         gate[r] = "none" /\ disk[r] = "none" /\ r \notin ToSet(asked) /\ r \notin told
    /\ job[r].pc # "rule"
    /\ job[r].pc = "decide" => job[r].how \in {"auto", "reject"}
    /\ job[r].pc \in {"ask", "sent", "waiting", "woken", "gaveup"} => job[r].how = "ask"
    /\ job[r].pc \in {"sent", "waiting", "woken", "gaveup"} => ~TextMode /\ r \in told
    /\ job[r].pc \in Running => job[r].how = "auto" \/ (job[r].how = "ask" /\ ~TextMode)

\* The owner's messages and the ticker act in text mode; one request, or those that are held.
OwnersTurn ==
  \A s \in Replies \cup {Ticker} :
    /\ job[s].pc \in {"idle", "rule", "done"} \cup Running
    /\ job[s].pc # "idle" => TextMode
    /\ job[s].pc = "rule" \/ (job[s].pc \in Running /\ job[s].how # "retry")
         => job[s].todo = <<Current(s)>>
    /\ job[s].pc = "rule" => /\ job[s].how \in {"approve", "reject"}
                             /\ Current(s) \in Requests /\ gate[Current(s)] # "none"
    /\ job[s].pc \in Running => job[s].how \in {"approve", "retry"}

\* Consent comes before approval, in memory and on disk, and before an action is in hand;
\* it is given by somebody else only with a card that the owner was sent.
ConsentFirst ==
  /\ \A r \in Requests : gate[r] \notin NotApproved \/ disk[r] \notin NotApproved => r \in consent
  /\ \A a \in Jobs, r \in Requests : Has(a, r) => r \in consent
  /\ \A r \in Requests : job[r].pc \in {"begun", "decide"} /\ job[r].how = "auto" => r \in consent
  /\ \A r \in lent : ~TextMode /\ r \in told /\ r \in consent
  /\ RunsHaveConsent

\* Only what is held is run again.
RetriesAreHeld ==
  /\ \A r \in Requests : gate[r] = "deferred" \/ disk[r] = "deferred" => r \in held
  /\ \A a \in Jobs : job[a].how = "retry" => ToSet(job[a].todo) \subseteq held

\* An action the owner is asked about is in nobody's hands before he has approved it, then
\* in those of one, who runs it once.
UntouchedBefore ==
  \A r \in Requests :
    job[r].pc \in {"idle", "begun"}
      \/ (job[r].how = "ask" /\ r \notin undone /\ gate[r] \in NotApproved)
    => runs[r] = 0 /\ \A a \in Jobs : ~Has(a, r)

InOneHand ==
  \A r \in Requests \ (held \cup undone) :
    job[r].how = "ask" =>
      /\ \A a, b \in Jobs : Has(a, r) /\ Has(b, r) => a = b
      /\ \A a \in Jobs : Has(a, r) /\ job[a].pc = "run" => runs[r] = 0
      /\ runs[r] <= 1

\* In card mode only the requester's own turn runs an action, and not after "not executed".
RunsAfterTheWait ==
  \A r \in Requests :
    ~TextMode /\ job[r].pc \in {"idle", "begun", "decide", "ask", "sent", "waiting", "woken", "gaveup"}
      => runs[r] = 0

\* Where an approval finds its requester, as long as nothing has crashed.
ApprovalFindsTurn ==
  used["crashes"] = 0 =>
    \A r \in Requests :
      /\ TextMode /\ gate[r] = "approved" => \E a \in Jobs : Has(a, r)
      /\ ~TextMode /\ gate[r] = "approved" => Has(r, r) \/ At(r, "sent") \/ Woken(r) \/ At(r, "gaveup")
      /\ ~TextMode /\ job[r].pc \in {"idle", "begun", "decide", "ask"}
           => gate[r] \in Open /\ r \notin told
      /\ ~TextMode /\ r \in told /\ gate[r] \in Open
           => At(r, "sent") \/ (At(r, "waiting") /\ r \in waiters) \/ At(r, "gaveup")

ApprovalInv ==
  /\ ApprovalType /\ RequestersTurn /\ OwnersTurn /\ ConsentFirst /\ RetriesAreHeld
  /\ UntouchedBefore /\ InOneHand /\ RunsAfterTheWait /\ ApprovalFindsTurn

-----------------------------------------------------------------------------
(* Sequences: what the model's helpers return. *)

LEMMA NatMin == ASSUME NEW T, T \subseteq Nat, T # {} PROVE \E x \in T : \A y \in T : x <= y
<1>1. PICK x \in T : \A y \in T : ~ (<<y, x>> \in OpToRel(<, Nat))
  BY WFMin, NatLessThanWellFounded
<1>2. \A y \in T : ~ (y < x)
  BY <1>1 DEF OpToRel
<1> QED BY <1>2

\* InOrder keeps what is in R; by the least index at which it would not.
LEMMA InOrderKeeps ==
  ASSUME asked \in Seq(Requests), NEW R
  PROVE  InOrder(R) \in Seq(Requests \cap R)
<1> DEFINE Elem(h, i) == IF i = 0 THEN <<>>
                         ELSE IF asked[i] \in R THEN Append(h[i - 1], asked[i]) ELSE h[i - 1]
           Upto(h, n) == h = [i \in 0..n |-> Elem(h, i)]
<1>1. Len(asked) \in Nat /\ \A i \in 1..Len(asked) : asked[i] \in Requests
  OBVIOUS
<1>2. \A n \in 0..Len(asked) : \E h : Upto(h, n)
  <2> DEFINE T == {n \in 0..Len(asked) : ~ \E h : Upto(h, n)}
  <2> SUFFICES ASSUME T # {} PROVE FALSE
    OBVIOUS
  <2>1. T \subseteq Nat
    BY <1>1
  <2>2. PICK m \in T : \A y \in T : m <= y
    BY <2>1, NatMin
  <2>3. m # 0
    <3>1. Upto([i \in 0..0 |-> <<>>], 0)
      OBVIOUS
    <3> QED BY <3>1
  <2>4. m \in 1..Len(asked) /\ m - 1 \in 0..Len(asked) /\ ~(m <= m - 1)
    BY <1>1, <2>1, <2>2, <2>3
  <2>5. PICK h : Upto(h, m - 1)
    BY <2>2, <2>4
  <2> DEFINE h2 == [i \in 0..m |-> IF i = m THEN Elem(h, m) ELSE h[i]]
  <2>6. \A i \in 0..m : i # 0 => i - 1 \in 0..m - 1 /\ i - 1 # m /\ i - 1 \in 0..m
    BY <2>4
  <2>7. \A i \in 0..m : i # m => i \in 0..m-1
    BY <2>4
  <2>8. \A i \in 0..m : i # 0 => h2[i - 1] = h[i - 1]
    BY <2>6
  <2>9. \A i \in 0..m : Elem(h2, i) = Elem(h, i)
    BY <2>8
  <2>10. \A i \in 0..m : i # m => h[i] = Elem(h, i)
    <3> HIDE DEF Elem
    <3> QED BY <2>5, <2>7
  <2>11. \A i \in 0..m : h2[i] = Elem(h2, i)
    <3> HIDE DEF Elem
    <3> QED BY <2>9, <2>10
  <2>12. Upto(h2, m)
    <3> HIDE DEF Elem
    <3> QED BY <2>11
  <2> QED BY <2>12
<1> DEFINE F == CHOOSE h : Upto(h, Len(asked))
<1>3. Upto(F, Len(asked))
  <2>1. Len(asked) \in 0..Len(asked)
    BY <1>1
  <2>2. \E h : Upto(h, Len(asked))
    BY <1>2, <2>1
  <2> HIDE DEF Upto
  <2> QED BY <2>2
<1>4. InOrder(R) = F[Len(asked)]
  BY DEF InOrder
<1> HIDE DEF F
<1>5. \A i \in 0..Len(asked) : F[i] = Elem(F, i)
  <2> HIDE DEF Elem
  <2> QED BY <1>3
<1>6. \A i \in 0..Len(asked) : F[i] \in Seq(Requests \cap R)
  <2> DEFINE T == {n \in 0..Len(asked) : F[n] \notin Seq(Requests \cap R)}
  <2> SUFFICES ASSUME T # {} PROVE FALSE
    OBVIOUS
  <2>1. T \subseteq Nat
    BY <1>1
  <2>2. PICK m \in T : \A y \in T : m <= y
    BY <2>1, NatMin
  <2>3. m # 0
    <3>1. 0 \in 0..Len(asked)
      BY <1>1
    <3>2. F[0] = <<>>
      BY <1>5, <3>1
    <3> QED BY <3>2, EmptySeq
  <2>4. m \in 1..Len(asked) /\ m - 1 \in 0..Len(asked) /\ ~(m <= m - 1) /\ m \in 0..Len(asked)
    BY <1>1, <2>1, <2>2, <2>3
  <2>5. F[m - 1] \in Seq(Requests \cap R)
    BY <2>2, <2>4
  <2>6. F[m] = Elem(F, m)
    BY <1>5, <2>4
  <2>7. CASE asked[m] \in R
    <3>1. F[m] = Append(F[m-1], asked[m])
      BY <2>3, <2>6, <2>7
    <3>2. asked[m] \in Requests \cap R
      BY <1>1, <2>4, <2>7
    <3>3. Append(F[m-1], asked[m]) \in Seq(Requests \cap R)
      BY <2>5, <3>2, AppendProperties
    <3> QED BY <3>1, <3>3
  <2>8. CASE asked[m] \notin R
    BY <2>3, <2>5, <2>6, <2>8
  <2> QED BY <2>7, <2>8
<1> QED BY <1>1, <1>4, <1>6

\* A sequence of one, and what is left of a longer one.
LEMMA OneElement ==
  ASSUME NEW r
  PROVE  ToSet(<<r>>) = {r} /\ Head(<<r>>) = r /\ Tail(<<r>>) = <<>>
BY DEF ToSet

LEMMA HeadAndTail ==
  ASSUME NEW S, NEW q \in Seq(S), q # <<>>
  PROVE  /\ Head(q) \in S /\ Head(q) \in ToSet(q)
         /\ Tail(q) \in Seq(S) /\ ToSet(Tail(q)) \subseteq ToSet(q)
         /\ \A x \in ToSet(q) : x = Head(q) \/ (x \in ToSet(Tail(q)) /\ Tail(q) # <<>>)
<1>1. Len(q) \in Nat /\ Len(q) # 0 /\ DOMAIN q = 1..Len(q) /\ Head(q) = q[1]
  OBVIOUS
<1>2. Tail(q) \in Seq(S) /\ Len(Tail(q)) = Len(q) - 1 /\ DOMAIN Tail(q) = 1..(Len(q) - 1)
  OBVIOUS
<1>3. \A i \in 1..(Len(q) - 1) : Tail(q)[i] = q[i + 1] /\ i + 1 \in 1..Len(q)
  OBVIOUS
<1>4. \A i \in 1..Len(q) : i = 1 \/ (i - 1 \in 1..(Len(q) - 1) /\ Tail(q)[i - 1] = q[i])
  <2>1. \A i \in 1..Len(q) : i # 1 => i - 1 \in 1..(Len(q) - 1) /\ (i - 1) + 1 = i
    BY <1>1
  <2> QED BY <2>1, <1>3
<1>5. Tail(q) = <<>> => 1..(Len(q) - 1) = {}
  BY <1>2
<1> HIDE <1>2
<1>6. \A x \in ToSet(q) : x = Head(q) \/ (x \in ToSet(Tail(q)) /\ Tail(q) # <<>>)
  BY <1>1, <1>2, <1>4, <1>5, ZenonT(40) DEF ToSet
<1>7. ToSet(Tail(q)) \subseteq ToSet(q)
  BY <1>1, <1>2, <1>3 DEF ToSet
<1> QED BY <1>1, <1>2, <1>6, <1>7 DEF ToSet

LEMMA LastElement ==
  ASSUME NEW S, NEW q \in Seq(S), q # <<>>
  PROVE  Last(q) \in S
BY DEF Last

LEMMA SetOfSeq ==
  ASSUME NEW S, NEW q \in Seq(S)
  PROVE  ToSet(q) \subseteq S
BY DEF ToSet

LEMMA AppendNew ==
  ASSUME NEW S, NEW q \in Seq(S), NEW x \in S, IsInjective(q), x \notin ToSet(q)
  PROVE  /\ Append(q, x) \in Seq(S) /\ IsInjective(Append(q, x))
         /\ ToSet(Append(q, x)) = ToSet(q) \cup {x}
<1>1. /\ Len(q) \in Nat /\ DOMAIN q = 1..Len(q)
      /\ Append(q, x) \in Seq(S) /\ DOMAIN Append(q, x) = 1..(Len(q) + 1)
      /\ \A i \in 1..Len(q) : Append(q, x)[i] = q[i]
      /\ Append(q, x)[Len(q) + 1] = x
  BY AppendProperties
<1> DEFINE n == Len(q)
           w == Append(q, x)
<1>2. \A i \in 1..(n + 1) : i \in 1..n \/ i = n + 1
  BY <1>1
<1>3. 1..n \subseteq 1..(n + 1) /\ n + 1 \in 1..(n + 1)
  BY <1>1
<1>4. /\ w \in Seq(S) /\ DOMAIN q = 1..n /\ DOMAIN w = 1..(n + 1)
      /\ \A i \in 1..n : w[i] = q[i]
      /\ w[n + 1] = x
  BY <1>1
<1> HIDE DEF n, w
<1>5. ToSet(w) = ToSet(q) \cup {x}
  BY <1>2, <1>3, <1>4 DEF ToSet
<1>6. \A i \in 1..n : w[i] # x
  BY <1>4 DEF ToSet
<1>7. IsInjective(w)
  BY <1>2, <1>4, <1>6 DEF IsInjective
<1> QED BY <1>4, <1>5, <1>7 DEF w
-----------------------------------------------------------------------------
(* What a step does to the goroutines, and what a record does to the gate. *)

\* Goroutine a is at p for reason h with the requests q in hand; nobody else moves.
Turned(a, p, h, q) ==
  /\ job' \in JobType
  /\ job'[a].pc = p /\ job'[a].how = h /\ job'[a].todo = q
  /\ \A b \in Jobs : b # a => job'[b] = job[b]

\* The bounds are kept and nothing crashes.
Spent ==
  /\ used' \in [Kinds -> Nat] /\ \A b \in Kinds : used'[b] <= Bound[b]
  /\ used'["crashes"] = used["crashes"]

\* Request r is in that state, and on disk it is or stays what it was.
Filed(r, state) ==
  /\ gate' \in [Requests -> States] /\ gate'[r] = state
  /\ disk' \in [Requests -> States] /\ disk'[r] \in {disk[r], state}
  /\ \A o \in Requests : o # r => gate'[o] = gate[o] /\ disk'[o] = disk[o]

USE ApprovalAssumption

LEMMA Goroutines ==
  /\ Requests \subseteq Jobs /\ Replies \subseteq Jobs /\ Ticker \in Jobs
  /\ \A a \in Jobs : a \in Requests \/ a \in Replies \cup {Ticker}
  /\ \A a \in Replies \cup {Ticker} : a \notin Requests
BY DEF Jobs

LEMMA BoundType == Bound \in [Kinds -> Nat] /\ DOMAIN Bound = Kinds
BY DEF Bound, Kinds

LEMMA SpendOne ==
  ASSUME ApprovalType, NEW b \in Kinds, Left(b), Use(b)
  PROVE  /\ used' \in [Kinds -> Nat] /\ \A k \in Kinds : used'[k] <= Bound[k]
         /\ b # "crashes" => used'["crashes"] = used["crashes"]
         /\ b = "crashes" => used'["crashes"] # 0
<1> HIDE ApprovalAssumption
<1>1. used[b] < Bound[b] /\ used' = [used EXCEPT ![b] = used[b] + 1]
  BY DEF Left, Use
<1>2. used \in [Kinds -> Nat] /\ (\A k \in Kinds : used[k] <= Bound[k]) /\ Bound \in [Kinds -> Nat]
  BY BoundType DEF ApprovalType
<1>3. "crashes" \in Kinds
  BY DEF Kinds
<1>4. used[b] \in Nat /\ Bound[b] \in Nat
  BY <1>2
<1>5. used[b] + 1 \in Nat /\ used[b] + 1 <= Bound[b] /\ used[b] + 1 # 0
  BY <1>1, <1>4
<1> QED BY <1>1, <1>2, <1>3, <1>5

LEMMA Stays ==
  ASSUME ApprovalType, used' = used
  PROVE  Spent
BY DEF ApprovalType, Spent

LEMMA MovesOn ==
  ASSUME ApprovalType, NEW a \in Jobs, NEW p \in Places, Goto(a, p)
  PROVE  Turned(a, p, job[a].how, job[a].todo)
BY ZenonT(40) DEF ApprovalType, JobType, Goto, Turned

LEMMA Sets ==
  ASSUME ApprovalType, NEW a \in Jobs, NEW p \in Places, NEW h \in Reasons,
         NEW q \in Seq(Requests),
         job' = [job EXCEPT ![a] = [pc |-> p, how |-> h, todo |-> q]]
  PROVE  Turned(a, p, h, q)
BY DEF ApprovalType, JobType, Turned

LEMMA Files ==
  ASSUME ApprovalType, NEW r \in Requests, NEW state \in States, Put(r, state)
  PROVE  Filed(r, state) /\ Spent
<1>1. Filed(r, state)
  BY DEF ApprovalType, Put, Filed
<1>2. CASE used' = used
  BY <1>1, <1>2, Stays
<1>3. CASE Left("faults") /\ Use("faults")
  BY <1>1, <1>3, SpendOne DEF Kinds, Spent
<1> QED BY <1>2, <1>3 DEF Put

-----------------------------------------------------------------------------
(* One lemma per action. *)

LEMMA Start == Init => ApprovalInv
<1> SUFFICES ASSUME Init PROVE ApprovalInv
  OBVIOUS
<1> USE DEF Init
<1>1. job \in JobType /\ \A a \in Jobs : job[a].pc = "idle" /\ job[a].how = "none"
  BY DEF Idle, JobType, Places, Reasons
<1>2. ToSet(asked) = {} /\ IsInjective(asked) /\ asked \in Seq(Requests)
  BY DEF ToSet, IsInjective
<1>3. used \in [Kinds -> Nat] /\ \A b \in Kinds : used[b] <= Bound[b]
  BY BoundType
<1>4. \A a \in Jobs, r \in Requests : ~Has(a, r)
  BY <1>1 DEF Has, Running
<1>5. ApprovalType
  BY <1>1, <1>2, <1>3 DEF ApprovalType, States, Running
<1>6. RequestersTurn
  BY <1>1, <1>2, Goroutines DEF RequestersTurn, Running
<1>7. OwnersTurn
  BY <1>1, Goroutines DEF OwnersTurn, Running
<1>8. ConsentFirst /\ RetriesAreHeld
  BY <1>1, <1>4, Goroutines DEF ConsentFirst, RetriesAreHeld, NotApproved, Open, RunsHaveConsent
<1>9. UntouchedBefore /\ InOneHand /\ RunsAfterTheWait /\ ApprovalFindsTurn
  BY <1>1, <1>4, Goroutines DEF UntouchedBefore, InOneHand, RunsAfterTheWait, ApprovalFindsTurn, Open
<1> QED BY <1>5, <1>6, <1>7, <1>8, <1>9 DEF ApprovalInv

LEMMA BeginStep ==
  ASSUME ApprovalInv, NEW r \in Requests, Begin(r)
  PROVE  ApprovalInv'
<1> USE DEF ApprovalInv
<1>1. /\ job[r].pc = "idle" /\ Turned(r, "begun", GateDecision(r), <<r>>)
      /\ GateDecision(r) \in {"ask", "auto", "reject"}
  <2>1. GateDecision(r) \in {"ask", "auto", "reject"}
    BY DEF GateDecision
  <2>2. job[r].pc = "idle"
        /\ job' = [job EXCEPT ![r] = [pc |-> "begun", how |-> GateDecision(r), todo |-> <<r>>]]
    BY DEF Begin, At
  <2>3. "begun" \in Places /\ GateDecision(r) \in Reasons /\ <<r>> \in Seq(Requests) /\ r \in Jobs
    BY <2>1, Goroutines DEF Places, Reasons
  <2> QED BY <2>1, <2>2, <2>3, Sets
<1>2. /\ consent' = IF GateDecision(r) = "auto" THEN consent \cup {r} ELSE consent
      /\ UNCHANGED <<gates, told, lent, held, undone, runs, used>>
  BY DEF Begin
<1>3. Has(r, r)' = FALSE /\ (\A x \in Requests : ~Has(r, x)') /\ ~Has(r, r)
      /\ \A a \in Jobs, x \in Requests : Has(a, x)' => Has(a, x)
  BY <1>1, Goroutines DEF Has, Turned, Running
<1> USE DEF gates
<1>4. ApprovalType'
  BY <1>1, <1>2 DEF ApprovalType, Turned, Running
<1>5. RequestersTurn' /\ OwnersTurn'
  BY <1>1, <1>2, Goroutines DEF RequestersTurn, OwnersTurn, Turned, Running, Current
<1>6. ConsentFirst'
  BY <1>1, <1>2, <1>3, Goroutines DEF ConsentFirst, RequestersTurn, Turned, RunsHaveConsent
<1>7. RetriesAreHeld'
  BY <1>1, <1>2, Goroutines DEF RetriesAreHeld, Turned
<1>8. UntouchedBefore'
  BY <1>1, <1>2, <1>3, Goroutines DEF UntouchedBefore, Turned
<1>9. InOneHand' /\ RunsAfterTheWait'
  BY <1>1, <1>2, <1>3, Goroutines DEF InOneHand, RunsAfterTheWait, UntouchedBefore, Turned
<1>10. ApprovalFindsTurn'
  BY <1>1, <1>2, <1>3, Goroutines DEF ApprovalFindsTurn, Turned, RequestersTurn, Open, Has, At, Woken
<1> QED BY <1>4, <1>5, <1>6, <1>7, <1>8, <1>9, <1>10

LEMMA SubmitStep ==
  ASSUME ApprovalInv, NEW r \in Requests, Submit(r)
  PROVE  ApprovalInv'
<1> USE DEF ApprovalInv
<1> DEFINE p == IF job[r].how = "ask" THEN "ask" ELSE "decide"
<1>1. /\ job[r].pc = "begun" /\ job[r].todo = <<r>> /\ r \notin ToSet(asked)
      /\ Turned(r, p, job[r].how, <<r>>)
  <2>1. job[r].pc = "begun" /\ Goto(r, p) /\ p \in Places /\ r \in Jobs
    BY Goroutines DEF Submit, At, Places
  <2>2. job[r].todo = <<r>> /\ r \notin ToSet(asked)
    BY <2>1 DEF RequestersTurn
  <2> QED BY <2>1, <2>2, MovesOn
<1>2. Filed(r, "pending") /\ Spent
  BY Files DEF Submit, States
<1>3. asked' = Append(asked, r) /\ UNCHANGED <<waiters, remembered, told, consent, lent, held, undone, runs>>
  BY DEF Submit, history
<1>4. asked' \in Seq(Requests) /\ IsInjective(asked') /\ ToSet(asked') = ToSet(asked) \cup {r}
  BY <1>1, <1>3, AppendNew DEF ApprovalType
<1>5. \A a \in Jobs, x \in Requests : Has(a, x)' <=> Has(a, x)
  BY <1>1, Goroutines DEF Has, Turned, Running
<1> USE DEF Turned, Filed
<1>6. ApprovalType'
  BY <1>1, <1>2, <1>3, <1>4, Goroutines DEF ApprovalType, Running, Spent, Open
<1>7. RequestersTurn' /\ OwnersTurn'
  <2>1. RequestersTurn'
    BY <1>1, <1>2, <1>3, <1>4, Goroutines, SMTT(30) DEF RequestersTurn, Running, Current
  <2>2. OwnersTurn'
    BY <1>1, <1>2, <1>3, <1>4, Goroutines, SMTT(30) DEF OwnersTurn, Running, Current
  <2> QED BY <2>1, <2>2
<1>8. ConsentFirst'
  BY <1>1, <1>2, <1>3, <1>5, Goroutines
     DEF ConsentFirst, RequestersTurn, RunsHaveConsent, NotApproved, Open
<1>9. RetriesAreHeld'
  BY <1>1, <1>2, <1>3, Goroutines DEF RetriesAreHeld
<1>10. UntouchedBefore'
  BY <1>1, <1>2, <1>3, <1>5, Goroutines DEF UntouchedBefore
<1>11. InOneHand' /\ RunsAfterTheWait'
  BY <1>1, <1>2, <1>3, <1>5, Goroutines DEF InOneHand, RunsAfterTheWait, UntouchedBefore
<1>12. ApprovalFindsTurn'
  BY <1>1, <1>2, <1>3, <1>5, Goroutines
     DEF ApprovalFindsTurn, RequestersTurn, Open, At, Woken, Spent
<1> QED BY <1>6, <1>7, <1>8, <1>9, <1>10, <1>11, <1>12

\* The remembered verdict, or the policy's: nobody else has the request in card mode.
LEMMA AutoDecideStep ==
  ASSUME ApprovalInv, NEW r \in Requests, AutoDecide(r)
  PROVE  ApprovalInv'
<1> USE DEF ApprovalInv
<1> DEFINE p == IF job[r].how = "auto" THEN "run" ELSE "done"
           verdict == IF job[r].how = "auto" THEN "approved" ELSE "rejected"
<1>1. /\ job[r].pc = "decide" /\ job[r].todo = <<r>> /\ job[r].how \in {"auto", "reject"}
      /\ Turned(r, p, job[r].how, <<r>>)
  <2>1. job[r].pc = "decide" /\ Goto(r, p) /\ p \in Places /\ r \in Jobs
    BY Goroutines DEF AutoDecide, At, Places, Running
  <2>2. job[r].todo = <<r>> /\ job[r].how \in {"auto", "reject"}
    BY <2>1 DEF RequestersTurn
  <2> QED BY <2>1, <2>2, MovesOn
<1>2. /\ Spent
      /\ \/ gate[r] \in Open /\ Filed(r, verdict) /\ waiters' = waiters \ {r}
         \/ gate[r] \notin Open /\ UNCHANGED <<gate, disk, waiters>>
  <2>1. CASE Deciding(r)
    <3>1. gate[r] \in Open
      BY <2>1 DEF Deciding, Decided, ApprovalType, States, Open
    <3>2. Put(r, verdict) /\ waiters' = waiters \ {r}
      BY <2>1 DEF AutoDecide, Decide
    <3> QED BY <3>1, <3>2, Files DEF States
  <2>2. CASE ~Deciding(r)
    BY <2>2, Stays DEF AutoDecide, Deciding, Decided, Open
  <2> QED BY <2>1, <2>2
<1>3. UNCHANGED <<asked, remembered, told, consent, lent, held, undone, runs>>
  BY DEF AutoDecide, history
<1>4. \A a \in Jobs, x \in Requests :
        Has(a, x)' <=> Has(a, x) \/ (a = r /\ x = r /\ job[r].how = "auto")
  <2>1. \A a \in Jobs, x \in Requests : a # r => (Has(a, x)' <=> Has(a, x))
    BY <1>1 DEF Has, Turned
  <2>2. \A x \in Requests : ~Has(r, x)
    BY <1>1 DEF Has, Running
  <2>3. \A x \in Requests : Has(r, x)' <=> x = r /\ job[r].how = "auto"
    BY <1>1, OneElement DEF Has, Turned, Running
  <2> QED BY <2>1, <2>2, <2>3
<1> USE DEF Turned, Filed
<1>5. ApprovalType'
  <2>1. verdict \in States
    BY DEF States
  <2>2. \A x \in waiters' : x \in waiters /\ gate'[x] = gate[x]
    BY <1>2 DEF ApprovalType
  <2>3. gate' \in [Requests -> States] /\ disk' \in [Requests -> States]
    BY <1>2 DEF ApprovalType
  <2>4. waiters' \subseteq Requests /\ \A x \in waiters' : gate'[x] \in Open
    BY <1>2, <2>2 DEF ApprovalType
  <2>5. job' \in JobType /\ \A a \in Jobs : job'[a].pc \in Running => job'[a].todo # <<>>
    <3>1. job' \in JobType /\ job'[r].todo # <<>> /\ \A a \in Jobs : a # r => job'[a] = job[a]
      BY <1>1
    <3>2. \A a \in Jobs : job[a].pc \in Running => job[a].todo # <<>>
      BY DEF ApprovalType
    <3> QED BY <3>1, <3>2
  <2> QED BY <1>2, <1>3, <2>3, <2>4, <2>5 DEF ApprovalType, Spent
<1>6. RequestersTurn' /\ OwnersTurn'
  BY <1>1, <1>2, <1>3, Goroutines DEF RequestersTurn, OwnersTurn, Running, Current
<1>7. ConsentFirst'
  BY <1>1, <1>2, <1>3, <1>4, Goroutines
     DEF ConsentFirst, RequestersTurn, RunsHaveConsent, NotApproved, Open
<1>8. RetriesAreHeld'
  BY <1>1, <1>2, <1>3, Goroutines DEF RetriesAreHeld
<1>9. UntouchedBefore'
  BY <1>1, <1>2, <1>3, <1>4, Goroutines DEF UntouchedBefore, NotApproved
<1>10. InOneHand'
  <2>1. \A x \in Requests : job'[x].how = job[x].how /\ (x # r => job'[x] = job[x])
    BY <1>1, Goroutines
  <2>2. \A a \in Jobs, x \in Requests : job[x].how = "ask" => (Has(a, x)' <=> Has(a, x))
    BY <1>1, <1>4
  <2>3. \A a \in Jobs, x \in Requests :
          job[x].how = "ask" /\ Has(a, x) /\ job'[a].pc = "run" => job[a].pc = "run"
    BY <1>1 DEF Has, Running
  <2> QED BY <1>3, <2>1, <2>2, <2>3 DEF InOneHand
<1>10a. RunsAfterTheWait'
  BY <1>1, <1>3, Goroutines DEF RunsAfterTheWait
<1>11. ApprovalFindsTurn'
  BY <1>1, <1>2, <1>3, <1>4, Goroutines
     DEF ApprovalFindsTurn, RequestersTurn, Open, At, Woken, Spent
<1> QED BY <1>5, <1>6, <1>7, <1>8, <1>9, <1>10, <1>10a, <1>11

\* The question goes out; the record is written once more where it is a card.
LEMMA AskStep ==
  ASSUME ApprovalInv, NEW r \in Requests, Ask(r)
  PROVE  ApprovalInv'
<1> USE DEF ApprovalInv
<1> DEFINE p == IF TextMode THEN "done" ELSE "sent"
<1>1. /\ job[r].pc = "ask" /\ job[r].todo = <<r>> /\ job[r].how = "ask"
      /\ Turned(r, p, "ask", <<r>>)
  <2>1. job[r].pc = "ask" /\ Goto(r, p) /\ p \in Places /\ r \in Jobs
    BY Goroutines DEF Ask, At, Places
  <2>2. job[r].todo = <<r>> /\ job[r].how = "ask"
    BY <2>1 DEF RequestersTurn
  <2> QED BY <2>1, <2>2, MovesOn
<1>2. Spent /\ Filed(r, gate[r])
  <2>1. CASE TextMode
    BY <2>1, Stays DEF Ask, Filed, ApprovalType
  <2>2. CASE ~TextMode
    BY <2>2, Files DEF Ask, ApprovalType
  <2> QED BY <2>1, <2>2
<1>3. told' = told \cup {r} /\ UNCHANGED <<asked, waiters, remembered, consent, lent, held, undone, runs>>
  BY DEF Ask
<1>4. \A a \in Jobs, x \in Requests : Has(a, x)' <=> Has(a, x)
  BY <1>1, Goroutines DEF Has, Turned, Running
<1> USE DEF Turned, Filed
<1>5. ApprovalType'
  BY <1>1, <1>2, <1>3, Goroutines DEF ApprovalType, Running, Spent
<1>6. RequestersTurn' /\ OwnersTurn'
  BY <1>1, <1>2, <1>3, Goroutines DEF RequestersTurn, OwnersTurn, Running, Current
<1>7. ConsentFirst'
  BY <1>1, <1>2, <1>3, <1>4, Goroutines DEF ConsentFirst, RunsHaveConsent
<1>8. RetriesAreHeld'
  BY <1>1, <1>2, <1>3, Goroutines DEF RetriesAreHeld
<1>9. UntouchedBefore' /\ InOneHand' /\ RunsAfterTheWait'
  BY <1>1, <1>2, <1>3, <1>4, Goroutines DEF UntouchedBefore, InOneHand, RunsAfterTheWait
<1>10. ApprovalFindsTurn'
  BY <1>1, <1>2, <1>3, <1>4, Goroutines
     DEF ApprovalFindsTurn, RequestersTurn, Open, At, Woken, Spent
<1> QED BY <1>5, <1>6, <1>7, <1>8, <1>9, <1>10

LEMMA AskFailsStep ==
  ASSUME ApprovalInv, NEW r \in Requests, AskFails(r)
  PROVE  ApprovalInv'
<1> USE DEF ApprovalInv
<1>1. PICK p \in {"done", "gaveup"} :
        /\ job[r].pc = "ask" /\ Turned(r, p, job[r].how, job[r].todo)
        /\ p = "gaveup" => ~TextMode
        /\ told' = told \/ told' = told \cup {r}
        /\ ~TextMode /\ p = "done" => told' = told
        /\ p = "gaveup" => told' = told \cup {r}
  BY MovesOn, Goroutines DEF AskFails, At, Places
<1>2. Spent
  BY SpendOne DEF AskFails, Kinds, Spent
<1>3. UNCHANGED <<gates, consent, lent, held, undone, runs>>
  BY DEF AskFails
<1>4. \A a \in Jobs, x \in Requests : Has(a, x)' <=> Has(a, x)
  BY <1>1, Goroutines DEF Has, Turned, Running
<1> USE DEF Turned, gates
<1>5. ApprovalType'
  BY <1>1, <1>2, <1>3, Goroutines DEF ApprovalType, Running, Spent
<1>6. RequestersTurn' /\ OwnersTurn'
  BY <1>1, <1>2, <1>3, Goroutines DEF RequestersTurn, OwnersTurn, Running, Current
<1>7. ConsentFirst' /\ RetriesAreHeld'
  BY <1>1, <1>2, <1>3, <1>4, Goroutines DEF ConsentFirst, RunsHaveConsent, RetriesAreHeld
<1>8. UntouchedBefore' /\ InOneHand' /\ RunsAfterTheWait'
  BY <1>1, <1>2, <1>3, <1>4, Goroutines DEF UntouchedBefore, InOneHand, RunsAfterTheWait
<1>9. ApprovalFindsTurn'
  BY <1>1, <1>2, <1>3, <1>4, Goroutines
     DEF ApprovalFindsTurn, RequestersTurn, Open, At, Woken, Spent
<1> QED BY <1>5, <1>6, <1>7, <1>8, <1>9

\* The check and the subscription are one step: who is decided does not wait.
LEMMA AwaitStep ==
  ASSUME ApprovalInv, NEW r \in Requests, Await(r)
  PROVE  ApprovalInv'
<1> USE DEF ApprovalInv
<1>1. /\ job[r].pc = "sent"
      /\ \/ gate[r] \notin Open /\ Turned(r, "woken", job[r].how, job[r].todo) /\ waiters' = waiters
         \/ /\ gate[r] \in Open /\ Turned(r, "waiting", job[r].how, job[r].todo)
            /\ waiters' = waiters \cup {r}
  <2>1. gate[r] \in Open <=> ~Decided(r)
    BY DEF ApprovalType, States, Open, Decided
  <2> QED BY <2>1, MovesOn, Goroutines DEF Await, At, Places
<1>2. Spent
  BY Stays DEF Await
<1>3. UNCHANGED <<gate, disk, asked, remembered, told, consent, lent, held, undone, runs, used>>
  BY DEF Await, history
<1>4. \A a \in Jobs, x \in Requests : Has(a, x)' <=> Has(a, x)
  BY <1>1, Goroutines DEF Has, Turned, Running
<1> USE DEF Turned
<1>5. ApprovalType'
  BY <1>1, <1>2, <1>3, Goroutines DEF ApprovalType, Running, Spent
<1>6. RequestersTurn' /\ OwnersTurn'
  BY <1>1, <1>2, <1>3, Goroutines DEF RequestersTurn, OwnersTurn, Running, Current
<1>7. ConsentFirst' /\ RetriesAreHeld'
  BY <1>1, <1>2, <1>3, <1>4, Goroutines DEF ConsentFirst, RunsHaveConsent, RetriesAreHeld
<1>8. UntouchedBefore' /\ InOneHand' /\ RunsAfterTheWait'
  BY <1>1, <1>2, <1>3, <1>4, Goroutines DEF UntouchedBefore, InOneHand, RunsAfterTheWait
<1>9. ApprovalFindsTurn'
  BY <1>1, <1>2, <1>3, <1>4, Goroutines
     DEF ApprovalFindsTurn, RequestersTurn, Open, At, Woken, Spent
<1> QED BY <1>5, <1>6, <1>7, <1>8, <1>9

\* In card mode the requester alone runs what was approved.
LEMMA VerdictStep ==
  ASSUME ApprovalInv, NEW r \in Requests, Verdict(r)
  PROVE  ApprovalInv'
<1> USE DEF ApprovalInv
<1> DEFINE p == IF Approved(r) THEN "run" ELSE "done"
<1>1. /\ job[r].pc \in {"waiting", "woken"} /\ ~TextMode /\ r \in told
      /\ job[r].pc = "waiting" => r \notin waiters
      /\ job[r].todo = <<r>> /\ job[r].how = "ask"
      /\ Turned(r, p, "ask", <<r>>)
  <2>1. /\ job[r].pc \in {"waiting", "woken"} /\ (job[r].pc = "waiting" => r \notin waiters)
        /\ Goto(r, p) /\ p \in Places /\ r \in Jobs
    BY Goroutines DEF Verdict, Woken, At, Places, Running
  <2>2. job[r].todo = <<r>> /\ job[r].how = "ask" /\ ~TextMode /\ r \in told
    BY <2>1 DEF RequestersTurn
  <2> QED BY <2>1, <2>2, MovesOn
<1>2. Approved(r) <=> gate[r] \notin NotApproved
  BY DEF ApprovalType, States, Approved, NotApproved, Open
<1>3. UNCHANGED <<gate, disk, asked, waiters, remembered, told, consent, lent, held, undone, runs, used>>
  BY DEF Verdict, gates, history
<1>4. Spent
  BY <1>3, Stays
<1>5. \A a \in Jobs, x \in Requests : Has(a, x)' <=> Has(a, x) \/ (a = r /\ x = r /\ Approved(r))
  <2>1. \A a \in Jobs, x \in Requests : a # r => (Has(a, x)' <=> Has(a, x))
    BY <1>1 DEF Has, Turned
  <2>2. \A x \in Requests : ~Has(r, x)
    BY <1>1 DEF Has, Running
  <2>3. \A x \in Requests : Has(r, x)' <=> x = r /\ Approved(r)
    BY <1>1, OneElement DEF Has, Turned, Running
  <2> QED BY <2>1, <2>2, <2>3
<1>6. \A a \in Jobs : ~Has(a, r)
  <2>1. \A a \in Requests : job[a].pc \in Running => job[a].todo = <<a>>
    BY DEF RequestersTurn, Running
  <2>2. ASSUME NEW a \in Requests, a # r PROVE ~Has(a, r)
    <3>1. ToSet(<<a>>) = {a}
      BY OneElement
    <3>2. job[a].pc \in Running => ToSet(job[a].todo) = {a}
      BY <2>1, <3>1
    <3> QED BY <2>2, <3>2 DEF Has
  <2>3. ~Has(r, r)
    BY <1>1 DEF Has, Running
  <2>4. \A a \in Replies \cup {Ticker} : job[a].pc = "idle"
    BY <1>1 DEF OwnersTurn
  <2>5. \A a \in Replies \cup {Ticker} : ~Has(a, r)
    BY <2>4 DEF Has, Running
  <2> QED BY <2>2, <2>3, <2>5, Goroutines
<1>7. runs[r] = 0
  BY <1>1 DEF RunsAfterTheWait
<1> USE DEF Turned
<1>8. ApprovalType'
  <2>1. job' \in JobType /\ job'[r].todo # <<>> /\ \A a \in Jobs : a # r => job'[a] = job[a]
    BY <1>1
  <2> QED BY <1>3, <1>4, <2>1 DEF ApprovalType, Spent
<1>9. RequestersTurn' /\ OwnersTurn'
  BY <1>1, <1>3, Goroutines DEF RequestersTurn, OwnersTurn, Running, Current
<1>10. ConsentFirst' /\ RetriesAreHeld'
  BY <1>1, <1>2, <1>3, <1>5, Goroutines DEF ConsentFirst, RunsHaveConsent, RetriesAreHeld
<1>11. UntouchedBefore' /\ RunsAfterTheWait'
  BY <1>1, <1>2, <1>3, <1>5, Goroutines DEF UntouchedBefore, RunsAfterTheWait
<1>12. InOneHand'
  <2>1. \A x \in Requests : job'[x].how = job[x].how
    BY <1>1, Goroutines
  <2>2. \A a \in Jobs, x \in Requests : x # r => (Has(a, x)' <=> Has(a, x))
    BY <1>5
  <2>3. \A a \in Jobs, x \in Requests :
          x # r /\ Has(a, x) /\ job'[a].pc = "run" => job[a].pc = "run"
    BY <1>1 DEF Has, Running
  <2>4. \A a \in Jobs : Has(a, r)' => a = r
    BY <1>5, <1>6
  <2> QED BY <1>3, <1>7, <2>1, <2>2, <2>3, <2>4 DEF InOneHand
<1>13. ApprovalFindsTurn'
  <2>1. used["crashes"] = 0 => gate[r] \notin Open
    BY <1>1 DEF ApprovalFindsTurn, At
  <2>2. gate[r] = "approved" => Approved(r)
    BY DEF Approved
  <2> QED BY <1>1, <1>3, <1>5, <2>1, <2>2, Goroutines DEF ApprovalFindsTurn, At, Woken
<1> QED BY <1>8, <1>9, <1>10, <1>11, <1>12, <1>13

LEMMA GiveUpStep ==
  ASSUME ApprovalInv, NEW r \in Requests, GiveUp(r)
  PROVE  ApprovalInv'
<1> USE DEF ApprovalInv
<1>1. job[r].pc = "waiting" /\ Turned(r, "gaveup", job[r].how, job[r].todo)
  BY MovesOn, Goroutines DEF GiveUp, At, Places
<1>2. UNCHANGED <<gate, disk, asked, waiters, remembered, told, consent, lent, held, undone, runs, used>>
  BY DEF GiveUp, gates, history
<1>3. Spent
  BY <1>2, Stays
<1>4. \A a \in Jobs, x \in Requests : Has(a, x)' <=> Has(a, x)
  BY <1>1, Goroutines DEF Has, Turned, Running
<1> USE DEF Turned
<1>5. ApprovalType'
  BY <1>1, <1>2, <1>3, Goroutines DEF ApprovalType, Running, Spent
<1>6. RequestersTurn' /\ OwnersTurn'
  BY <1>1, <1>2, Goroutines DEF RequestersTurn, OwnersTurn, Running, Current
<1>7. ConsentFirst' /\ RetriesAreHeld'
  BY <1>1, <1>2, <1>4, Goroutines DEF ConsentFirst, RunsHaveConsent, RetriesAreHeld
<1>8. UntouchedBefore' /\ InOneHand' /\ RunsAfterTheWait'
  BY <1>1, <1>2, <1>4, Goroutines DEF UntouchedBefore, InOneHand, RunsAfterTheWait
<1>9. ApprovalFindsTurn'
  BY <1>1, <1>2, <1>4, Goroutines DEF ApprovalFindsTurn, RequestersTurn, Open, At, Woken
<1> QED BY <1>5, <1>6, <1>7, <1>8, <1>9

\* A message of the owner, or a tick, finds what there is to decide or to run again.
LEMMA TakesUp ==
  ASSUME ApprovalInv, NEW s \in Replies \cup {Ticker}, NEW p \in Places, NEW h \in Reasons,
         NEW q \in Seq(Requests),
         job[s].pc = "idle", TextMode, Turned(s, p, h, q),
         \/ /\ p = "run" /\ h = "retry" /\ q # <<>>
            /\ \A x \in ToSet(q) : gate[x] = "deferred"
         \/ /\ p = "rule" /\ h \in {"approve", "reject"} /\ q = <<Head(q)>>
            /\ Head(q) \in Requests /\ gate[Head(q)] # "none"
         \/ p = "done" /\ q = <<>>,
         UNCHANGED <<gates, history, used>>
  PROVE  ApprovalInv'
<1> USE DEF ApprovalInv, Turned, gates, history
<1>1. s \in Jobs /\ s \notin Requests /\ \A r \in Requests : job'[r] = job[r]
  BY Goroutines
<1>2. \A a \in Jobs, x \in Requests :
        Has(a, x)' <=> Has(a, x) \/ (a = s /\ p = "run" /\ x \in ToSet(q))
  <2>1. \A a \in Jobs, x \in Requests : a # s => (Has(a, x)' <=> Has(a, x))
    BY DEF Has
  <2>2. \A x \in Requests : ~Has(s, x)
    BY DEF Has, Running
  <2>3. \A x \in Requests : Has(s, x)' <=> p = "run" /\ x \in ToSet(q)
    BY DEF Has, Running
  <2> QED BY <2>1, <2>2, <2>3
<1>3. \A x \in Requests : p = "run" /\ x \in ToSet(q) => gate[x] = "deferred"
  OBVIOUS
<1>4. ApprovalType'
  <2>1. \A a \in Jobs : job'[a].pc \in Running => job'[a].todo # <<>>
    BY DEF ApprovalType, Running
  <2> QED BY <2>1 DEF ApprovalType
<1>5. RequestersTurn'
  BY <1>1 DEF RequestersTurn, Running
<1>6. OwnersTurn'
  BY Goroutines DEF OwnersTurn, Running, Current
<1>7. ConsentFirst'
  BY <1>1, <1>2, <1>3 DEF ConsentFirst, RunsHaveConsent, NotApproved, Open
<1>8. RetriesAreHeld'
  <2>1. ToSet(q) \subseteq Requests
    BY SetOfSeq
  <2>2. h = "retry" => ToSet(q) \subseteq held
    BY <2>1, <1>3 DEF RetriesAreHeld, ToSet
  <2> QED BY <2>2 DEF RetriesAreHeld
<1>9. UntouchedBefore'
  BY <1>1, <1>2, <1>3 DEF UntouchedBefore, RequestersTurn, NotApproved, Open
<1>10. InOneHand'
  <2>1. \A x \in Requests : x \notin held => gate[x] # "deferred"
    BY DEF RetriesAreHeld
  <2>2. \A a \in Jobs, x \in Requests : x \notin held => (Has(a, x)' <=> Has(a, x))
    BY <1>2, <1>3, <2>1
  <2>3. \A a \in Jobs, x \in Requests : Has(a, x) => job'[a] = job[a]
    BY DEF Has, Running
  <2> QED BY <1>1, <2>2, <2>3 DEF InOneHand
<1>11. RunsAfterTheWait'
  BY <1>1 DEF RunsAfterTheWait
<1>12. ApprovalFindsTurn'
  BY <1>1, <1>2, Goroutines DEF ApprovalFindsTurn, At, Woken
<1> QED BY <1>4, <1>5, <1>6, <1>7, <1>8, <1>9, <1>10, <1>11, <1>12

\* What is pending, and what is held, of the requests that were asked.
LEMMA BacklogIsDeferred ==
  ASSUME ApprovalType
  PROVE  Backlog \in Seq(Requests) /\ \A x \in ToSet(Backlog) : gate[x] = "deferred"
<1> DEFINE R == {r \in Requests : gate[r] = "deferred"}
<1>1. Backlog \in Seq(Requests \cap R)
  BY InOrderKeeps DEF ApprovalType, Backlog
<1> QED BY <1>1, SetOfSeq

LEMMA PendingIsPending ==
  ASSUME ApprovalType, Pending # <<>>
  PROVE  Last(Pending) \in Requests /\ gate[Last(Pending)] = "pending"
<1> DEFINE R == {r \in Requests : gate[r] = "pending"}
<1>1. Pending \in Seq(Requests \cap R)
  BY InOrderKeeps DEF ApprovalType, Pending
<1>2. Last(Pending) \in Requests \cap R
  BY <1>1, LastElement
<1> QED BY <1>2

LEMMA SayStep ==
  ASSUME ApprovalInv, NEW s \in Replies, NEW word \in {"approve", "reject", "retry"}, Say(s, word)
  PROVE  ApprovalInv'
<1> DEFINE todo == IF word = "retry" THEN Backlog
                   ELSE IF Pending = <<>> THEN <<>> ELSE <<Last(Pending)>>
           next == IF todo = <<>> THEN "done" ELSE IF word = "retry" THEN "run" ELSE "rule"
<1>0. ApprovalType
  BY DEF ApprovalInv
<1>1. /\ TextMode /\ job[s].pc = "idle" /\ UNCHANGED <<gates, history, used>>
      /\ job' = [job EXCEPT ![s] = [pc |-> next, how |-> word, todo |-> todo]]
  BY DEF Say, At
<1>2. /\ todo \in Seq(Requests)
      /\ word = "retry" => \A x \in ToSet(todo) : gate[x] = "deferred"
      /\ word # "retry" /\ todo # <<>> => /\ todo = <<Head(todo)>> /\ Head(todo) \in Requests
                                          /\ gate[Head(todo)] # "none"
  <2>1. CASE word = "retry"
    BY <1>0, <2>1, BacklogIsDeferred
  <2>2. CASE word # "retry" /\ Pending = <<>>
    BY <2>2
  <2>3. CASE word # "retry" /\ Pending # <<>>
    <3>1. Last(Pending) \in Requests /\ gate[Last(Pending)] = "pending"
      BY <1>0, <2>3, PendingIsPending
    <3>2. todo = <<Last(Pending)>> /\ Head(todo) = Last(Pending)
      BY <2>3, OneElement
    <3> HIDE DEF todo
    <3> QED BY <2>3, <3>1, <3>2
  <2> QED BY <2>1, <2>2, <2>3
<1>3. next \in Places /\ word \in Reasons /\ s \in Jobs /\ s \in Replies \cup {Ticker}
  BY Goroutines DEF Places, Reasons, Running
<1> HIDE DEF todo
<1>4. Turned(s, next, word, todo)
  BY <1>0, <1>1, <1>2, <1>3, Sets
<1> QED BY <1>1, <1>2, <1>3, <1>4, TakesUp

LEMMA TickStep ==
  ASSUME ApprovalInv, Tick
  PROVE  ApprovalInv'
<1>0. ApprovalType
  BY DEF ApprovalInv
<1>1. /\ TextMode /\ job[Ticker].pc = "idle" /\ Backlog # <<>> /\ UNCHANGED <<gates, history, used>>
      /\ job' = [job EXCEPT ![Ticker] = [pc |-> "run", how |-> "retry", todo |-> Backlog]]
  BY DEF Tick, At
<1>2. Backlog \in Seq(Requests) /\ \A x \in ToSet(Backlog) : gate[x] = "deferred"
  BY <1>0, BacklogIsDeferred
<1>3. "run" \in Places /\ "retry" \in Reasons /\ Ticker \in Jobs /\ Ticker \in Replies \cup {Ticker}
  BY Goroutines DEF Places, Reasons, Running
<1>4. Turned(Ticker, "run", "retry", Backlog)
  BY <1>0, <1>1, <1>2, <1>3, Sets
<1> QED BY <1>1, <1>2, <1>3, <1>4, TakesUp

\* The owner's word decides what is open, and the goroutine that took it runs what he approves.
LEMMA RuleStep ==
  ASSUME ApprovalInv, NEW s \in Replies, Rule(s)
  PROVE  ApprovalInv'
<1> USE DEF ApprovalInv
<1>0. Current(s) \in Requests
  BY Goroutines DEF Rule, At, OwnersTurn
<1> SUFFICES ASSUME NEW r \in Requests, r = Current(s)
             PROVE  ApprovalInv'
  BY <1>0
<1> DEFINE yes == job[s].how = "approve"
<1>1. /\ job[s].pc = "rule" /\ r \in Requests /\ job[s].todo = <<r>> /\ gate[r] # "none" /\ TextMode
      /\ job[s].how \in {"approve", "reject"} /\ s \in Jobs /\ s \notin Requests
      /\ s \in Replies \cup {Ticker}
  BY Goroutines DEF Rule, At, OwnersTurn
<1>2. Deciding(r) <=> gate[r] \in Open
  BY <1>1 DEF Deciding, Decided, ApprovalType, States, Open
<1>3. \A a \in Jobs, x \in Requests : Has(a, x) => a # s
  BY <1>1 DEF Has, Running
<1>4. CASE ~Deciding(r)
  <2>1. Turned(s, "done", job[s].how, job[s].todo)
    BY <1>1, <1>4, MovesOn DEF Rule, Places
  <2>2. UNCHANGED <<gate, disk, asked, waiters, remembered, told, consent, lent, held, undone, runs, used>>
    BY <1>4 DEF Rule
  <2>3. \A a \in Jobs, x \in Requests : Has(a, x)' <=> Has(a, x)
    BY <1>1, <1>3, <2>1 DEF Has, Turned, Running
  <2> USE DEF Turned
  <2>4. ApprovalType'
    BY <1>1, <2>1, <2>2 DEF ApprovalType, Running
  <2>5. RequestersTurn' /\ OwnersTurn'
    BY <1>1, <2>1, <2>2, Goroutines DEF RequestersTurn, OwnersTurn, Running, Current
  <2>6. ConsentFirst' /\ RetriesAreHeld'
    BY <1>1, <2>1, <2>2, <2>3, Goroutines DEF ConsentFirst, RunsHaveConsent, RetriesAreHeld
  <2>7. UntouchedBefore' /\ InOneHand' /\ RunsAfterTheWait'
    BY <1>1, <2>1, <2>2, <2>3, Goroutines DEF UntouchedBefore, InOneHand, RunsAfterTheWait
  <2>8. ApprovalFindsTurn'
    BY <1>1, <2>1, <2>2, <2>3, Goroutines DEF ApprovalFindsTurn, At, Woken
  <2> QED BY <2>4, <2>5, <2>6, <2>7, <2>8
<1>5. CASE Deciding(r)
  <2> DEFINE p == IF yes THEN "run" ELSE "done"
             verdict == IF yes THEN "approved" ELSE "rejected"
  <2>1. Turned(s, p, job[s].how, job[s].todo)
    BY <1>1, <1>5, MovesOn DEF Rule, Places, Running
  <2>2. Filed(r, verdict) /\ Spent /\ waiters' = waiters \ {r}
    BY <1>1, <1>5, Files DEF Rule, Decide, States
  <2>3. /\ consent' = IF yes THEN consent \cup {r} ELSE consent
        /\ remembered' \in {"none", "approve", "reject"}
        /\ UNCHANGED <<asked, told, lent, held, undone, runs>>
    BY <1>1, <1>5 DEF Rule, ApprovalType
  <2>4. \A a \in Jobs, x \in Requests : Has(a, x)' <=> Has(a, x) \/ (a = s /\ x = r /\ yes)
    <3>1. \A x \in Requests : Has(s, x)' <=> x = r /\ yes
      BY <1>1, <2>1, OneElement DEF Has, Turned, Running
    <3>2. \A a \in Jobs, x \in Requests : a # s => (Has(a, x)' <=> Has(a, x))
      BY <2>1 DEF Has, Turned
    <3> QED BY <1>3, <3>1, <3>2
  <2>5. gate[r] = "pending" /\ job[r].pc \notin {"idle", "begun"}
    BY <1>1, <1>2, <1>5 DEF Open, RequestersTurn
  <2>6. job[r].how = "ask" /\ r \notin undone => runs[r] = 0 /\ \A a \in Jobs : ~Has(a, r)
    BY <1>1, <2>5 DEF UntouchedBefore, NotApproved, Open
  <2>7. \A x \in Requests : job'[x] = job[x]
    BY <1>1, <2>1, Goroutines DEF Turned
  <2> USE DEF Turned, Filed
  <2>8. ApprovalType'
    <3>1. waiters' \subseteq Requests /\ \A x \in waiters' : gate'[x] \in Open
      BY <2>2 DEF ApprovalType
    <3>2. job' \in JobType /\ \A a \in Jobs : job'[a].pc \in Running => job'[a].todo # <<>>
      <4>1. job' \in JobType /\ job'[s].todo # <<>> /\ \A a \in Jobs : a # s => job'[a] = job[a]
        BY <1>1, <2>1
      <4> QED BY <4>1 DEF ApprovalType
    <3>3. consent' \subseteq Requests
      BY <1>1, <2>3 DEF ApprovalType
    <3> QED BY <2>2, <2>3, <3>1, <3>2, <3>3 DEF ApprovalType, Spent
  <2>9. RequestersTurn'
    BY <2>2, <2>3, <2>5, <2>7 DEF RequestersTurn
  <2>10. OwnersTurn'
    BY <1>1, <2>1, <2>2, Goroutines DEF OwnersTurn, Running, Current
  <2>11. ConsentFirst'
    BY <1>1, <2>2, <2>3, <2>4, <2>7 DEF ConsentFirst, RunsHaveConsent, NotApproved, Open
  <2>12. RetriesAreHeld'
    BY <1>1, <2>1, <2>2, <2>3 DEF RetriesAreHeld
  <2>13. UntouchedBefore'
    BY <2>2, <2>3, <2>4, <2>5, <2>6, <2>7 DEF UntouchedBefore, NotApproved, Open
  <2>14. InOneHand'
    <3>1. \A a \in Jobs, x \in Requests : x # r => (Has(a, x)' <=> Has(a, x))
      BY <2>4
    <3>2. \A a \in Jobs, x \in Requests :
            x # r /\ Has(a, x)' /\ job'[a].pc = "run" => Has(a, x) /\ job[a].pc = "run"
      BY <1>3, <2>1, <3>1
    <3>3. job[r].how = "ask" /\ r \notin undone => \A a \in Jobs : Has(a, r)' => a = s
      <4> SUFFICES ASSUME job[r].how = "ask", r \notin undone, NEW a \in Jobs, Has(a, r)'
                   PROVE  a = s
        OBVIOUS
      <4> QED BY <2>4, <2>6
    <3>4. \A x \in Requests : job'[x].how = job[x].how /\ runs'[x] = runs[x]
      BY <2>3, <2>7
    <3>5. \A x \in Requests \ (held \cup undone) : x # r /\ job[x].how = "ask" =>
            /\ \A a, b \in Jobs : Has(a, x)' /\ Has(b, x)' => a = b
            /\ \A a \in Jobs : Has(a, x)' /\ job'[a].pc = "run" => runs[x] = 0
            /\ runs[x] <= 1
      BY <3>1, <3>2 DEF InOneHand
    <3>6. r \in Requests \ (held \cup undone) /\ job[r].how = "ask" =>
            /\ \A a, b \in Jobs : Has(a, r)' /\ Has(b, r)' => a = b
            /\ runs[r] = 0
      BY <2>6, <3>3
    <3>7. \A x \in Requests \ (held \cup undone) : job[x].how = "ask" =>
            /\ \A a, b \in Jobs : Has(a, x)' /\ Has(b, x)' => a = b
            /\ \A a \in Jobs : Has(a, x)' /\ job'[a].pc = "run" => runs[x] = 0
            /\ runs[x] <= 1
      <4> SUFFICES ASSUME NEW x \in Requests \ (held \cup undone), job[x].how = "ask"
                   PROVE  /\ \A a, b \in Jobs : Has(a, x)' /\ Has(b, x)' => a = b
                          /\ \A a \in Jobs : Has(a, x)' /\ job'[a].pc = "run" => runs[x] = 0
                          /\ runs[x] <= 1
        OBVIOUS
      <4>1. CASE x = r
        BY <3>6, <4>1
      <4>2. CASE x # r
        BY <3>5, <4>2
      <4> QED BY <4>1, <4>2
    <3> QED BY <2>3, <3>4, <3>7 DEF InOneHand
  <2>15. RunsAfterTheWait'
    BY <2>3, <2>7 DEF RunsAfterTheWait
  <2>16. ApprovalFindsTurn'
    BY <1>1, <2>2, <2>3, <2>4, <2>7 DEF ApprovalFindsTurn, Spent
  <2> QED BY <2>8, <2>9, <2>10, <2>11, <2>12, <2>13, <2>14, <2>15, <2>16
<1> QED BY <1>4, <1>5

\* A tap decides what is open; who waits is woken by it.
LEMMA TapStep ==
  ASSUME ApprovalInv, NEW r \in Requests, NEW yes \in BOOLEAN,
         NEW who \in {"owner", "other"}, Tap(r, yes, who)
  PROVE  ApprovalInv'
<1> USE DEF ApprovalInv
<1> DEFINE verdict == IF yes THEN "approved" ELSE "rejected"
<1>1. ~TextMode /\ r \in told /\ gate[r] = "pending" /\ job[r].pc \notin {"idle", "begun"}
  BY DEF Tap, Deciding, Decided, ApprovalType, States, RequestersTurn
<1>2. /\ waiters' = waiters \ {r} /\ consent' = IF yes THEN consent \cup {r} ELSE consent
      /\ lent' = lent \/ (yes /\ lent' = lent \cup {r})
      /\ UNCHANGED <<asked, remembered, job, told, held, undone, runs>>
  BY DEF Tap
<1>3. Filed(r, verdict)
  BY DEF Tap, Filed, ApprovalType, States
<1>4. Spent
  <2>1. used \in [Kinds -> Nat] /\ Bound \in [Kinds -> Nat] /\ \A b \in Kinds : used[b] <= Bound[b]
    BY BoundType DEF ApprovalType
  <2>2. /\ used["taps"] < Bound["taps"] /\ used' = [used EXCEPT !["taps"] = used["taps"] + 1]
        \/ /\ used["taps"] < Bound["taps"] /\ used["faults"] < Bound["faults"]
           /\ used' = [[used EXCEPT !["taps"] = used["taps"] + 1]
                         EXCEPT !["faults"] = used["faults"] + 1]
    BY <2>1 DEF Tap, Left, Kinds
  <2>3. {"taps", "faults", "crashes"} \subseteq Kinds /\ {used["taps"], used["faults"],
          Bound["taps"], Bound["faults"]} \subseteq Nat
    BY <2>1 DEF Kinds
  <2> QED BY <2>1, <2>2, <2>3 DEF Spent
<1>5. \A a \in Jobs, x \in Requests : Has(a, x)' <=> Has(a, x)
  BY <1>2 DEF Has
<1>6. job[r].how = "ask" /\ r \notin undone => runs[r] = 0 /\ \A a \in Jobs : ~Has(a, r)
  BY <1>1 DEF UntouchedBefore, NotApproved, Open
<1> USE DEF Filed
<1>7. ApprovalType'
  BY <1>2, <1>3, <1>4 DEF ApprovalType, Spent
<1>8. RequestersTurn' /\ OwnersTurn'
  BY <1>1, <1>2, <1>3 DEF RequestersTurn, OwnersTurn, Current
<1>9. ConsentFirst' /\ RetriesAreHeld'
  BY <1>1, <1>2, <1>3, <1>5 DEF ConsentFirst, RetriesAreHeld, RunsHaveConsent, NotApproved, Open
<1>10. UntouchedBefore'
  BY <1>1, <1>2, <1>3, <1>5, <1>6 DEF UntouchedBefore, NotApproved, Open
<1>11. InOneHand' /\ RunsAfterTheWait'
  BY <1>2, <1>5 DEF InOneHand, RunsAfterTheWait
<1>12. ApprovalFindsTurn'
  <2> SUFFICES ASSUME used["crashes"] = 0, NEW x \in Requests
               PROVE  /\ gate'[x] = "approved"
                           => Has(x, x) \/ At(x, "sent") \/ Woken(x)' \/ At(x, "gaveup")
                      /\ job[x].pc \in {"idle", "begun", "decide", "ask"}
                           => gate'[x] \in Open /\ x \notin told
                      /\ x \in told /\ gate'[x] \in Open
                           => At(x, "sent") \/ (At(x, "waiting") /\ x \in waiters') \/ At(x, "gaveup")
    BY <1>1, <1>2, <1>4, <1>5, Goroutines DEF ApprovalFindsTurn, Spent, At
  <2>1. CASE x = r
    BY <1>1, <1>2, <1>3, <2>1 DEF ApprovalFindsTurn, Open, At, Woken
  <2>2. CASE x # r
    BY <1>1, <1>2, <1>3, <2>2 DEF ApprovalFindsTurn, At, Woken
  <2> QED BY <2>1, <2>2
<1> QED BY <1>7, <1>8, <1>9, <1>10, <1>11, <1>12

\* What a goroutine that runs actions has in hand.
LEMMA InHandNow ==
  ASSUME ApprovalInv, NEW a \in Jobs, job[a].pc \in Running
  PROVE  /\ job[a].todo \in Seq(Requests) /\ job[a].todo # <<>>
         /\ Current(a) \in Requests /\ Has(a, Current(a))
         /\ a \in Requests => Current(a) = a /\ Tail(job[a].todo) = <<>>
         /\ ~TextMode => a \in Requests
         /\ job[a].how # "retry" => Tail(job[a].todo) = <<>>
<1> USE DEF ApprovalInv
<1>1. job[a].todo \in Seq(Requests) /\ job[a].todo # <<>>
  BY DEF ApprovalType, JobType
<1>2. Current(a) \in Requests /\ Has(a, Current(a))
  BY <1>1, HeadAndTail DEF Current, Has
<1>3. a \in Requests => job[a].todo = <<a>> /\ job[a].how # "retry"
  BY DEF RequestersTurn, Running
<1>4. a \notin Requests => TextMode /\ (job[a].how # "retry" => job[a].todo = <<Current(a)>>)
  BY Goroutines DEF OwnersTurn, Running
<1>5. a \in Requests => Current(a) = a /\ Tail(job[a].todo) = <<>>
  BY <1>3, OneElement DEF Current
<1>6. job[a].todo = <<Current(a)>> => Tail(job[a].todo) = <<>>
  <2> HIDE DEF Current
  <2> QED BY OneElement
<1> QED BY <1>1, <1>2, <1>3, <1>4, <1>5, <1>6

\* An action that is carried out was approved, and is in no other hand.
LEMMA RunStep ==
  ASSUME ApprovalInv, NEW a \in Jobs, Run(a)
  PROVE  ApprovalInv'
<1>0. job[a].pc = "run" /\ "run" \in Running /\ "ran" \in Running
  BY DEF Run, At, Running
<1> SUFFICES ASSUME NEW r \in Requests, r = Current(a), Has(a, r), a \in Requests => a = r,
                    ~TextMode => a \in Requests
             PROVE  ApprovalInv'
  BY <1>0, InHandNow
<1> USE DEF ApprovalInv
<1>1. Turned(a, "ran", job[a].how, job[a].todo)
  BY MovesOn DEF Run, Places, Running
<1>2. /\ runs' = [runs EXCEPT ![r] = runs[r] + 1]
      /\ UNCHANGED <<gate, disk, asked, waiters, remembered, told, consent, lent, held, undone, used>>
  BY DEF Run, gates
<1>3. \A b \in Jobs, x \in Requests : Has(b, x)' <=> Has(b, x)
  BY <1>0, <1>1 DEF Has, Turned
<1>4. runs \in [Requests -> Nat] /\ runs' \in [Requests -> Nat]
  BY <1>2 DEF ApprovalType
<1>5. runs'[r] = runs[r] + 1 /\ \A x \in Requests : x # r => runs'[x] = runs[x]
  BY <1>2, <1>4
<1> USE DEF Turned
<1>6. ApprovalType'
  BY <1>0, <1>1, <1>2, <1>4 DEF ApprovalType
<1>7. RequestersTurn' /\ OwnersTurn'
  BY <1>0, <1>1, <1>2, Goroutines DEF RequestersTurn, OwnersTurn, Running, Current
<1>8. ConsentFirst'
  BY <1>0, <1>1, <1>2, <1>3, <1>5, Goroutines DEF ConsentFirst, RunsHaveConsent
<1>9. RetriesAreHeld'
  BY <1>1, <1>2 DEF RetriesAreHeld
<1>10. UntouchedBefore'
  <2>1. \A x \in Requests : /\ job'[x].how = job[x].how
                            /\ job'[x].pc \in {"idle", "begun"} <=> job[x].pc \in {"idle", "begun"}
    BY <1>0, <1>1, Goroutines
  <2> QED BY <1>2, <1>3, <1>5, <2>1 DEF UntouchedBefore
<1>11. InOneHand'
  <2> SUFFICES ASSUME NEW x \in Requests \ (held \cup undone), job[x].how = "ask"
               PROVE  /\ \A b, c \in Jobs : Has(b, x)' /\ Has(c, x)' => b = c
                      /\ \A b \in Jobs : Has(b, x)' /\ job'[b].pc = "run" => runs'[x] = 0
                      /\ runs'[x] <= 1
    BY <1>1, <1>2, Goroutines DEF InOneHand
  <2>1. /\ \A b, c \in Jobs : Has(b, x) /\ Has(c, x) => b = c
        /\ \A b \in Jobs : Has(b, x) /\ job[b].pc = "run" => runs[x] = 0
        /\ runs[x] <= 1
    BY DEF InOneHand
  <2>2. \A b \in Jobs : job'[b].pc = "run" => b # a /\ job[b].pc = "run"
    BY <1>1
  <2>3. CASE x = r
    <3>1. runs[r] = 0
      BY <1>0, <2>1, <2>3
    <3>2. runs'[r] <= 1
      BY <1>5, <3>1
    <3> QED BY <1>3, <2>1, <2>2, <2>3, <3>2
  <2>4. CASE x # r
    BY <1>3, <1>5, <2>1, <2>2, <2>4
  <2> QED BY <2>3, <2>4
<1>12. RunsAfterTheWait'
  BY <1>0, <1>1, <1>5, Goroutines DEF RunsAfterTheWait
<1>13. ApprovalFindsTurn'
  BY <1>0, <1>1, <1>2, <1>3, Goroutines DEF ApprovalFindsTurn, At, Woken, Running
<1> QED BY <1>6, <1>7, <1>8, <1>9, <1>10, <1>11, <1>12, <1>13

LEMMA RunFailsStep ==
  ASSUME ApprovalInv, NEW a \in Jobs, RunFails(a)
  PROVE  ApprovalInv'
<1> USE DEF ApprovalInv
<1>0. job[a].pc = "run" /\ "run" \in Running /\ "failed" \in Running
  BY DEF RunFails, At, Running
<1>1. Turned(a, "failed", job[a].how, job[a].todo)
  BY MovesOn DEF RunFails, Places, Running
<1>2. UNCHANGED <<gate, disk, asked, waiters, remembered, told, consent, lent, held, undone, runs>>
  BY DEF RunFails, gates, history
<1>3. Spent
  BY SpendOne DEF RunFails, Kinds, Spent
<1>4. \A b \in Jobs, x \in Requests : Has(b, x)' <=> Has(b, x)
  BY <1>0, <1>1 DEF Has, Turned
<1> USE DEF Turned
<1>5. ApprovalType'
  BY <1>0, <1>1, <1>2, <1>3 DEF ApprovalType, Spent
<1>6. RequestersTurn' /\ OwnersTurn'
  BY <1>0, <1>1, <1>2, Goroutines DEF RequestersTurn, OwnersTurn, Running, Current
<1>7. ConsentFirst' /\ RetriesAreHeld'
  BY <1>0, <1>1, <1>2, <1>4, Goroutines DEF ConsentFirst, RunsHaveConsent, RetriesAreHeld
<1>8. UntouchedBefore' /\ InOneHand' /\ RunsAfterTheWait'
  BY <1>0, <1>1, <1>2, <1>4, Goroutines DEF UntouchedBefore, InOneHand, RunsAfterTheWait
<1>9. ApprovalFindsTurn'
  BY <1>0, <1>1, <1>2, <1>3, <1>4, Goroutines DEF ApprovalFindsTurn, At, Woken, Running, Spent
<1> QED BY <1>5, <1>6, <1>7, <1>8, <1>9

\* What is done leaves the hand with an outcome; what is left of a flush stays in it.
LEMMA SettleStep ==
  ASSUME ApprovalInv, NEW a \in Jobs, Settle(a)
  PROVE  ApprovalInv'
<1>0. job[a].pc \in {"ran", "failed"} /\ job[a].pc \in Running /\ "run" \in Running
  BY DEF Settle, Running
<1> SUFFICES ASSUME NEW r \in Requests, r = Current(a), Has(a, r),
                    a \in Requests => a = r /\ Tail(job[a].todo) = <<>>,
                    ~TextMode => a \in Requests,
                    job[a].how # "retry" => Tail(job[a].todo) = <<>>
             PROVE  ApprovalInv'
  BY <1>0, InHandNow
<1> USE DEF ApprovalInv
<1> DEFINE rest == Tail(job[a].todo)
<1>1. /\ job[a].todo \in Seq(Requests) /\ rest \in Seq(Requests) /\ ToSet(rest) \subseteq ToSet(job[a].todo)
      /\ \A x \in ToSet(job[a].todo) : x = r \/ (x \in ToSet(rest) /\ rest # <<>>)
  BY <1>0, InHandNow, HeadAndTail DEF Current
<1>2. PICK p \in Places, h \in Reasons, q \in Seq(Requests) :
        /\ Turned(a, p, h, q)
        /\ \/ rest # <<>> /\ p = "run" /\ h = job[a].how /\ q = rest
           \/ rest = <<>> /\ a = Ticker /\ p = "idle" /\ h = "none" /\ q = <<>>
           \/ rest = <<>> /\ a # Ticker /\ p = "done" /\ h = job[a].how /\ q = job[a].todo
  <2>1. CASE rest # <<>>
    <3>1. job' = [job EXCEPT ![a] = [pc |-> "run", how |-> job[a].how, todo |-> rest]]
      BY <2>1 DEF Settle
    <3>2. job[a].how \in Reasons /\ "run" \in Places
      BY DEF ApprovalType, JobType, Places, Running
    <3> HIDE DEF rest
    <3> QED BY <1>1, <2>1, <3>1, <3>2, Sets
  <2>2. CASE rest = <<>> /\ a = Ticker
    <3>1. job' = [job EXCEPT ![a] = [pc |-> "idle", how |-> "none", todo |-> <<>>]]
      BY <2>2 DEF Settle, Idle
    <3>2. "none" \in Reasons /\ "idle" \in Places /\ <<>> \in Seq(Requests)
      BY DEF Places, Reasons
    <3> QED BY <2>2, <3>1, <3>2, Sets
  <2>3. CASE rest = <<>> /\ a # Ticker
    <3>1. Turned(a, "done", job[a].how, job[a].todo)
      BY <2>3, MovesOn DEF Settle, Goto, Places
    <3>2. job[a].how \in Reasons /\ "done" \in Places
      BY DEF ApprovalType, JobType, Places
    <3> QED BY <1>1, <2>3, <3>1, <3>2
  <2> QED BY <2>1, <2>2, <2>3
<1>3. PICK outcome \in {"executed", "failed", "deferred"} :
        /\ \/ gate[r] \notin NotApproved /\ Filed(r, outcome)
           \/ gate[r] \in NotApproved /\ UNCHANGED <<gate, disk>>
        /\ Spent
        /\ held' = IF outcome = "deferred" THEN held \cup {r} ELSE held
  <2> DEFINE o == IF At(a, "ran") THEN "executed" ELSE Unable(a)
  <2>1. o \in {"executed", "failed", "deferred"} /\ o \in States
    BY DEF Unable, States
  <2>2. Mark(r, o) /\ held' = IF o = "deferred" THEN held \cup {r} ELSE held
    BY DEF Settle
  <2>3. Approved(r) <=> gate[r] \notin NotApproved
    BY DEF ApprovalType, States, Approved, NotApproved, Open
  <2> HIDE DEF o
  <2>4. CASE Approved(r)
    BY <2>1, <2>2, <2>3, <2>4, Files DEF Mark
  <2>5. CASE ~Approved(r)
    BY <2>1, <2>2, <2>3, <2>5, Stays DEF Mark
  <2> QED BY <2>1, <2>4, <2>5
<1>4. UNCHANGED <<asked, waiters, remembered, told, consent, lent, undone, runs>>
  BY DEF Settle
<1>5. \A b \in Jobs, x \in Requests : Has(b, x)' => Has(b, x)
  BY <1>0, <1>1, <1>2 DEF Has, Turned, Running
<1>6. \A b \in Jobs, x \in Requests : x # r /\ Has(b, x) => Has(b, x)'
  BY <1>0, <1>1, <1>2 DEF Has, Turned
<1>7. job[r].pc \notin {"idle", "begun"}
  BY DEF UntouchedBefore
<1>8. r \notin waiters \/ gate[r] \in NotApproved
  BY DEF ApprovalType, NotApproved
<1>9. \A x \in Requests : \/ job'[x] = job[x]
                          \/ /\ x = r /\ x = a /\ job'[x].pc = "done" /\ job'[x].how = job[x].how
                             /\ job'[x].todo = job[x].todo
  BY <1>2, Goroutines DEF Turned
<1> HIDE DEF rest
<1> USE DEF Filed
<1>10. ApprovalType'
  <2>1. job' \in JobType /\ \A b \in Jobs : job'[b].pc \in Running => job'[b].todo # <<>>
    <3>1. job'[a].pc \in Running => job'[a].todo # <<>>
      BY <1>2 DEF Turned, Running
    <3> QED BY <1>2, <3>1 DEF ApprovalType, Turned
  <2>2. \A x \in waiters : gate'[x] \in Open
    BY <1>3, <1>8 DEF ApprovalType
  <2>3. gate' \in [Requests -> States] /\ disk' \in [Requests -> States] /\ held' \subseteq Requests
    BY <1>3 DEF ApprovalType
  <2> QED BY <1>3, <1>4, <2>1, <2>2, <2>3 DEF ApprovalType, Spent
<1>11. RequestersTurn'
  <2>1. \A x \in Requests : x # r => gate'[x] = gate[x] /\ disk'[x] = disk[x]
    BY <1>3
  <2> QED BY <1>0, <1>4, <1>7, <1>9, <2>1 DEF RequestersTurn, Running
<1>12. OwnersTurn'
  <2>1. \A x \in Requests : gate[x] # "none" => gate'[x] # "none"
    BY <1>3
  <2>2. \A s \in Replies \cup {Ticker} : s # a => job'[s] = job[s]
    BY <1>2, Goroutines DEF Turned
  <2>3. a \in Replies \cup {Ticker} =>
          /\ TextMode /\ job'[a].pc \in {"run", "idle", "done"}
          /\ job'[a].pc = "run" => job'[a].how = "retry"
    BY <1>0, <1>2, Goroutines DEF Turned, OwnersTurn, rest
  <2> QED BY <2>1, <2>2, <2>3 DEF OwnersTurn, Running, Current
<1>13. ConsentFirst'
  <2>1. r \in consent
    BY DEF ConsentFirst
  <2>2. \A x \in Requests : gate'[x] \notin NotApproved \/ disk'[x] \notin NotApproved => x \in consent
    BY <1>3, <2>1 DEF ConsentFirst
  <2> QED BY <1>4, <1>5, <1>9, <2>2 DEF ConsentFirst, RunsHaveConsent
<1>14. RetriesAreHeld'
  <2>1. \A x \in Requests : gate'[x] = "deferred" \/ disk'[x] = "deferred" => x \in held'
    BY <1>3 DEF RetriesAreHeld
  <2>2. job'[a].how = "retry" => ToSet(job'[a].todo) \subseteq held
    BY <1>1, <1>2 DEF RetriesAreHeld, Turned
  <2>3. \A b \in Jobs : b # a => job'[b] = job[b]
    BY <1>2 DEF Turned
  <2>4. held \subseteq held'
    BY <1>3
  <2> QED BY <2>1, <2>2, <2>3, <2>4 DEF RetriesAreHeld
<1>15. UntouchedBefore'
  <2>1. \A x \in Requests : gate'[x] \in NotApproved => gate[x] \in NotApproved
    BY <1>3 DEF NotApproved, Open
  <2> QED BY <1>4, <1>5, <1>9, <2>1 DEF UntouchedBefore
<1>16. InOneHand'
  <2>1. \A b \in Jobs, x \in Requests \ held : Has(b, x)' /\ job'[b].pc = "run" => job[b].pc = "run"
    <3> SUFFICES ASSUME NEW x \in Requests \ held, Has(a, x)', job'[a].pc = "run" PROVE FALSE
      BY <1>2 DEF Turned
    <3>1. rest # <<>> /\ job[a].how = "retry" /\ x \in ToSet(job[a].todo)
      BY <1>1, <1>2 DEF Turned, Has, rest
    <3> QED BY <3>1 DEF RetriesAreHeld
  <2>2. held \subseteq held' /\ \A x \in Requests : job'[x].how = job[x].how
    BY <1>3, <1>9
  <2> QED BY <1>4, <1>5, <2>1, <2>2 DEF InOneHand
<1>17. RunsAfterTheWait'
  BY <1>4, <1>9 DEF RunsAfterTheWait
<1>18. ApprovalFindsTurn'
  <2> SUFFICES ASSUME used["crashes"] = 0, NEW x \in Requests
               PROVE  /\ TextMode /\ gate'[x] = "approved" => \E b \in Jobs : Has(b, x)'
                      /\ ~TextMode /\ gate'[x] = "approved"
                           => Has(x, x)' \/ At(x, "sent")' \/ Woken(x)' \/ At(x, "gaveup")'
                      /\ ~TextMode /\ job'[x].pc \in {"idle", "begun", "decide", "ask"}
                           => gate'[x] \in Open /\ x \notin told'
                      /\ ~TextMode /\ x \in told' /\ gate'[x] \in Open
                           => At(x, "sent")' \/ (At(x, "waiting")' /\ x \in waiters') \/ At(x, "gaveup")'
    BY <1>3 DEF ApprovalFindsTurn, Spent
  <2>1. x \in Jobs
    BY Goroutines
  <2>2. CASE x # r
    BY <1>3, <1>4, <1>6, <1>9, <2>1, <2>2 DEF ApprovalFindsTurn, At, Woken
  <2>3. CASE x = r
    <3>1. gate'[r] # "approved" /\ (gate'[r] \in Open => gate[r] \in Open)
          /\ (gate[r] \in Open => gate'[r] \in Open)
      BY <1>3 DEF NotApproved, Open
    <3>2. ~TextMode => a = r
      OBVIOUS
    <3>3. ~TextMode => job'[r].pc = "done"
      BY <1>2, <3>2, Goroutines DEF Turned, rest
    <3> QED BY <1>0, <1>4, <2>3, <3>1, <3>2, <3>3 DEF ApprovalFindsTurn, At, Woken
  <2> QED BY <2>2, <2>3
<1> QED BY <1>10, <1>11, <1>12, <1>13, <1>14, <1>15, <1>16, <1>17, <1>18

\* A restart forgets every goroutine and reads the files.
LEMMA RestartStep ==
  ASSUME ApprovalInv, Restart
  PROVE  ApprovalInv'
<1> USE DEF ApprovalInv
<1>1. /\ gate' = disk /\ waiters' = {} /\ remembered' = "none"
      /\ undone' = undone \cup {r \in Requests : gate[r] # disk[r]}
      /\ UNCHANGED <<disk, asked, told, consent, lent, held, runs>>
  BY DEF Restart
<1>2. /\ used' \in [Kinds -> Nat] /\ \A b \in Kinds : used'[b] <= Bound[b]
      /\ used'["crashes"] # 0
  BY SpendOne DEF Restart, Kinds
<1>3. /\ job' \in JobType
      /\ \A a \in Jobs : IF a = Ticker \/ job[a].pc = "idle"
                         THEN job'[a].pc = "idle" /\ job'[a].how = "none"
                         ELSE /\ job'[a].pc = "done" /\ job'[a].how = job[a].how
                              /\ job'[a].todo = job[a].todo
  <2>1. \A a \in Jobs : job[a] \in [pc : Places, how : Reasons, todo : Seq(Requests)]
    BY DEF ApprovalType, JobType
  <2>2. Idle \in [pc : Places, how : Reasons, todo : Seq(Requests)]
        /\ Idle.pc = "idle" /\ Idle.how = "none"
    BY DEF Idle, Places, Reasons
  <2>3. "done" \in Places
    BY DEF Places
  <2> QED BY <2>1, <2>2, <2>3 DEF Restart, At, JobType
<1>4. \A a \in Jobs, x \in Requests : ~Has(a, x)'
  BY <1>3 DEF Has, Running
<1>5. \A r \in Requests : /\ job'[r].pc \in {"idle", "done"}
                          /\ job'[r].pc = "idle" <=> job[r].pc = "idle"
                          /\ job'[r].how = "ask" => job[r].how = "ask"
                          /\ job'[r].pc = "idle" => job'[r].how = "none"
                          /\ job'[r].pc # "idle" => job'[r].how = job[r].how /\ job'[r].todo = job[r].todo
  BY <1>3, Goroutines
<1>6. ApprovalType'
  BY <1>1, <1>2, <1>3 DEF ApprovalType, Running
<1>7. RequestersTurn'
  BY <1>1, <1>5 DEF RequestersTurn, Running
<1>8. OwnersTurn'
  BY <1>3, Goroutines DEF OwnersTurn, Running
<1>9. ConsentFirst'
  BY <1>1, <1>4, <1>5 DEF ConsentFirst, RunsHaveConsent
<1>10. RetriesAreHeld'
  BY <1>1, <1>3 DEF RetriesAreHeld
<1>11. UntouchedBefore'
  BY <1>1, <1>4, <1>5 DEF UntouchedBefore
<1>12. InOneHand' /\ RunsAfterTheWait'
  BY <1>1, <1>4, <1>5 DEF InOneHand, RunsAfterTheWait
<1>13. ApprovalFindsTurn'
  BY <1>2 DEF ApprovalFindsTurn
<1> QED BY <1>6, <1>7, <1>8, <1>9, <1>10, <1>11, <1>12, <1>13

LEMMA Stutter ==
  ASSUME ApprovalInv, UNCHANGED vars
  PROVE  ApprovalInv'
BY DEF ApprovalInv, vars, gates, history, ApprovalType, RequestersTurn, OwnersTurn, ConsentFirst,
       RetriesAreHeld, UntouchedBefore, InOneHand, RunsAfterTheWait, ApprovalFindsTurn, Has, At,
       Woken, Current, RunsHaveConsent

LEMMA InvStep == ApprovalInv /\ [Next]_vars => ApprovalInv'
<1> SUFFICES ASSUME ApprovalInv, [Next]_vars PROVE ApprovalInv'
  OBVIOUS
<1> QED BY BeginStep, SubmitStep, AutoDecideStep, AskStep, AskFailsStep, AwaitStep, VerdictStep,
           GiveUpStep, TapStep, SayStep, RuleStep, TickStep, RunStep, RunFailsStep, SettleStep,
           RestartStep, Stutter DEF Next

-----------------------------------------------------------------------------
\* The inductive invariant: where a request's turn is, what is in whose hands, and what is
\* known of it, in memory and on disk (connect_approval.go, connect_approval_card.go).
THEOREM ApprovalInvariant == Spec => []ApprovalInv
<1>1. Init => ApprovalInv
  BY Start
<1> QED BY <1>1, InvStep, PTL DEF Spec

LEMMA InvGivesConsent == ApprovalInv => ConsentHolds
<1> SUFFICES ASSUME ApprovalInv PROVE ConsentHolds
  OBVIOUS
<1> USE DEF ApprovalInv
<1>1. TypeOK
  <2>1. ToSet(asked) \subseteq Requests /\ IsInjective(asked)
    BY SetOfSeq DEF ApprovalType
  <2>2. waiters \subseteq {r \in Requests : ~Decided(r)}
    BY DEF ApprovalType, Open, Decided
  <2>3. \A a \in Jobs : ToSet(job[a].todo) \subseteq Requests
    BY SetOfSeq DEF ApprovalType, JobType
  <2>4. \A b \in DOMAIN Bound : used[b] \in 0..Bound[b]
    <3>1. \A b \in Kinds : used[b] \in Nat /\ Bound[b] \in Nat /\ used[b] <= Bound[b]
      BY BoundType DEF ApprovalType
    <3>2. \A b \in Kinds : used[b] \in 0..Bound[b]
      BY <3>1
    <3> QED BY <3>2, BoundType
  <2> QED BY <2>1, <2>2, <2>3, <2>4
         DEF TypeOK, ApprovalType, JobType, Places, Running, Reasons
<1>2. RunsHaveConsent
  BY DEF ConsentFirst
<1>3. RejectedNeverRuns
  BY DEF RejectedNeverRuns, UntouchedBefore, NotApproved
<1>4. DecidedRunsOnce
  BY DEF DecidedRunsOnce, InOneHand
<1>6. GivenUpNeverRuns
  BY DEF GivenUpNeverRuns, RunsAfterTheWait, RequestersTurn, At
<1>5. ApprovedIsInHand
  <2> SUFFICES ASSUME used["crashes"] = 0, NEW r \in Requests, gate[r] = "approved"
               PROVE  InHand(r) \/ At(r, "gaveup")
    BY DEF ApprovedIsInHand
  <2>1. (\E a \in Jobs : Has(a, r)) => InHand(r)
    BY DEF Has, InHand, Running
  <2>2. At(r, "sent") \/ Woken(r) => InHand(r)
    BY DEF InHand
  <2> QED BY <2>1, <2>2, Goroutines DEF ApprovalFindsTurn
<1> QED BY <1>1, <1>2, <1>3, <1>4, <1>5, <1>6 DEF ConsentHolds

\* Whatever the policy, the mode and the answers: nothing runs before somebody with the
\* question in hand has approved it, after a rejection or after "not executed"; a decided
\* request runs once, and an approval misses no requester who waits for it
\* (connect_approval.go:282-308, 375-412, 431-480).
THEOREM ConsentHoldsAlways == Spec => []ConsentHolds
BY ApprovalInvariant, InvGivesConsent, PTL

\* What the gate promises of the owner himself holds in text mode, where who answers is
\* compared with him: nothing runs that he, or his policy, has not approved
\* (connect_approval_card.go:488-516).
OwnersConsent == TextMode => \A r \in Requests : runs[r] > 0 => r \in consent \ lent

\* In text mode the owner, or his policy, approved whatever runs. In card mode whoever
\* holds the card can tap it (connect_approval_card.go:736), and this fails.
THEOREM TextNeedsOwner == Spec => []OwnersConsent
<1>1. ApprovalInv => OwnersConsent
  BY DEF ApprovalInv, ConsentFirst, RunsHaveConsent, OwnersConsent
<1> QED BY <1>1, ApprovalInvariant, PTL

-----------------------------------------------------------------------------
(* The processes.                                                          *)

HIDE ApprovalAssumption

\* Without overlapping acquisitions one connector acquires at a time; who has created the
\* file is named in it; and nobody removes a lock that a connected connector has.
OneAcquires ==
  ~overlapped =>
    /\ \A c, d \in Acquiring : c = d
    /\ \A c \in Connectors : /\ conn[c].pc = "created" => lock = c
                             /\ conn[c].pc = "remove" => Up = {}

\* A worker that runs is the one its supervisor waits for, unless the supervisor was killed.
WorkersAreWaitedFor ==
  \A c \in Up \cup Acquiring :
    LET s == conn[c].parent
    IN  s = None \/ s \in killed \/ (sup[s].pc \in {"wait", "stopping"} /\ sup[s].worker = c)

\* A stop command waits for a supervisor that was started, and goes by its end.
StopsFollow ==
  \A p \in Stops :
    /\ stop[p].pc \in {"waiting", "stopped"} =>
         stop[p].pid \in Supervisors /\ sup[stop[p].pid].pc # "none"
    /\ stop[p].pc = "stopped" => sup[stop[p].pid].pc = "dead"

ProcessInv ==
  DaemonTypeOK /\ OneAcquires /\ LockNamesHolder /\ WorkersAreWaitedFor /\ StopsFollow

ConnState == [pc: {"none", "create", "created", "read", "remove", "up", "dead"},
              attempt: 0..2, parent: Supervisors \cup {None}]
SupState  == [pc: {"none", "starting", "recorded", "loop", "wait", "stopping", "dead"},
              worker: Connectors \cup {None}, failures: 0..MaxFast]

USE DaemonConstants

\* A connector that tries once more, and a supervisor whose worker has run for long.
LEMMA Restarted ==
  /\ \A r \in ConnState : [r EXCEPT !.pc = "create", !.attempt = 2] \in ConnState
  /\ \A r \in SupState : LET q == [r EXCEPT !.pc = "loop", !.failures = 0]
                         IN  q \in SupState /\ q.failures = 0
<1>1. ASSUME NEW r \in ConnState
      PROVE  [r EXCEPT !.pc = "create", !.attempt = 2] \in ConnState
  <2> DEFINE q == [r EXCEPT !.pc = "create"]
  <2>1. q \in ConnState
    BY DEF ConnState
  <2>2. [q EXCEPT !.attempt = 2] \in ConnState
    <3> HIDE DEF q
    <3> QED BY <2>1 DEF ConnState
  <2> QED BY <2>2
<1>2. ASSUME NEW r \in SupState
      PROVE  LET q == [r EXCEPT !.pc = "loop", !.failures = 0] IN q \in SupState /\ q.failures = 0
  <2> DEFINE p == [r EXCEPT !.pc = "loop"]
  <2>1. p \in SupState
    BY DEF SupState
  <2>2. [p EXCEPT !.failures = 0] \in SupState /\ [p EXCEPT !.failures = 0].failures = 0
    <3> HIDE DEF p
    <3> QED BY <2>1 DEF SupState
  <2> QED BY <2>2
<1> QED BY <1>1, <1>2

-----------------------------------------------------------------------------
LEMMA ProcessStart == DaemonInit => ProcessInv
<1> SUFFICES ASSUME DaemonInit PROVE ProcessInv
  OBVIOUS
<1>1. DaemonTypeOK
  <2>1. conn \in [Connectors -> ConnState]
    BY DEF DaemonInit, ConnState
  <2>2. sup \in [Supervisors -> SupState] /\ \A s \in Supervisors: sup[s].pc = "dead" \/ sup[s].failures < MaxFast
    BY DEF DaemonInit, SupState
  <2>3. /\ stop \in [Stops -> [pc: {"idle", "waiting", "orphan", "not_running", "cleaned_stale", "stopped",
                                  "force_killed", "orphan_stopped"}, pid: Processes \cup {None}]]
        /\ signalled \in [Processes -> {"no", "lost", "received"}]
    BY DEF DaemonInit
  <2>4. /\ {lock, heartbeat} \subseteq Connectors \cup {None} /\ written \subseteq Connectors
        /\ stateFile \in Supervisors \cup {None}
        /\ overlapped \in BOOLEAN /\ killed \subseteq Processes
    BY DEF DaemonInit
  <2>5. mishaps \in 0..MaxMishaps
    BY DEF DaemonInit
  <2> QED BY <2>1, <2>2, <2>3, <2>4, <2>5 DEF DaemonTypeOK, ConnState, SupState
<1>2. Up = {} /\ Acquiring = {}
  BY DEF DaemonInit, Up, Acquiring
<1>3. OneAcquires /\ LockNamesHolder /\ WorkersAreWaitedFor /\ StopsFollow
  BY <1>2 DEF DaemonInit, OneAcquires, LockNamesHolder, WorkersAreWaitedFor, StopsFollow
<1> QED BY <1>1, <1>3 DEF ProcessInv

\* Who is launched acquires; if somebody does already, they overlap.
LEMMA LaunchKeepsLock ==
  ASSUME ProcessInv, NEW c \in Connectors, NEW s, Launched(c, s), UNCHANGED <<lock, written>>
  PROVE  OneAcquires' /\ LockNamesHolder'
<1> USE DEF ProcessInv, Launched, ConnAt
<1>1. /\ conn'[c] = [pc |-> "create", attempt |-> 1, parent |-> s]
      /\ \A d \in Connectors \ {c} : conn'[d] = conn[d]
  BY DEF DaemonTypeOK
<1>2. Up' = Up /\ Acquiring' = Acquiring \cup {c}
  BY <1>1 DEF Up, Acquiring
<1>3. ~overlapped' => ~overlapped /\ Acquiring' = {c}
  BY <1>2
<1> QED BY <1>1, <1>2, <1>3 DEF OneAcquires, LockNamesHolder

\* What a step of a connector leaves alone.
LEMMA ConnectorStep ==
  ASSUME ProcessInv, NEW c \in Connectors,
         Foreground(c) \/ Create(c) \/ WritePid(c) \/ Read(c) \/ RemoveStale(c) \/ Beat(c) \/ Hide(c) \/ Leave(c)
  PROVE  ProcessInv'
<1> USE DEF ProcessInv, ConnAt, ConnGoto, files
<1>1. CASE Foreground(c)
  <2>1. DaemonTypeOK'
    BY <1>1 DEF Foreground, Launched, DaemonTypeOK, Connectors
  <2>2. OneAcquires' /\ LockNamesHolder'
    BY <1>1, LaunchKeepsLock DEF Foreground
  <2>3. WorkersAreWaitedFor' /\ StopsFollow'
    BY <1>1 DEF Foreground, Launched, DaemonTypeOK, WorkersAreWaitedFor, StopsFollow, Up, Acquiring
  <2> QED BY <2>1, <2>2, <2>3
<1>2. CASE Create(c)
  <2>1. DaemonTypeOK'
    <3>1. conn' \in [Connectors -> ConnState] /\ lock' \in Connectors \cup {None}
      BY <1>2 DEF Create, DaemonTypeOK, ConnState
    <3> QED BY <1>2, <3>1 DEF Create, DaemonTypeOK, ConnState
  <2>2. OneAcquires' /\ LockNamesHolder'
    BY <1>2 DEF Create, DaemonTypeOK, OneAcquires, LockNamesHolder, Up, Acquiring, Connectors, Processes
  <2>3. WorkersAreWaitedFor' /\ StopsFollow'
    BY <1>2 DEF Create, DaemonTypeOK, WorkersAreWaitedFor, StopsFollow, Up, Acquiring
  <2> QED BY <2>1, <2>2, <2>3
<1>3. CASE WritePid(c)
  <2>1. DaemonTypeOK'
    <3>1. conn' \in [Connectors -> ConnState] /\ written' \subseteq Connectors
      <4>1. /\ conn \in [Connectors -> ConnState] /\ conn' = [conn EXCEPT ![c].pc = "up"]
            /\ written \subseteq Connectors /\ written' = written \cup {c}
        BY <1>3 DEF WritePid, DaemonTypeOK, ConnState
      <4>2. [conn[c] EXCEPT !.pc = "up"] \in ConnState
        BY <4>1 DEF ConnState
      <4> QED BY <4>1, <4>2
    <3> QED BY <1>3, <3>1 DEF WritePid, DaemonTypeOK, ConnState
  <2>2. OneAcquires' /\ LockNamesHolder'
    BY <1>3 DEF WritePid, DaemonTypeOK, OneAcquires, LockNamesHolder, Up, Acquiring
  <2>3. WorkersAreWaitedFor' /\ StopsFollow'
    BY <1>3 DEF WritePid, DaemonTypeOK, WorkersAreWaitedFor, StopsFollow, Up, Acquiring
  <2> QED BY <2>1, <2>2, <2>3
<1>4. CASE Read(c)
  <2>1. DaemonTypeOK'
    BY <1>4 DEF Read, DaemonTypeOK
  <2>2. OneAcquires' /\ LockNamesHolder'
    BY <1>4 DEF Read, Held, DaemonTypeOK, OneAcquires, LockNamesHolder, Up, Acquiring, Alive
  <2>3. WorkersAreWaitedFor' /\ StopsFollow'
    BY <1>4 DEF Read, DaemonTypeOK, WorkersAreWaitedFor, StopsFollow, Up, Acquiring
  <2> QED BY <2>1, <2>2, <2>3
<1>5. CASE RemoveStale(c)
  <2>1. DaemonTypeOK'
    <3>1. conn' \in [Connectors -> ConnState]
      <4>1. CASE conn[c].attempt = 1
        <5>1. conn' = [conn EXCEPT ![c] = [conn[c] EXCEPT !.pc = "create", !.attempt = 2]]
          BY <1>5, <4>1 DEF RemoveStale
        <5>2. [conn[c] EXCEPT !.pc = "create", !.attempt = 2] \in ConnState
          <6>1. conn[c] \in ConnState
            BY DEF DaemonTypeOK, ConnState
          <6> QED BY <6>1, Restarted
        <5> QED BY <5>1, <5>2 DEF DaemonTypeOK, ConnState
      <4>2. CASE conn[c].attempt # 1
        <5>1. conn' = [conn EXCEPT ![c] = [conn[c] EXCEPT !.pc = "dead"]]
          BY <1>5, <4>2 DEF RemoveStale
        <5>2. [conn[c] EXCEPT !.pc = "dead"] \in ConnState
          <6>1. conn[c] \in ConnState
            BY DEF DaemonTypeOK, ConnState
          <6> QED BY <6>1 DEF ConnState
        <5> QED BY <5>1, <5>2 DEF DaemonTypeOK, ConnState
      <4> QED BY <4>1, <4>2
    <3>2. lock' = None /\ UNCHANGED <<written, heartbeat, stateFile, sup, stop, signalled, mishaps, overlapped, killed>>
      BY <1>5 DEF RemoveStale
    <3> QED BY <3>1, <3>2 DEF DaemonTypeOK, ConnState
  <2>2. OneAcquires' /\ LockNamesHolder'
    BY <1>5 DEF RemoveStale, DaemonTypeOK, OneAcquires, LockNamesHolder, Up, Acquiring
  <2>3. WorkersAreWaitedFor' /\ StopsFollow'
    BY <1>5 DEF RemoveStale, DaemonTypeOK, WorkersAreWaitedFor, StopsFollow, Up, Acquiring
  <2> QED BY <2>1, <2>2, <2>3
<1>6. CASE Beat(c) \/ Hide(c)
  <2>1. DaemonTypeOK'
    BY <1>6 DEF Beat, Hide, DaemonTypeOK
  <2>2. OneAcquires' /\ LockNamesHolder' /\ WorkersAreWaitedFor' /\ StopsFollow'
    BY <1>6 DEF Beat, Hide, OneAcquires, LockNamesHolder, WorkersAreWaitedFor, StopsFollow, Up, Acquiring
  <2> QED BY <2>1, <2>2
<1>7. CASE Leave(c)
  <2>1. DaemonTypeOK'
    <3>1. conn' \in [Connectors -> ConnState]
      <4>1. conn[c] \in ConnState
        BY DEF DaemonTypeOK, ConnState
      <4>2. [conn[c] EXCEPT !.pc = "dead"] \in ConnState
        BY <4>1 DEF ConnState
      <4>3. conn' = [conn EXCEPT ![c] = [conn[c] EXCEPT !.pc = "dead"]]
        BY <1>7 DEF Leave
      <4> QED BY <4>2, <4>3 DEF DaemonTypeOK, ConnState
    <3>2. mishaps' \in 0..MaxMishaps
      BY <1>7 DEF Leave, Fault, DaemonTypeOK
    <3> QED BY <1>7, <3>1, <3>2 DEF Leave, DaemonTypeOK, ConnState
  <2>2. OneAcquires' /\ LockNamesHolder'
    BY <1>7 DEF Leave, DaemonTypeOK, OneAcquires, LockNamesHolder, Up, Acquiring
  <2>3. WorkersAreWaitedFor' /\ StopsFollow'
    BY <1>7 DEF Leave, DaemonTypeOK, WorkersAreWaitedFor, StopsFollow, Up, Acquiring
  <2> QED BY <2>1, <2>2, <2>3
<1> QED BY <1>1, <1>2, <1>3, <1>4, <1>5, <1>6, <1>7

\* A supervisor that is changed in its own component, and one that has died.
LEMMA SupervisorMoves ==
  ASSUME DaemonTypeOK, NEW s \in Supervisors, NEW r \in SupState,
         r.pc = "dead" \/ r.failures < MaxFast,
         sup' = [sup EXCEPT ![s] = r]
  PROVE  /\ sup' \in [Supervisors -> SupState]
         /\ \A t \in Supervisors : sup'[t].pc = "dead" \/ sup'[t].failures < MaxFast
         /\ sup'[s] = r /\ \A t \in Supervisors \ {s} : sup'[t] = sup[t]
<1>1. /\ sup' \in [Supervisors -> SupState]
      /\ sup'[s] = r /\ \A t \in Supervisors \ {s} : sup'[t] = sup[t]
  BY DEF DaemonTypeOK, SupState
<1>2. \A t \in Supervisors : sup'[t].pc = "dead" \/ sup'[t].failures < MaxFast
  BY <1>1 DEF DaemonTypeOK
<1> QED BY <1>1, <1>2

\* Who dies is marked dead, and nothing else is changed.
LEMMA DeadTypes ==
  ASSUME DaemonTypeOK, NEW p \in Processes, Dead(p)
  PROVE  /\ conn' \in [Connectors -> ConnState] /\ sup' \in [Supervisors -> SupState]
         /\ \A t \in Supervisors : sup'[t].pc = "dead" \/ sup'[t].failures < MaxFast
         /\ killed' \subseteq Processes
<1>0. conn \in [Connectors -> ConnState] /\ sup \in [Supervisors -> SupState]
  BY DEF DaemonTypeOK, ConnState, SupState
<1> USE <1>0 DEF Dead
<1>1. conn' \in [Connectors -> ConnState]
  <2>1. \A c \in Connectors : [conn[c] EXCEPT !.pc = "dead"] \in ConnState /\ conn[c] \in ConnState
    BY DEF ConnState
  <2> QED BY <2>1
<1>2. sup' \in [Supervisors -> SupState]
  <2>1. \A s \in Supervisors : [sup[s] EXCEPT !.pc = "dead"] \in SupState /\ sup[s] \in SupState
    BY DEF SupState
  <2> QED BY <2>1
<1>3. \A t \in Supervisors : sup'[t].pc = "dead" \/ sup'[t].failures < MaxFast
  <2>1. \A t \in Supervisors : sup'[t].pc = "dead" \/ sup'[t] = sup[t]
    BY DEF SupState
  <2> QED BY <2>1 DEF DaemonTypeOK
<1> QED BY <1>1, <1>2, <1>3 DEF DaemonTypeOK

\* What a step of a supervisor does to the processes' types.
LEMMA SupervisorTypes ==
  ASSUME ProcessInv, NEW s \in Supervisors,
         StartDaemon(s) \/ WriteState(s) \/ Listen(s) \/ Spawn(s) \/ SpawnFails(s) \/ StopLoop(s)
           \/ WorkerExited(s) \/ Forward(s) \/ KillWorker(s) \/ Stopped(s)
  PROVE  DaemonTypeOK'
<1> USE DEF ProcessInv, SupAt, SupGoto, files
<1>0. sup[s] \in SupState /\ sup[s].worker \in Connectors \cup {None}
  BY DEF DaemonTypeOK, SupState
<1>1. CASE StartDaemon(s) \/ WriteState(s) \/ Listen(s) \/ StopLoop(s) \/ Stopped(s)
  <2>1. PICK pc \in {"starting", "recorded", "loop", "dead"} :
          /\ sup' = [sup EXCEPT ![s] = [sup[s] EXCEPT !.pc = pc]]
          /\ sup[s].pc # "dead"
    BY <1>1 DEF StartDaemon, WriteState, Listen, StopLoop, Stopped
  <2>5. sup[s].failures < MaxFast
    BY <2>1 DEF DaemonTypeOK
  <2>2. [sup[s] EXCEPT !.pc = pc] \in SupState /\ [sup[s] EXCEPT !.pc = pc].failures < MaxFast
    BY <1>0, <2>5 DEF SupState
  <2>3. /\ sup' \in [Supervisors -> SupState]
        /\ \A t \in Supervisors : sup'[t].pc = "dead" \/ sup'[t].failures < MaxFast
    BY <2>1, <2>2, SupervisorMoves
  <2> QED BY <1>1, <2>3 DEF StartDaemon, WriteState, Listen, StopLoop, Stopped, DaemonTypeOK, SupState
<1>2. CASE Spawn(s)
  <2> DEFINE fresh == {c \in Workers: ConnAt(c, "none")}
             c == CHOOSE c \in fresh: TRUE
             r == [sup[s] EXCEPT !.pc = "wait", !.worker = c]
  <2>1. c \in Connectors
    BY <1>2 DEF Spawn, Connectors
  <2>2. /\ conn' = [conn EXCEPT ![c] = [pc |-> "create", attempt |-> 1, parent |-> s]]
        /\ sup' = [sup EXCEPT ![s].pc = "wait", ![s].worker = c] /\ overlapped' \in BOOLEAN
        /\ UNCHANGED <<files, stop, signalled, mishaps, killed>>
    BY <1>2 DEF Spawn, Launched, DaemonTypeOK
  <2> HIDE DEF c
  <2>3. conn' \in [Connectors -> ConnState]
    BY <2>1, <2>2 DEF ConnState, DaemonTypeOK
  <2>4. r \in SupState /\ r.failures < MaxFast /\ sup' = [sup EXCEPT ![s] = r]
    BY <1>0, <1>2, <2>1, <2>2 DEF SupState, Spawn, DaemonTypeOK
  <2>5. /\ sup' \in [Supervisors -> SupState]
        /\ \A t \in Supervisors : sup'[t].pc = "dead" \/ sup'[t].failures < MaxFast
    BY <2>4, SupervisorMoves
  <2> QED BY <2>2, <2>3, <2>5 DEF ConnState, SupState, DaemonTypeOK
<1>3. ASSUME sup[s].failures < MaxFast
      PROVE  /\ Failed(s, "loop") \in SupState
             /\ Failed(s, "loop").pc # "dead" => Failed(s, "loop").failures < MaxFast
  <2> DEFINE n == sup[s].failures + 1
             pc == IF n >= MaxFast THEN "dead" ELSE "loop"
  <2>1. n \in 0..MaxFast /\ pc \in {"dead", "loop"} /\ (pc # "dead" => n < MaxFast)
    <3>1. sup[s].failures \in 0..MaxFast
      BY <1>0 DEF SupState
    <3> QED BY <1>3, <3>1
  <2>2. Failed(s, "loop") = [sup[s] EXCEPT !.failures = n, !.pc = pc]
    BY DEF Failed
  <2> HIDE DEF n, pc
  <2>3. Failed(s, "loop") = [sup[s] EXCEPT !.pc = pc, !.failures = n]
    BY <1>0, <2>2 DEF SupState
  <2> QED BY <1>0, <2>1, <2>3 DEF SupState
<1>4. CASE SpawnFails(s)
  <2>1. sup' = [sup EXCEPT ![s] = Failed(s, "loop")] /\ sup[s].failures < MaxFast
    BY <1>4 DEF SpawnFails, DaemonTypeOK
  <2>2. /\ sup' \in [Supervisors -> SupState]
        /\ \A t \in Supervisors : sup'[t].pc = "dead" \/ sup'[t].failures < MaxFast
    BY <2>1, <1>3, SupervisorMoves
  <2> QED BY <1>4, <2>2 DEF SpawnFails, Fault, DaemonTypeOK, SupState
<1>5. CASE WorkerExited(s)
  <2>1. sup[s].failures < MaxFast
    BY <1>5 DEF WorkerExited, DaemonTypeOK
  <2>2. PICK r \in {Failed(s, "loop"), [sup[s] EXCEPT !.pc = "dead"], [sup[s] EXCEPT !.pc = "loop", !.failures = 0]} :
          sup' = [sup EXCEPT ![s] = r]
    BY <1>5 DEF WorkerExited
  <2>3. r \in SupState /\ (r.pc # "dead" => r.failures < MaxFast)
    <3>1. CASE r = Failed(s, "loop")
      BY <1>3, <2>1, <3>1
    <3>2. CASE r = [sup[s] EXCEPT !.pc = "dead"]
      BY <1>0, <3>2 DEF SupState
    <3>3. CASE r = [sup[s] EXCEPT !.pc = "loop", !.failures = 0]
      <4>1. [sup[s] EXCEPT !.pc = "loop", !.failures = 0] \in SupState
        BY ONLY <1>0, Restarted
      <4>2. [sup[s] EXCEPT !.pc = "loop", !.failures = 0].failures = 0
        BY ONLY <1>0, Restarted
      <4> QED BY <3>3, <4>1, <4>2
    <3> QED BY <2>2, <3>1, <3>2, <3>3
  <2>4. /\ sup' \in [Supervisors -> SupState]
        /\ \A t \in Supervisors : sup'[t].pc = "dead" \/ sup'[t].failures < MaxFast
    BY <2>2, <2>3, SupervisorMoves
  <2> QED BY <1>5, <2>4 DEF WorkerExited, DaemonTypeOK, SupState
<1>6. CASE Forward(s)
  <2> DEFINE c == sup[s].worker
             r == [sup[s] EXCEPT !.pc = "stopping"]
  <2>1. c \in Connectors
    BY <1>0, <1>6 DEF Forward, Alive, Acquiring, Up, Supervising
  <2>2. r \in SupState /\ r.failures < MaxFast /\ sup' = [sup EXCEPT ![s] = r]
    BY <1>0, <1>6 DEF SupState, Forward, DaemonTypeOK
  <2>3. /\ sup' \in [Supervisors -> SupState]
        /\ \A t \in Supervisors : sup'[t].pc = "dead" \/ sup'[t].failures < MaxFast
    BY <2>2, SupervisorMoves
  <2>4. /\ conn' \in [Connectors -> ConnState] /\ killed' \subseteq Processes
        /\ signalled' \in [Processes -> {"no", "lost", "received"}]
    <3>1. CASE signalled[c] = "no"
      BY <1>6, <2>1, <3>1 DEF Forward, DaemonTypeOK, ConnState, Processes
    <3>2. CASE signalled[c] # "no"
      <4>1. conn' = [conn EXCEPT ![c] = [conn[c] EXCEPT !.pc = "dead"]] /\ killed' = killed \cup {c} /\ UNCHANGED signalled
        BY <1>6, <3>2 DEF Forward
      <4>2. [conn[c] EXCEPT !.pc = "dead"] \in ConnState
        BY <2>1 DEF DaemonTypeOK, ConnState
      <4> QED BY <2>1, <4>1, <4>2 DEF DaemonTypeOK, ConnState, Processes
    <3> QED BY <3>1, <3>2
  <2> QED BY <1>6, <2>3, <2>4 DEF Forward, DaemonTypeOK, SupState, ConnState
<1>7. CASE KillWorker(s)
  <2> DEFINE c == sup[s].worker
  <2>1. c \in Connectors
    BY <1>0, <1>7 DEF KillWorker, Alive, Acquiring, Up, Supervising
  <2>2. conn' = [conn EXCEPT ![c] = [conn[c] EXCEPT !.pc = "dead"]] /\ killed' = killed \cup {c}
    BY <1>7 DEF KillWorker
  <2>3. [conn[c] EXCEPT !.pc = "dead"] \in ConnState
    BY <2>1 DEF DaemonTypeOK, ConnState
  <2>4. conn' \in [Connectors -> ConnState] /\ killed' \subseteq Processes
    BY <2>1, <2>2, <2>3 DEF DaemonTypeOK, ConnState, Processes
  <2>5. UNCHANGED <<files, sup, stop, signalled, mishaps, overlapped>>
    BY <1>7 DEF KillWorker
  <2> QED BY <2>4, <2>5 DEF DaemonTypeOK, ConnState
<1> QED BY <1>1, <1>2, <1>4, <1>5, <1>6, <1>7

\* What a step of a supervisor does to the lock and to what is said about the workers.
LEMMA SupervisorStep ==
  ASSUME ProcessInv, NEW s \in Supervisors,
         StartDaemon(s) \/ WriteState(s) \/ Listen(s) \/ Spawn(s) \/ SpawnFails(s) \/ StopLoop(s)
           \/ WorkerExited(s) \/ Forward(s) \/ KillWorker(s) \/ Stopped(s)
  PROVE  ProcessInv'
<1> USE DEF ProcessInv, SupAt, SupGoto, files
<1>1. DaemonTypeOK'
  BY SupervisorTypes
<1>2. CASE StartDaemon(s) \/ WriteState(s) \/ Listen(s) \/ SpawnFails(s) \/ StopLoop(s) \/ WorkerExited(s) \/ Stopped(s)
  <2>1. UNCHANGED <<lock, written, conn, overlapped, stop, killed>>
    BY <1>2 DEF StartDaemon, WriteState, Listen, SpawnFails, StopLoop, WorkerExited, Stopped
  <2>2. Up' = Up /\ Acquiring' = Acquiring
    BY <2>1 DEF Up, Acquiring
  <2>3. OneAcquires' /\ LockNamesHolder'
    BY <2>1, <2>2 DEF OneAcquires, LockNamesHolder
  <2>4. /\ \A t \in Supervisors \ {s} : sup'[t] = sup[t]
        /\ sup[s].pc # "dead" /\ sup'[s].pc # "none"
        /\ sup[s].pc \in {"wait", "stopping"} => sup[s].worker \notin Alive
    <3>1. Failed(s, "loop").pc # "none"
      BY DEF Failed, DaemonTypeOK
    <3>2. CASE SpawnFails(s)
      BY <3>1, <3>2 DEF SpawnFails, DaemonTypeOK
    <3>3. CASE WorkerExited(s)
      BY <3>1, <3>3 DEF WorkerExited, DaemonTypeOK
    <3>4. CASE StartDaemon(s) \/ WriteState(s) \/ Listen(s) \/ StopLoop(s) \/ Stopped(s)
      BY <3>4 DEF StartDaemon, WriteState, Listen, StopLoop, Stopped, DaemonTypeOK
    <3> QED BY <1>2, <3>2, <3>3, <3>4
  <2>5. WorkersAreWaitedFor'
    BY <2>1, <2>2, <2>4 DEF WorkersAreWaitedFor, DaemonTypeOK, Alive, Up, Acquiring
  <2>6. StopsFollow'
    BY <2>1, <2>4 DEF StopsFollow
  <2> QED BY <1>1, <2>3, <2>5, <2>6
<1>3. CASE Spawn(s)
  <2> DEFINE fresh == {c \in Workers: ConnAt(c, "none")}
             c == CHOOSE c \in fresh: TRUE
  <2>1. c \in Connectors /\ Launched(c, s) /\ UNCHANGED <<lock, written, stop, killed>> /\ SupAt(s, "loop")
    BY <1>3 DEF Spawn, Connectors
  <2>2. sup' = [sup EXCEPT ![s].pc = "wait", ![s].worker = c]
    BY <1>3 DEF Spawn
  <2> HIDE DEF c
  <2>3. OneAcquires' /\ LockNamesHolder'
    BY <2>1, LaunchKeepsLock
  <2>4. /\ \A t \in Supervisors \ {s} : sup'[t] = sup[t]
        /\ sup'[s].pc = "wait" /\ sup'[s].worker = c
    BY <2>2 DEF DaemonTypeOK
  <2>5. /\ \A d \in Connectors \ {c} : conn'[d] = conn[d]
        /\ conn'[c].parent = s
    BY <2>1 DEF Launched, DaemonTypeOK
  <2>6. WorkersAreWaitedFor'
    <3> SUFFICES ASSUME NEW d \in Up' \cup Acquiring'
                 PROVE  LET t == conn'[d].parent
                        IN  t = None \/ t \in killed' \/ (sup'[t].pc \in {"wait", "stopping"} /\ sup'[t].worker = d)
      BY DEF WorkersAreWaitedFor
    <3>1. CASE d = c
      BY <2>4, <2>5, <3>1
    <3>2. CASE d # c
      <4>1. d \in Up \cup Acquiring /\ conn'[d] = conn[d] /\ d \in Connectors
        BY <2>5, <3>2 DEF Up, Acquiring
      <4>2. conn[d].parent \in Supervisors \cup {None}
        BY <4>1 DEF DaemonTypeOK
      <4> QED BY <2>1, <2>4, <4>1, <4>2 DEF WorkersAreWaitedFor
    <3> QED BY <3>1, <3>2
  <2>7. StopsFollow'
    BY <2>1, <2>4 DEF StopsFollow
  <2> QED BY <1>1, <2>3, <2>6, <2>7
<1>4. CASE Forward(s) \/ KillWorker(s)
  <2> DEFINE c == sup[s].worker
  <2>1. /\ UNCHANGED <<lock, written, overlapped, stop>> /\ killed \subseteq killed'
        /\ conn' = conn \/ conn' = [conn EXCEPT ![c].pc = "dead"]
        /\ c \in Alive /\ (SupAt(s, "wait") \/ SupAt(s, "stopping"))
        /\ sup' = sup \/ sup' = [sup EXCEPT ![s].pc = "stopping"]
    BY <1>4 DEF Forward, KillWorker
  <2>2. c \in Connectors /\ None \notin Connectors
    BY <1>4 DEF Forward, KillWorker, Alive, Acquiring, Up, Supervising, DaemonTypeOK, Connectors
  <2> HIDE DEF c
  <2>3. /\ \A t \in Supervisors : sup'[t].worker = sup[t].worker
        /\ \A t \in Supervisors \ {s} : sup'[t] = sup[t]
        /\ sup[s].pc \in {"wait", "stopping"} /\ sup'[s].pc \in {"wait", "stopping"}
    <3>1. sup[s].pc \in {"wait", "stopping"}
      BY <2>1
    <3> QED BY <2>1, <3>1 DEF DaemonTypeOK
  <2>4. \A d \in Connectors : conn'[d].pc = "dead" \/ conn'[d] = conn[d]
    BY <2>1, <2>2 DEF DaemonTypeOK
  <2>5. Up' \subseteq Up /\ Acquiring' \subseteq Acquiring
    BY <2>4 DEF Up, Acquiring
  <2>6. OneAcquires' /\ LockNamesHolder'
    BY <2>1, <2>4, <2>5 DEF OneAcquires, LockNamesHolder, Up
  <2>7. WorkersAreWaitedFor'
    BY <2>1, <2>3, <2>4, <2>5 DEF WorkersAreWaitedFor, DaemonTypeOK, Up, Acquiring
  <2>8. StopsFollow'
    BY <2>1, <2>3 DEF StopsFollow
  <2> QED BY <1>1, <2>6, <2>7, <2>8
<1> QED BY <1>2, <1>3, <1>4

\* A process that dies, killed or by a second signal, or is marked by a first one: nothing
\* goes with it, and who waited for it goes on waiting.
LEMMA SignalStep ==
  ASSUME ProcessInv, NEW p \in Processes, Signal(p) \/ (Dead(p) /\ UNCHANGED signalled),
         UNCHANGED <<files, overlapped>>, mishaps' \in 0..MaxMishaps
  PROVE  /\ OneAcquires' /\ LockNamesHolder' /\ WorkersAreWaitedFor'
         /\ \A s \in Supervisors : sup'[s].pc \in {sup[s].pc, "dead"} /\ (sup[s].pc = "dead" => sup'[s].pc = "dead")
         /\ stop' \in [Stops -> [pc: {"idle", "waiting", "orphan", "not_running", "cleaned_stale", "stopped",
                                      "force_killed", "orphan_stopped"}, pid: Processes \cup {None}]]
              => DaemonTypeOK'
<1> USE DEF ProcessInv, files
<1>1. CASE Dead(p) /\ UNCHANGED signalled
  <2>1. /\ conn' \in [Connectors -> ConnState] /\ sup' \in [Supervisors -> SupState]
        /\ \A t \in Supervisors : sup'[t].pc = "dead" \/ sup'[t].failures < MaxFast
        /\ killed' \subseteq Processes
    BY <1>1, DeadTypes
  <2>2. OneAcquires' /\ LockNamesHolder'
    BY <1>1 DEF Dead, DaemonTypeOK, OneAcquires, LockNamesHolder, Up, Acquiring
  <2>3. WorkersAreWaitedFor'
    BY <1>1 DEF Dead, DaemonTypeOK, WorkersAreWaitedFor, Up, Acquiring
  <2>4. \A s \in Supervisors : sup'[s].pc \in {sup[s].pc, "dead"} /\ (sup[s].pc = "dead" => sup'[s].pc = "dead")
    BY <1>1 DEF Dead, DaemonTypeOK
  <2>5. stop' \in [Stops -> [pc: {"idle", "waiting", "orphan", "not_running", "cleaned_stale", "stopped",
                                  "force_killed", "orphan_stopped"}, pid: Processes \cup {None}]] => DaemonTypeOK'
    BY <1>1, <2>1 DEF DaemonTypeOK, ConnState, SupState
  <2> QED BY <2>2, <2>3, <2>4, <2>5
<1>2. CASE UNCHANGED <<conn, sup, killed>> /\ signalled' \in [Processes -> {"no", "lost", "received"}]
  <2>1. OneAcquires' /\ LockNamesHolder' /\ WorkersAreWaitedFor'
    BY <1>2 DEF OneAcquires, LockNamesHolder, WorkersAreWaitedFor, Up, Acquiring
  <2>2. stop' \in [Stops -> [pc: {"idle", "waiting", "orphan", "not_running", "cleaned_stale", "stopped",
                                  "force_killed", "orphan_stopped"}, pid: Processes \cup {None}]] => DaemonTypeOK'
    BY <1>2 DEF DaemonTypeOK
  <2> QED BY <1>2, <2>1, <2>2
<1>3. Signal(p) => (Dead(p) /\ UNCHANGED signalled)
                     \/ (UNCHANGED <<conn, sup, killed>> /\ signalled' \in [Processes -> {"no", "lost", "received"}])
  BY DEF Signal, DaemonTypeOK
<1> QED BY <1>1, <1>2, <1>3

\* A step of a stop command: what it waits for is a supervisor, and stays one.
LEMMA StopStep ==
  ASSUME ProcessInv, NEW p \in Stops, StopFinds(p) \/ StopSeesExit(p) \/ StopKills(p)
  PROVE  ProcessInv'
<1> USE DEF ProcessInv, StopGoto
<1> DEFINE StopState == [pc: {"idle", "waiting", "orphan", "not_running", "cleaned_stale", "stopped",
                              "force_killed", "orphan_stopped"}, pid: Processes \cup {None}]
<1>1. mishaps' = mishaps /\ mishaps' \in 0..MaxMishaps /\ UNCHANGED <<files, overlapped>>
  BY DEF StopFinds, StopSeesExit, StopKills, DaemonTypeOK
<1>2. ASSUME NEW pc, NEW pid,
             stop' = [stop EXCEPT ![p] = [pc |-> pc, pid |-> pid]],
             [pc |-> pc, pid |-> pid] \in StopState,
             pc \in {"waiting", "stopped"} => pid \in Supervisors /\ sup[pid].pc # "none",
             pc = "stopped" => sup[pid].pc = "dead",
             \A s \in Supervisors : sup'[s].pc \in {sup[s].pc, "dead"} /\ (sup[s].pc = "dead" => sup'[s].pc = "dead")
      PROVE  stop' \in [Stops -> StopState] /\ StopsFollow'
  <2>1. stop' \in [Stops -> StopState]
    BY <1>2 DEF DaemonTypeOK
  <2>2. /\ stop'[p].pc = pc /\ stop'[p].pid = pid
        /\ \A q \in Stops \ {p} : stop'[q] = stop[q]
    BY <1>2 DEF DaemonTypeOK
  <2>3. StopsFollow'
    BY <1>2, <2>2 DEF StopsFollow
  <2> QED BY <2>1, <2>3
<1>3. CASE StopFinds(p)
  <2>1. CASE stateFile \in Alive
    <3>1. stateFile \in Supervisors /\ sup[stateFile].pc # "none" /\ stateFile \in Processes
      BY <2>1 DEF Alive, Acquiring, Up, Supervising, DaemonTypeOK, Connectors, Processes
    <3>2. Signal(stateFile) /\ stop' = [stop EXCEPT ![p] = [pc |-> "waiting", pid |-> stateFile]]
      BY <1>3, <2>1 DEF StopFinds
    <3> QED BY <1>1, <1>2, <3>1, <3>2, SignalStep
  <2>2. CASE stateFile \notin Alive /\ stateFile # None /\ heartbeat \in Alive
    <3>1. heartbeat \in Processes
      BY <2>2 DEF Alive, Acquiring, Up, Supervising, Processes
    <3>2. Signal(heartbeat) /\ stop' = [stop EXCEPT ![p] = [pc |-> "orphan", pid |-> heartbeat]]
      BY <1>3, <2>2 DEF StopFinds
    <3> QED BY <1>1, <1>2, <3>1, <3>2, SignalStep
  <2>3. CASE stateFile \notin Alive /\ ~(stateFile # None /\ heartbeat \in Alive)
    <3>1. /\ UNCHANGED <<conn, sup, signalled, killed>>
          /\ \E pc \in {"not_running", "cleaned_stale"} : stop' = [stop EXCEPT ![p] = [pc |-> pc, pid |-> None]]
      BY <1>3, <2>3 DEF StopFinds
    <3>2. stop' \in [Stops -> StopState] /\ StopsFollow'
      BY <1>2, <3>1
    <3> QED BY <1>1, <3>1, <3>2 DEF DaemonTypeOK, OneAcquires, LockNamesHolder, WorkersAreWaitedFor, Up, Acquiring, files
  <2> QED BY <2>1, <2>2, <2>3
<1>4. CASE StopSeesExit(p)
  <2>1. /\ UNCHANGED <<conn, sup, signalled, killed>> /\ stop[p].pc \in {"waiting", "orphan"}
        /\ stop[p].pid \notin Alive /\ stop[p].pid \in Processes \cup {None}
    BY <1>4 DEF StopSeesExit, DaemonTypeOK
  <2>2. stop[p].pc = "waiting" => stop[p].pid \in Supervisors /\ sup[stop[p].pid].pc = "dead"
    <3>1. ASSUME stop[p].pc = "waiting"
          PROVE  stop[p].pid \in Supervisors /\ sup[stop[p].pid].pc \notin {"none"} \cup {"starting", "recorded", "loop", "wait", "stopping"}
      BY <2>1, <3>1 DEF StopsFollow, Alive, Supervising
    <3> QED BY <3>1 DEF DaemonTypeOK
  <2>3. \E pc \in {"stopped", "orphan_stopped"} :
          /\ stop' = [stop EXCEPT ![p] = [pc |-> pc, pid |-> stop[p].pid]]
          /\ pc = "stopped" => stop[p].pc = "waiting"
    BY <1>4 DEF StopSeesExit
  <2>4. stop' \in [Stops -> StopState] /\ StopsFollow'
    BY <1>2, <2>1, <2>2, <2>3
  <2> QED BY <1>1, <2>1, <2>4 DEF DaemonTypeOK, OneAcquires, LockNamesHolder, WorkersAreWaitedFor, Up, Acquiring, files
<1>5. CASE StopKills(p)
  <2>1. \E pc \in {"force_killed", "orphan_stopped"} : stop' = [stop EXCEPT ![p] = [pc |-> pc, pid |-> stop[p].pid]]
    BY <1>5 DEF StopKills
  <2>2. stop[p].pid \in Processes \cup {None} /\ UNCHANGED signalled
    BY <1>5 DEF StopKills, DaemonTypeOK
  <2>3. CASE stop[p].pid \in Alive
    <3>1. stop[p].pid \in Processes /\ Dead(stop[p].pid)
      BY <1>5, <2>3 DEF StopKills, Alive, Acquiring, Up, Supervising, Processes
    <3> QED BY <1>1, <1>2, <2>1, <2>2, <3>1, SignalStep
  <2>4. CASE stop[p].pid \notin Alive
    <3>1. UNCHANGED <<conn, sup, killed>>
      BY <1>5, <2>4 DEF StopKills
    <3>2. stop' \in [Stops -> StopState] /\ StopsFollow'
      BY <1>2, <2>1, <2>2, <3>1
    <3> QED BY <1>1, <2>2, <3>1, <3>2 DEF DaemonTypeOK, OneAcquires, LockNamesHolder, WorkersAreWaitedFor, Up, Acquiring, files
  <2> QED BY <2>3, <2>4
<1> QED BY <1>3, <1>4, <1>5

LEMMA CrashStep ==
  ASSUME ProcessInv, NEW p \in Processes, Crash(p)
  PROVE  ProcessInv'
<1> USE DEF ProcessInv
<1>1. /\ Dead(p) /\ UNCHANGED <<files, stop, signalled, overlapped>>
      /\ mishaps' \in 0..MaxMishaps
  BY DEF Crash, Fault, DaemonTypeOK
<1>2. OneAcquires' /\ LockNamesHolder' /\ WorkersAreWaitedFor' /\ DaemonTypeOK'
  BY <1>1, SignalStep DEF DaemonTypeOK
<1>3. StopsFollow'
  BY <1>1, SignalStep DEF StopsFollow
<1> QED BY <1>2, <1>3

-----------------------------------------------------------------------------
\* The inductive invariant, of every step of every process (connect_lock.go, connect_daemon.go).
THEOREM ProcessesHold == DaemonSpec => []ProcessInv
<1>1. ASSUME ProcessInv, [DaemonNext]_daemonVars PROVE ProcessInv'
  <2>1. CASE UNCHANGED daemonVars
    BY <1>1, <2>1 DEF daemonVars, files, ProcessInv, DaemonTypeOK, OneAcquires, LockNamesHolder,
                      WorkersAreWaitedFor, StopsFollow, Up, Acquiring
  <2> QED BY <1>1, <2>1, ConnectorStep, SupervisorStep, StopStep, CrashStep DEF DaemonNext
<1> QED BY <1>1, ProcessStart, PTL DEF DaemonSpec

\* For any connectors, supervisors, stops and crashes: without overlapping acquisitions the
\* lock names the one connector that is connected, and a supervisor that stop reports as
\* stopped has left no worker, unless it was killed.
THEOREM ProcessesAreTrackedAlways == DaemonSpec => []ProcessesAreTracked
<1>1. ASSUME ProcessInv PROVE StopIsComplete
  BY <1>1 DEF ProcessInv, DaemonTypeOK, WorkersAreWaitedFor, StopsFollow, StopIsComplete
<1>2. ProcessInv => ProcessesAreTracked
  BY <1>1 DEF ProcessInv, ProcessesAreTracked
<1> QED BY <1>2, ProcessesHold, PTL

-----------------------------------------------------------------------------
(* The sessions of the agents.                                            *)

\* Conversations have different sessions, of those that were made.
Proper(map) ==
  /\ map \in Maps
  /\ \A c \in Convs : map[c] \in (1..minted) \cup {Absent}
  /\ \A c, d \in Convs : map[c] = map[d] /\ map[c] # Absent => c = d

MapsAreProper ==
  Proper(sessions) /\ Proper(stored) /\ \A c \in Convs : Proper(forward[c].snap)

\* What a conversation is about to do, or does next once its snapshot is written.
Then(c, pc) == Does(c, pc) \/ (Does(c, "save") /\ forward[c].then = pc)

\* A turn asks with the session that its conversation has; it makes one where there is
\* none; a one-shot agent is told that the session of a second try is new.  A session that
\* is to be deleted was dropped.
TurnKnowsSession(c) ==
  /\ Then(c, "ask") => /\ forward[c].id = sessions[c] /\ sessions[c] # Absent
                       /\ forward[c].tries \in 1..2
                       /\ Minted /\ forward[c].tries = 2 => forward[c].fresh
  /\ Then(c, "look") => sessions[c] = Absent /\ forward[c].tries = 1
  /\ Then(c, "delete") => ~Minted /\ forward[c].id \in dropped
  /\ Does(c, "create") => ~Minted /\ sessions[c] = Absent /\ forward[c].tries \in 1..2
  /\ Does(c, "idle") => forward[c].tries = 0

TurnsKnowSessions == \A c \in Convs : TurnKnowsSession(c)

DroppedIsAway == \A c \in Convs : sessions[c] \notin dropped

\* Under the mutex the snapshot being written is the map, and the file stays rid of what
\* it was rid of once.
FileFollows ==
  Locked => /\ \A c \in Convs : Does(c, "save") => forward[c].snap = sessions
            /\ \A c, d \in Convs : Does(c, "save") /\ Does(d, "save") => c = d
            /\ \A c \in Convs : sessions[c] \notin gone /\ stored[c] \notin gone

\* The turns of opencode whose second session is lost already: each costs one that the
\* agent forgot.
Doomed == {c \in Convs : /\ ~Minted /\ Then(c, "ask") /\ forward[c].tries = 2
                         /\ forward[c].id \notin known}

Charged == spent.faults + (IF Minted THEN 0 ELSE spent.forgets)

FailuresAreCharged ==
  IsFiniteSet(Doomed) /\ failed + Cardinality(Doomed) <= Charged

SessionInv ==
  /\ SessionTypeOK /\ MapsAreProper /\ TurnsKnowSessions /\ DroppedIsAway /\ FileFollows
  /\ FailuresAreCharged

HIDE DaemonConstants
USE SessionConstants DEF SessionConstants

ForwardState == [pc : {"idle", "look", "create", "save", "ask", "delete"},
                 id : Ids \cup {Absent}, fresh : BOOLEAN, tries : 0..2,
                 then : {"idle", "look", "ask", "delete"}, snap : Maps]

LEMMA BoundsAreNumbers ==
  /\ DOMAIN Bounds = {"faults", "forgets", "commands", "unsaved", "restarts"}
  /\ \A b \in DOMAIN Bounds : Bounds[b] \in Nat
BY DEF Bounds

\* The record of what was used up, before and after.
SpentType ==
  spent \in [DOMAIN Bounds -> Nat] /\ \A b \in DOMAIN Bounds : spent[b] <= Bounds[b]

LEMMA Spending ==
  ASSUME SpentType, NEW what \in DOMAIN Bounds, Spend(what)
  PROVE  /\ SpentType' /\ spent'[what] = spent[what] + 1
         /\ \A b \in DOMAIN Bounds \ {what} : spent'[b] = spent[b]
BY BoundsAreNumbers DEF SpentType, Spend

LEMMA RestingType ==
  /\ Resting \in ForwardState /\ Resting.pc = "idle" /\ Resting.tries = 0 /\ Proper(Resting.snap)
  /\ Resting.snap \in Maps
BY DEF Resting, ForwardState, Maps, Proper

LEMMA SessionStart == SessionInit => SessionInv
<1> SUFFICES ASSUME SessionInit PROVE SessionInv
  OBVIOUS
<1>1. \A c \in Convs : forward[c] = Resting
  BY DEF SessionInit
<1>2. SpentType
  BY BoundsAreNumbers DEF SessionInit, SpentType
<1>3. SessionTypeOK
  <2>1. {sessions, stored} \subseteq Maps /\ minted \in 0..MaxIds
        /\ known \cup dropped \cup gone \subseteq 1..minted /\ failed \in Nat
    BY DEF SessionInit, Maps
  <2>2. forward \in [Convs -> ForwardState]
    BY RestingType DEF SessionInit
  <2> QED BY <1>2, <2>1, <2>2 DEF SessionInit, SessionTypeOK, SpentType, ForwardState
<1>4. MapsAreProper
  BY <1>1, RestingType DEF SessionInit, MapsAreProper, Proper, Maps
<1>5. TurnsKnowSessions
  BY <1>1, RestingType DEF TurnsKnowSessions, TurnKnowsSession, Then, Does
<1>6. DroppedIsAway /\ FileFollows
  BY <1>1, RestingType DEF SessionInit, DroppedIsAway, FileFollows, Does
<1>7. Doomed = {}
  BY <1>1, RestingType DEF Doomed, Then, Does
<1>8. FailuresAreCharged
  <2>1. spent.faults = 0 /\ spent.forgets = 0 /\ failed = 0
    BY BoundsAreNumbers DEF SessionInit
  <2> QED BY <1>7, <2>1, FS_EmptySet DEF FailuresAreCharged, Charged
<1> QED BY <1>3, <1>4, <1>5, <1>6, <1>8 DEF SessionInv

\* What is charged for grows no faster than what it is charged to.
LEMMA ChargeStep ==
  ASSUME SessionInv, UNCHANGED agent, SpentType', failed' \in Nat,
         Doomed' \subseteq Doomed, failed' - failed <= Charged' - Charged
  PROVE  FailuresAreCharged'
<1>1. IsFiniteSet(Doomed') /\ Cardinality(Doomed') <= Cardinality(Doomed)
      /\ Cardinality(Doomed') \in Nat /\ Cardinality(Doomed) \in Nat
  BY FS_Subset, FS_CardinalityType DEF SessionInv, FailuresAreCharged
<1>2. Charged \in Nat /\ Charged' \in Nat /\ failed \in Nat
  BY BoundsAreNumbers DEF SessionInv, SessionTypeOK, SpentType, Charged
<1>3. failed + Cardinality(Doomed) <= Charged
  BY DEF SessionInv, FailuresAreCharged
<1>4. failed' + Cardinality(Doomed') <= Charged'
  <2>1. \A a, b, x, y, z, w \in Nat : x - a <= y - b /\ a + z <= b /\ w <= z => x + w <= y
    OBVIOUS
  <2> QED BY <1>1, <1>2, <1>3, <2>1
<1> QED BY <1>1, <1>4 DEF FailuresAreCharged

\* What a turn that was not doomed does not make doomed.
LEMMA OthersAsDoomed ==
  ASSUME SessionInv, UNCHANGED agent, NEW c \in Convs, NEW rec \in ForwardState,
         forward' = [forward EXCEPT ![c] = rec],
         \A d \in Convs \ {c} : Then(d, "ask") /\ forward[d].id \in known => forward[d].id \in known'
  PROVE  /\ Doomed' \subseteq Doomed \cup {c}
         /\ (Minted \/ ~(rec.pc = "ask" \/ (rec.pc = "save" /\ rec.then = "ask"))
               \/ rec.tries # 2 \/ rec.id \in known') => c \notin Doomed'
<1>1. forward \in [Convs -> ForwardState]
  BY DEF SessionInv, SessionTypeOK, ForwardState
<1>2. forward'[c] = rec /\ \A d \in Convs \ {c} : forward'[d] = forward[d]
  BY <1>1
<1>3. Minted' <=> Minted
  BY DEF Minted
<1> QED BY <1>2, <1>3 DEF Doomed, Then, Does

\* A conversation moves on and leaves the map as it is.
LEMMA MoveStep ==
  ASSUME SessionInv, UNCHANGED <<agent, sessions, stored, dropped, gone, minted>>,
         NEW c \in Convs, NEW rec \in ForwardState,
         forward' = [forward EXCEPT ![c] = rec], Proper(rec.snap), rec.pc # "save",
         TurnKnowsSession(c)'
  PROVE  MapsAreProper' /\ TurnsKnowSessions' /\ DroppedIsAway' /\ FileFollows'
<1>1. forward \in [Convs -> ForwardState]
  BY DEF SessionInv, SessionTypeOK, ForwardState
<1>2. forward'[c] = rec /\ \A d \in Convs \ {c} : forward'[d] = forward[d]
  BY <1>1
<1>3. MapsAreProper'
  BY <1>2 DEF SessionInv, MapsAreProper, Proper
<1>4. TurnsKnowSessions'
  BY <1>2 DEF SessionInv, TurnsKnowSessions, TurnKnowsSession, Then, Does, Minted
<1>5. DroppedIsAway'
  BY DEF SessionInv, DroppedIsAway
<1>6. FileFollows'
  BY <1>2 DEF SessionInv, FileFollows, Does, Locked
<1> QED BY <1>3, <1>4, <1>5, <1>6

\* A conversation gives its session up, or is given a new one, under the mutex.
LEMMA SetStep ==
  ASSUME SessionInv, UNCHANGED <<agent, stored, gone>>, Free,
         NEW c \in Convs, NEW id \in Ids \cup {Absent}, NEW rec \in ForwardState,
         sessions' = [sessions EXCEPT ![c] = id],
         forward' = [forward EXCEPT ![c] = rec], rec.pc = "save", rec.snap = sessions',
         \/ id = Absent /\ minted' = minted /\ dropped' = dropped \cup ({sessions[c]} \ {Absent})
         \/ id = minted' /\ minted' = minted + 1 /\ minted' \in 0..MaxIds /\ dropped' = dropped,
         TurnKnowsSession(c)'
  PROVE  /\ MapsAreProper' /\ TurnsKnowSessions' /\ DroppedIsAway' /\ FileFollows'
         /\ sessions' \in Maps /\ dropped' \subseteq 1..minted' /\ minted' \in 0..MaxIds
<1>1. forward \in [Convs -> ForwardState] /\ sessions \in Maps /\ minted \in 0..MaxIds
      /\ dropped \subseteq 1..minted /\ gone \subseteq 1..minted
  BY DEF SessionInv, SessionTypeOK, ForwardState
<1>2. forward'[c] = rec /\ \A d \in Convs \ {c} : forward'[d] = forward[d]
  BY <1>1
<1>3. sessions' \in Maps /\ sessions'[c] = id /\ \A d \in Convs \ {c} : sessions'[d] = sessions[d]
  BY <1>1 DEF Maps
<1>3a. Absent \notin 1..minted /\ minted + 1 \notin 1..minted
  <2>1. minted \in Nat
    BY <1>1
  <2> QED BY <2>1
<1>4. Proper(sessions) /\ Proper(stored) /\ \A d \in Convs : Proper(forward[d].snap)
  BY DEF SessionInv, MapsAreProper
<1>5. minted' \in 0..MaxIds /\ minted <= minted' /\ 1..minted \subseteq 1..minted'
  BY <1>1
<1>6. \A map : Proper(map) => /\ map \in Maps
                              /\ \A d \in Convs : map[d] \in (1..minted') \cup {Absent}
                              /\ \A d, e \in Convs : map[d] = map[e] /\ map[d] # Absent => d = e
  BY <1>5 DEF Proper
<1>7. (Proper(sessions))'
  <2>1. \A d \in Convs \ {c} : sessions[d] \in (1..minted) \cup {Absent}
    BY <1>4 DEF Proper
  <2>2. id = Absent \/ (id \in 1..minted' /\ id \notin 1..minted)
    BY <1>1
  <2>3. \A d \in Convs : sessions'[d] \in (1..minted') \cup {Absent}
    BY <1>3, <1>5, <2>1, <2>2
  <2>4. \A d, e \in Convs : sessions'[d] = sessions'[e] /\ sessions'[d] # Absent => d = e
    BY <1>3, <1>4, <2>1, <2>2 DEF Proper
  <2> QED BY <1>3, <2>3, <2>4 DEF Proper
<1>8. MapsAreProper'
  <2>1. (Proper(stored))'
    BY <1>4, <1>6 DEF Proper
  <2>2. \A d \in Convs : (Proper(forward[d].snap))'
    <3>1. ASSUME NEW d \in Convs PROVE (Proper(forward[d].snap))'
      <4>1. CASE d = c
        <5>1. forward'[d].snap = sessions'
          BY <1>2, <4>1
        <5> QED BY <1>7, <5>1 DEF Proper
      <4>2. CASE d # c
        BY <1>2, <1>4, <1>6, <4>2 DEF Proper
      <4> QED BY <4>1, <4>2
    <3> QED BY <3>1
  <2> QED BY <1>7, <2>1, <2>2 DEF MapsAreProper
<1>9. DroppedIsAway'
  <2>1. id = Absent \/ (id \notin 1..minted /\ dropped' = dropped)
    BY <1>1
  <2>2. Absent \notin dropped'
    BY <1>1, <1>3a
  <2>3. \A d \in Convs \ {c} : sessions[d] = sessions[c] => sessions[c] = Absent
    BY <1>4 DEF Proper
  <2> QED BY <1>1, <1>3, <2>1, <2>2, <2>3 DEF SessionInv, DroppedIsAway
<1>10. FileFollows'
  <2>1. SUFFICES ASSUME Locked
        PROVE  /\ \A d \in Convs : (Does(d, "save"))' => forward'[d].snap = sessions'
               /\ \A d, e \in Convs : (Does(d, "save"))' /\ (Does(e, "save"))' => d = e
               /\ \A d \in Convs : sessions'[d] \notin gone /\ stored[d] \notin gone
    BY DEF FileFollows, Locked
  <2>2. \A d \in Convs : ~Does(d, "save")
    BY <2>1 DEF Free
  <2>3. id \notin gone
    BY <1>1, <1>3a
  <2> QED BY <1>2, <1>3, <2>1, <2>2, <2>3 DEF SessionInv, FileFollows, Does
<1>11. TurnsKnowSessions'
  <2>1. dropped \subseteq dropped'
    OBVIOUS
  <2> QED BY <1>2, <1>3, <2>1 DEF SessionInv, TurnsKnowSessions, TurnKnowsSession, Then, Does, Minted
<1>12. dropped' \subseteq 1..minted'
  <2>1. sessions[c] \in (1..minted) \cup {Absent}
    BY <1>4 DEF Proper
  <2> QED BY <1>1, <1>5, <2>1
<1> QED BY <1>3, <1>5, <1>8, <1>9, <1>10, <1>11, <1>12

LEMMA SpentIsTyped == SessionTypeOK => SpentType
BY DEF SessionTypeOK, SpentType

LEMMA TypesFit ==
  ASSUME agent' \in {"oneshot", "opencode"}, sessions' \in Maps, stored' \in Maps,
         forward' \in [Convs -> ForwardState], known' \subseteq 1..minted',
         dropped' \subseteq 1..minted', gone' \subseteq 1..minted', minted' \in 0..MaxIds,
         failed' \in Nat, SpentType'
  PROVE  SessionTypeOK'
BY DEF SessionTypeOK, SpentType, ForwardState

\* What holds of a state, in the form the steps use.
LEMMA SessionFacts ==
  ASSUME SessionInv
  PROVE  /\ agent \in {"oneshot", "opencode"} /\ sessions \in Maps /\ stored \in Maps
         /\ forward \in [Convs -> ForwardState] /\ known \subseteq 1..minted
         /\ dropped \subseteq 1..minted /\ gone \subseteq 1..minted /\ minted \in 0..MaxIds
         /\ minted \in Nat /\ MaxIds \in Nat
         /\ failed \in Nat /\ SpentType
         /\ \A c \in Convs : TurnKnowsSession(c) /\ Proper(forward[c].snap)
BY DEF SessionInv, SessionTypeOK, SpentType, ForwardState, MapsAreProper, TurnsKnowSessions

\* A doomed turn gives up, and what it cost was lost.
LEMMA DoomStep ==
  ASSUME SessionInv, UNCHANGED <<agent, spent>>, NEW c \in Doomed,
         Doomed' \subseteq Doomed \ {c}, failed' = failed + 1
  PROVE  FailuresAreCharged'
<1>1. IsFiniteSet(Doomed \ {c}) /\ Cardinality(Doomed \ {c}) = Cardinality(Doomed) - 1
      /\ IsFiniteSet(Doomed)
  BY FS_RemoveElement DEF SessionInv, FailuresAreCharged
<1>2. IsFiniteSet(Doomed') /\ Cardinality(Doomed') <= Cardinality(Doomed) - 1
      /\ Cardinality(Doomed') \in Nat /\ Cardinality(Doomed) \in Nat
  BY <1>1, FS_Subset, FS_CardinalityType
<1>3. Charged \in Nat /\ Charged' = Charged /\ failed \in Nat
  BY SessionFacts, BoundsAreNumbers DEF SpentType, Charged, Minted
<1>4. failed + Cardinality(Doomed) <= Charged
  BY DEF SessionInv, FailuresAreCharged
<1>5. \A a, b, z, w \in Nat : a + z <= b /\ w <= z - 1 => a + 1 + w <= b
  OBVIOUS
<1> QED BY <1>2, <1>3, <1>4, <1>5 DEF FailuresAreCharged

\* The agent forgets a session, which dooms at most one turn.
LEMMA LossStep ==
  ASSUME SessionInv, UNCHANGED <<agent, failed>>, NEW c, Doomed' \subseteq Doomed \cup {c},
         Minted => Doomed' = {}, Spend("forgets")
  PROVE  FailuresAreCharged'
<1>1. IsFiniteSet(Doomed) /\ Cardinality(Doomed) \in Nat
  BY FS_CardinalityType DEF SessionInv, FailuresAreCharged
<1>2. IsFiniteSet(Doomed \cup {c}) /\ Cardinality(Doomed \cup {c}) <= Cardinality(Doomed) + 1
  <2>1. CASE c \in Doomed
    <3>1. Doomed \cup {c} = Doomed
      BY <2>1
    <3> QED BY <1>1, <3>1
  <2>2. CASE c \notin Doomed
    <3>1. IsFiniteSet(Doomed \cup {c})
      BY <1>1, FS_AddElement
    <3>2. Cardinality(Doomed \cup {c}) = Cardinality(Doomed) + 1
      BY <1>1, <2>2, FS_AddElement
    <3> QED BY <1>1, <3>1, <3>2
  <2> QED BY <2>1, <2>2
<1>3. IsFiniteSet(Doomed') /\ Cardinality(Doomed') <= Cardinality(Doomed) + 1
      /\ Cardinality(Doomed') \in Nat
  <2>1. IsFiniteSet(Doomed') /\ Cardinality(Doomed') <= Cardinality(Doomed \cup {c})
    BY <1>2, FS_Subset
  <2>2. Cardinality(Doomed') \in Nat /\ Cardinality(Doomed \cup {c}) \in Nat
    BY <1>2, <2>1, FS_CardinalityType
  <2> QED BY <1>1, <1>2, <2>1, <2>2
<1>4. spent.faults \in Nat /\ spent.forgets \in Nat /\ failed \in Nat
      /\ spent'.faults = spent.faults /\ spent'.forgets = spent.forgets + 1
  BY SessionFacts, BoundsAreNumbers, Spending DEF SpentType
<1>5. failed + Cardinality(Doomed) <= Charged
  BY DEF SessionInv, FailuresAreCharged
<1>6. CASE Minted
  <2>1. Cardinality(Doomed') = 0 /\ Charged' = spent.faults /\ Charged = spent.faults
    BY <1>4, <1>6, FS_EmptySet DEF Charged, Minted
  <2> QED BY <1>1, <1>3, <1>4, <1>5, <2>1 DEF FailuresAreCharged
<1>7. CASE ~Minted
  <2>1. Charged' = spent.faults + spent.forgets + 1 /\ Charged = spent.faults + spent.forgets
    BY <1>4, <1>7 DEF Charged, Minted
  <2> QED BY <1>1, <1>3, <1>4, <1>5, <2>1 DEF FailuresAreCharged
<1> QED BY <1>6, <1>7

\* A conversation's session is dropped, and it tries again or rests.
LEMMA ResetStep ==
  ASSUME SessionInv, UNCHANGED <<agent, stored, gone, minted, known>>,
         NEW c \in Convs, NEW then \in {"idle", "look"}, Reset(c, then),
         then = "look" => forward[c].tries = 1
  PROVE  /\ MapsAreProper' /\ TurnsKnowSessions' /\ DroppedIsAway' /\ FileFollows'
         /\ sessions' \in Maps /\ dropped' \subseteq 1..minted' /\ minted' \in 0..MaxIds
         /\ forward' \in [Convs -> ForwardState] /\ Doomed' \subseteq Doomed \ {c}
<1> DEFINE rec == [forward[c] EXCEPT !.pc = "save", !.then = then, !.snap = sessions']
<1>1. /\ Free /\ sessions' = [sessions EXCEPT ![c] = Absent]
      /\ forward' = [forward EXCEPT ![c] = rec]
      /\ dropped' = dropped \cup ({sessions[c]} \ {Absent})
  BY DEF Reset, Set
<1>2. sessions' \in Maps /\ sessions'[c] = Absent
  BY <1>1, SessionFacts DEF Maps
<1>3. rec \in ForwardState /\ rec.pc = "save" /\ rec.then = then /\ rec.snap = sessions'
      /\ rec.tries = forward[c].tries
  <2>1. forward[c] \in ForwardState
    BY SessionFacts
  <2> QED BY ONLY <1>2, <2>1, then \in {"idle", "look"} DEF ForwardState
<1> HIDE DEF rec
<1>4. forward'[c] = rec /\ forward' \in [Convs -> ForwardState]
  BY <1>1, <1>3, SessionFacts
<1>5. TurnKnowsSession(c)'
  BY <1>2, <1>3, <1>4 DEF TurnKnowsSession, Then, Does
<1>6. Doomed' \subseteq Doomed \ {c}
  BY <1>1, <1>3, OthersAsDoomed
<1> QED BY <1>1, <1>3, <1>4, <1>5, <1>6, SetStep

\* A turn ends without a change of the map.
LEMMA RestStep ==
  ASSUME SessionInv, UNCHANGED <<agent, sessions, stored, dropped, gone, minted>>, NEW c \in Convs,
         forward' = [forward EXCEPT ![c] = Resting],
         \A d \in Convs \ {c} : Then(d, "ask") /\ forward[d].id \in known => forward[d].id \in known'
  PROVE  /\ MapsAreProper' /\ TurnsKnowSessions' /\ DroppedIsAway' /\ FileFollows'
         /\ forward' \in [Convs -> ForwardState] /\ Doomed' \subseteq Doomed \ {c}
<1>1. forward'[c] = Resting /\ forward' \in [Convs -> ForwardState]
  BY SessionFacts, RestingType
<1>2. TurnKnowsSession(c)'
  BY <1>1, RestingType DEF TurnKnowsSession, Then, Does
<1>3. Doomed' \subseteq Doomed \ {c}
  BY RestingType, OthersAsDoomed
<1> QED BY <1>1, <1>2, <1>3, RestingType, MoveStep

-----------------------------------------------------------------------------
LEMMA SameCharge ==
  ASSUME SessionInv, UNCHANGED <<agent, failed>>, SpentType', Charged' = Charged, Doomed' \subseteq Doomed
  PROVE  FailuresAreCharged'
<1>1. failed' \in Nat /\ Charged \in Nat
  BY SessionFacts, BoundsAreNumbers DEF SpentType, Charged
<1>2. failed' - failed <= Charged' - Charged
  BY <1>1
<1> QED BY <1>1, <1>2, ChargeStep

LEMMA LookStep ==
  ASSUME SessionInv, UNCHANGED agent, NEW c \in Convs, Look(c)
  PROVE  SessionInv'
<1> DEFINE begun == [forward[c] EXCEPT !.tries = @ + 1, !.id = sessions[c], !.fresh = FALSE]
<1>1. UNCHANGED <<stored, known, dropped, gone, failed, spent>>
  BY DEF Look
<1>2. SpentType' /\ failed' \in Nat /\ Charged' = Charged
  BY <1>1, SessionFacts DEF SpentType, Charged, Minted
<1>3. /\ forward[c] \in ForwardState /\ forward[c].tries \in 0..1
      /\ forward[c].tries = 0 \/ sessions[c] = Absent
      /\ sessions[c] \in Ids \cup {Absent}
  BY SessionFacts DEF Look, TurnKnowsSession, Then, Does, Maps
<1>4. /\ begun \in ForwardState /\ begun.tries = forward[c].tries + 1 /\ begun.id = sessions[c]
      /\ begun.snap = forward[c].snap /\ begun.tries \in 1..2
  <2>1. forward[c].tries + 1 \in 1..2 /\ forward[c].tries + 1 \in 0..2
    BY <1>3
  <2> QED BY <1>3, <2>1 DEF ForwardState
<1>5. CASE sessions[c] # Absent
  <2> DEFINE rec == [begun EXCEPT !.pc = "ask"]
  <2>1. UNCHANGED <<sessions, minted>> /\ forward' = [forward EXCEPT ![c] = rec]
    BY <1>5 DEF Look
  <2>2. begun.tries = 1
    BY <1>3, <1>4, <1>5
  <2> HIDE DEF begun
  <2>7. rec \in ForwardState /\ rec.pc = "ask" /\ rec.id = sessions[c] /\ rec.tries = 1
        /\ rec.snap = forward[c].snap /\ rec.tries # 2
    BY <1>3, <1>4, <2>2 DEF ForwardState
  <2> HIDE DEF rec
  <2>3. forward'[c] = rec /\ forward' \in [Convs -> ForwardState]
    BY <2>1, <2>7, SessionFacts
  <2>4. TurnKnowsSession(c)'
    BY <1>5, <2>1, <2>7, <2>3 DEF TurnKnowsSession, Then, Does
  <2>5. MapsAreProper' /\ TurnsKnowSessions' /\ DroppedIsAway' /\ FileFollows'
    BY <1>1, <2>1, <2>7, <2>4, SessionFacts, MoveStep
  <2>6. Doomed' \subseteq Doomed
    BY <1>1, <2>1, <2>7, OthersAsDoomed
  <2>8. SessionTypeOK'
    BY <1>1, <1>2, <2>1, <2>3, SessionFacts, TypesFit
  <2> QED BY <1>1, <1>2, <2>5, <2>6, <2>8, SameCharge DEF SessionInv
<1>6. CASE sessions[c] = Absent /\ Minted
  <2> DEFINE rec == [[begun EXCEPT !.id = minted', !.fresh = TRUE]
                       EXCEPT !.pc = "save", !.then = "ask", !.snap = sessions']
  <2>1. /\ minted < MaxIds /\ minted' = minted + 1 /\ Free
        /\ sessions' = [sessions EXCEPT ![c] = minted'] /\ forward' = [forward EXCEPT ![c] = rec]
    BY <1>6 DEF Look, Set
  <2>2. minted' \in Ids /\ minted' \in 0..MaxIds /\ minted' # Absent
    BY <2>1, SessionFacts DEF Ids
  <2>3. sessions' \in Maps /\ sessions'[c] = minted'
    BY <2>1, <2>2, SessionFacts DEF Maps
  <2>4. rec \in ForwardState /\ rec.pc = "save" /\ rec.then = "ask" /\ rec.id = minted'
        /\ rec.snap = sessions' /\ rec.fresh /\ rec.tries \in 1..2
    BY <1>4, <2>2, <2>3 DEF ForwardState
  <2> HIDE DEF rec, begun
  <2>5. forward'[c] = rec /\ forward' \in [Convs -> ForwardState]
    BY <2>1, <2>4, SessionFacts
  <2>6. TurnKnowsSession(c)'
    BY <2>2, <2>3, <2>4, <2>5 DEF TurnKnowsSession, Then, Does
  <2>7. /\ MapsAreProper' /\ TurnsKnowSessions' /\ DroppedIsAway' /\ FileFollows'
        /\ sessions' \in Maps /\ dropped' \subseteq 1..minted' /\ minted' \in 0..MaxIds
    BY <1>1, <2>1, <2>2, <2>4, <2>6, SetStep
  <2>8. Doomed' \subseteq Doomed
    BY <1>1, <1>6, <2>1, <2>4, OthersAsDoomed
  <2>9. known' \subseteq 1..minted' /\ gone' \subseteq 1..minted'
    BY <1>1, <2>1, SessionFacts
  <2>10. SessionTypeOK'
    BY <1>1, <1>2, <2>5, <2>7, <2>9, SessionFacts, TypesFit
  <2> QED BY <1>1, <1>2, <2>7, <2>8, <2>10, SameCharge DEF SessionInv
<1>7. CASE sessions[c] = Absent /\ ~Minted
  <2> DEFINE rec == [begun EXCEPT !.pc = "create"]
  <2>1. UNCHANGED <<sessions, minted>> /\ forward' = [forward EXCEPT ![c] = rec]
    BY <1>7 DEF Look
  <2>2. rec \in ForwardState /\ rec.pc = "create" /\ rec.tries \in 1..2
        /\ rec.snap = forward[c].snap
    BY <1>4 DEF ForwardState
  <2> HIDE DEF rec, begun
  <2>3. forward'[c] = rec /\ forward' \in [Convs -> ForwardState]
    BY <2>1, <2>2, SessionFacts
  <2>4. TurnKnowsSession(c)'
    BY <1>7, <2>1, <2>2, <2>3 DEF TurnKnowsSession, Then, Does, Minted
  <2>5. MapsAreProper' /\ TurnsKnowSessions' /\ DroppedIsAway' /\ FileFollows'
    BY <1>1, <2>1, <2>2, <2>4, SessionFacts, MoveStep
  <2>6. Doomed' \subseteq Doomed
    BY <1>1, <2>1, <2>2, OthersAsDoomed
  <2>8. SessionTypeOK'
    BY <1>1, <1>2, <2>1, <2>3, SessionFacts, TypesFit
  <2> QED BY <1>1, <1>2, <2>5, <2>6, <2>8, SameCharge DEF SessionInv
<1> QED BY <1>5, <1>6, <1>7

LEMMA CreatedStep ==
  ASSUME SessionInv, UNCHANGED agent, NEW c \in Convs, Created(c)
  PROVE  SessionInv'
<1> DEFINE rec == [[forward[c] EXCEPT !.id = minted']
                     EXCEPT !.pc = "save", !.then = "ask", !.snap = sessions']
<1>1. /\ Does(c, "create") /\ minted < MaxIds /\ minted' = minted + 1 /\ Free
      /\ known' = known \cup {minted'}
      /\ sessions' = [sessions EXCEPT ![c] = minted'] /\ forward' = [forward EXCEPT ![c] = rec]
      /\ UNCHANGED <<stored, dropped, gone, failed, spent>>
  BY DEF Created, Set
<1>2. SpentType' /\ failed' \in Nat /\ Charged' = Charged
  BY <1>1, SessionFacts DEF SpentType, Charged, Minted
<1>3. minted' \in Ids /\ minted' \in 0..MaxIds /\ minted' # Absent /\ minted' \in 1..minted'
  BY <1>1, SessionFacts DEF Ids
<1>4. sessions' \in Maps /\ sessions'[c] = minted'
  BY <1>1, <1>3, SessionFacts DEF Maps
<1>5. forward[c] \in ForwardState /\ ~Minted /\ forward[c].tries \in 1..2
  BY <1>1, SessionFacts DEF TurnKnowsSession, Then
<1>6. rec \in ForwardState /\ rec.pc = "save" /\ rec.then = "ask" /\ rec.id = minted'
      /\ rec.snap = sessions' /\ rec.tries \in 1..2
  BY <1>3, <1>4, <1>5 DEF ForwardState
<1> HIDE DEF rec
<1>7. forward'[c] = rec /\ forward' \in [Convs -> ForwardState]
  BY <1>1, <1>6, SessionFacts
<1>8. TurnKnowsSession(c)'
  BY <1>3, <1>4, <1>5, <1>6, <1>7 DEF TurnKnowsSession, Then, Does, Minted
<1>9. /\ MapsAreProper' /\ TurnsKnowSessions' /\ DroppedIsAway' /\ FileFollows'
      /\ sessions' \in Maps /\ dropped' \subseteq 1..minted' /\ minted' \in 0..MaxIds
  BY <1>1, <1>3, <1>6, <1>8, SetStep
<1>10. Doomed' \subseteq Doomed
  BY <1>1, <1>6, OthersAsDoomed
<1>11. known' \subseteq 1..minted' /\ gone' \subseteq 1..minted'
  BY <1>1, <1>3, SessionFacts
<1>12. SessionTypeOK'
  BY <1>1, <1>2, <1>7, <1>9, <1>11, SessionFacts, TypesFit
<1> QED BY <1>1, <1>2, <1>9, <1>10, <1>12, SameCharge DEF SessionInv

LEMMA SaveStep ==
  ASSUME SessionInv, UNCHANGED agent, NEW c \in Convs, Save(c)
  PROVE  SessionInv'
<1> DEFINE rec == IF forward[c].then = "idle" THEN Resting
                  ELSE [forward[c] EXCEPT !.pc = forward[c].then, !.snap = Resting.snap]
<1>1. /\ Does(c, "save") /\ forward' = [forward EXCEPT ![c] = rec]
      /\ UNCHANGED <<sessions, known, minted, dropped, failed>>
  BY DEF Save
<1>2. forward[c] \in ForwardState
  BY SessionFacts
<1>3. rec \in ForwardState /\ Proper(rec.snap) /\ rec.pc # "save"
  BY <1>2, RestingType DEF ForwardState
<1>4. /\ rec.pc = forward[c].then
      /\ rec.pc # "idle" => /\ rec.id = forward[c].id /\ rec.tries = forward[c].tries
                            /\ rec.fresh = forward[c].fresh
      /\ rec.pc = "idle" => rec.tries = 0
  BY <1>2, RestingType DEF ForwardState
<1> HIDE DEF rec
<1>5. forward'[c] = rec /\ (\A d \in Convs \ {c} : forward'[d] = forward[d])
      /\ forward' \in [Convs -> ForwardState]
  BY <1>1, <1>3, SessionFacts
<1>6. TurnsKnowSessions'
  <2>1. forward[c].then \in {"idle", "look", "ask", "delete"}
    BY <1>2 DEF ForwardState
  <2>2. TurnKnowsSession(c)'
    BY <1>1, <1>4, <1>5, <2>1, SessionFacts DEF TurnKnowsSession, Then, Does, Minted
  <2> QED BY <1>1, <1>5, <2>2, SessionFacts DEF TurnsKnowSessions, TurnKnowsSession, Then, Does, Minted
<1>7. Doomed' \subseteq Doomed
  <2>1. \A d \in Convs : (Then(d, "ask"))' => Then(d, "ask")
    BY <1>1, <1>3, <1>4, <1>5 DEF Then, Does
  <2>2. \A d \in Convs : (Then(d, "ask"))' =>
          forward'[d].id = forward[d].id /\ forward'[d].tries = forward[d].tries
    BY <1>3, <1>4, <1>5 DEF Then, Does
  <2> QED BY <1>1, <2>1, <2>2 DEF Doomed, Minted
<1>8. /\ stored' \in {stored, forward[c].snap}
      /\ gone \subseteq gone' /\ gone' \subseteq 1..minted
      /\ Locked => \A d \in Convs : sessions[d] \notin gone' /\ stored'[d] \notin gone'
      /\ SpentType' /\ Charged' = Charged
  <2>1. CASE /\ stored' = forward[c].snap
             /\ gone' = gone \cup {i \in dropped : \A d \in Convs : forward[c].snap[d] # i}
             /\ UNCHANGED spent
    <3>1. gone' \subseteq 1..minted /\ SpentType' /\ Charged' = Charged
      BY <2>1, SessionFacts DEF SpentType, Charged, Minted
    <3>2. ASSUME Locked, NEW d \in Convs PROVE sessions[d] \notin gone' /\ stored'[d] \notin gone'
      <4>1. stored' = sessions
        BY <1>1, <2>1, <3>2 DEF SessionInv, FileFollows
      <4>2. sessions[d] \notin gone /\ sessions[d] \notin dropped
        BY <3>2 DEF SessionInv, FileFollows, DroppedIsAway
      <4> QED BY <2>1, <4>1, <4>2
    <3> QED BY <2>1, <3>1, <3>2
  <2>2. CASE Spend("unsaved") /\ UNCHANGED <<stored, gone>>
    <3>1. SpentType' /\ spent'.faults = spent.faults /\ spent'.forgets = spent.forgets
      BY <2>2, SessionFacts, BoundsAreNumbers, Spending
    <3>2. Charged' = Charged
      BY <3>1 DEF Charged, Minted
    <3>3. Locked => \A d \in Convs : sessions[d] \notin gone' /\ stored'[d] \notin gone'
      BY <2>2 DEF SessionInv, FileFollows
    <3> QED BY <2>2, <3>1, <3>2, <3>3, SessionFacts
  <2> QED BY <2>1, <2>2 DEF Save
<1>9. MapsAreProper'
  BY <1>1, <1>3, <1>5, <1>8 DEF SessionInv, MapsAreProper, Proper
<1>10. DroppedIsAway'
  BY <1>1 DEF SessionInv, DroppedIsAway
<1>11. FileFollows'
  BY <1>1, <1>3, <1>5, <1>8 DEF SessionInv, FileFollows, Does, Locked
<1>12. SessionTypeOK'
  <2>1. stored' \in Maps
    BY <1>8, <1>2, SessionFacts DEF ForwardState
  <2> QED BY <1>1, <1>5, <1>8, <2>1, SessionFacts, TypesFit
<1>13. FailuresAreCharged'
  BY <1>1, <1>7, <1>8, SameCharge
<1> QED BY <1>6, <1>9, <1>10, <1>11, <1>12, <1>13 DEF SessionInv

LEMMA AnswerStep ==
  ASSUME SessionInv, UNCHANGED agent, NEW c \in Convs, Answer(c)
  PROVE  SessionInv'
<1>1. /\ Does(c, "ask") /\ known' = known \cup {forward[c].id}
      /\ forward' = [forward EXCEPT ![c] = Resting]
      /\ UNCHANGED <<sessions, stored, minted, dropped, gone, failed, spent>>
  BY DEF Answer
<1>2. SpentType' /\ failed' \in Nat /\ Charged' = Charged
  BY <1>1, SessionFacts DEF SpentType, Charged, Minted
<1>3. /\ MapsAreProper' /\ TurnsKnowSessions' /\ DroppedIsAway' /\ FileFollows'
      /\ forward' \in [Convs -> ForwardState] /\ Doomed' \subseteq Doomed \ {c}
  BY <1>1, RestStep
<1>4. forward[c].id \in 1..minted
  BY <1>1, SessionFacts DEF TurnKnowsSession, Then, SessionInv, MapsAreProper, Proper
<1>5. SessionTypeOK'
  BY <1>1, <1>2, <1>3, <1>4, SessionFacts, TypesFit
<1> QED BY <1>1, <1>2, <1>3, <1>5, SameCharge DEF SessionInv

LEMMA FailStep ==
  ASSUME SessionInv, UNCHANGED agent, NEW c \in Convs, Fail(c)
  PROVE  SessionInv'
<1>1. /\ Does(c, "ask") \/ Does(c, "create")
      /\ failed' = failed + 1
      /\ Reset(c, "idle") \/ KeepSession(c)
      /\ UNCHANGED <<stored, known, minted, gone>>
  BY DEF Fail, EndInError
<1>2. Spend("faults")
  BY DEF Fail
<1>3. /\ SpentType' /\ spent'.faults = spent.faults + 1 /\ spent'.forgets = spent.forgets
  BY <1>2, SessionFacts, BoundsAreNumbers, Spending
<1>4. failed' - failed <= Charged' - Charged /\ failed' \in Nat
  <2>1. failed \in Nat /\ spent.faults \in Nat /\ spent.forgets \in Nat
    BY SessionFacts, BoundsAreNumbers DEF SpentType
  <2>2. CASE Minted
    <3>1. Charged' = spent.faults + 1 + 0 /\ Charged = spent.faults + 0
      BY <1>3, <2>2 DEF Charged, Minted
    <3> QED BY <1>1, <2>1, <3>1
  <2>3. CASE ~Minted
    <3>1. Charged' = spent.faults + 1 + spent.forgets /\ Charged = spent.faults + spent.forgets
      BY <1>3, <2>3 DEF Charged, Minted
    <3> QED BY <1>1, <2>1, <3>1
  <2> QED BY <2>2, <2>3
<1>5. CASE Reset(c, "idle")
  <2>1. /\ MapsAreProper' /\ TurnsKnowSessions' /\ DroppedIsAway' /\ FileFollows'
        /\ sessions' \in Maps /\ dropped' \subseteq 1..minted' /\ minted' \in 0..MaxIds
        /\ forward' \in [Convs -> ForwardState] /\ Doomed' \subseteq Doomed
    BY <1>1, <1>5, ResetStep
  <2>2. SessionTypeOK'
    BY <1>1, <1>3, <1>4, <2>1, SessionFacts, TypesFit
  <2> QED BY <1>3, <1>4, <2>1, <2>2, ChargeStep DEF SessionInv
<1>6. CASE KeepSession(c)
  <2>1. forward' = [forward EXCEPT ![c] = Resting] /\ UNCHANGED <<sessions, dropped>>
    BY <1>6 DEF KeepSession
  <2>2. /\ MapsAreProper' /\ TurnsKnowSessions' /\ DroppedIsAway' /\ FileFollows'
        /\ forward' \in [Convs -> ForwardState] /\ Doomed' \subseteq Doomed
    BY <1>1, <2>1, RestStep
  <2>3. SessionTypeOK'
    BY <1>1, <1>3, <1>4, <2>1, <2>2, SessionFacts, TypesFit
  <2> QED BY <1>3, <1>4, <2>2, <2>3, ChargeStep DEF SessionInv
<1> QED BY <1>1, <1>5, <1>6

LEMMA MissingStep ==
  ASSUME SessionInv, UNCHANGED agent, NEW c \in Convs, Missing(c)
  PROVE  SessionInv'
<1>1. /\ Does(c, "ask") /\ forward[c].id \notin known /\ ~forward[c].fresh
      /\ UNCHANGED <<stored, known, minted, gone, spent>>
  BY DEF Missing, SessionFound
<1>2. SpentType' /\ Charged' = Charged
  BY <1>1, SessionFacts DEF SpentType, Charged, Minted
<1>3. CASE forward[c].tries = 1
  <2>1. Reset(c, "look") /\ UNCHANGED failed
    BY <1>3 DEF Missing
  <2>2. /\ MapsAreProper' /\ TurnsKnowSessions' /\ DroppedIsAway' /\ FileFollows'
        /\ sessions' \in Maps /\ dropped' \subseteq 1..minted' /\ minted' \in 0..MaxIds
        /\ forward' \in [Convs -> ForwardState] /\ Doomed' \subseteq Doomed
    BY <1>1, <1>3, <2>1, ResetStep
  <2>3. SessionTypeOK'
    BY <1>1, <1>2, <2>1, <2>2, SessionFacts, TypesFit
  <2> QED BY <1>2, <2>1, <2>2, <2>3, SameCharge DEF SessionInv
<1>4. CASE forward[c].tries # 1
  <2>1. forward[c].tries = 2 /\ ~Minted
    BY <1>1, <1>4, SessionFacts DEF TurnKnowsSession, Then
  <2>2. /\ failed' = failed + 1 /\ forward' = [forward EXCEPT ![c] = Resting]
        /\ UNCHANGED <<sessions, dropped>>
    BY <1>4, <2>1 DEF Missing, EndInError, KeepSession
  <2>3. /\ MapsAreProper' /\ TurnsKnowSessions' /\ DroppedIsAway' /\ FileFollows'
        /\ forward' \in [Convs -> ForwardState] /\ Doomed' \subseteq Doomed \ {c}
    BY <1>1, <2>2, RestStep
  <2>4. c \in Doomed
    BY <1>1, <2>1 DEF Doomed, Then
  <2>5. SessionTypeOK'
    BY <1>1, <1>2, <2>2, <2>3, SessionFacts, TypesFit
  <2> QED BY <1>1, <2>2, <2>3, <2>4, <2>5, DoomStep DEF SessionInv
<1> QED BY <1>3, <1>4

LEMMA NewStep ==
  ASSUME SessionInv, UNCHANGED agent, NEW c \in Convs, New(c)
  PROVE  SessionInv'
<1>1. /\ Spend("commands") /\ Reset(c, "idle")
      /\ UNCHANGED <<stored, known, minted, gone, failed>>
  BY DEF New
<1>2. /\ SpentType' /\ spent'.faults = spent.faults /\ spent'.forgets = spent.forgets
  BY <1>1, SessionFacts, BoundsAreNumbers, Spending
<1>3. Charged' = Charged
  BY <1>2 DEF Charged, Minted
<1>4. /\ MapsAreProper' /\ TurnsKnowSessions' /\ DroppedIsAway' /\ FileFollows'
      /\ sessions' \in Maps /\ dropped' \subseteq 1..minted' /\ minted' \in 0..MaxIds
      /\ forward' \in [Convs -> ForwardState] /\ Doomed' \subseteq Doomed
  BY <1>1, ResetStep
<1>5. SessionTypeOK'
  BY <1>1, <1>2, <1>4, SessionFacts, TypesFit
<1> QED BY <1>1, <1>2, <1>3, <1>4, <1>5, SameCharge DEF SessionInv

LEMMA ClearStep ==
  ASSUME SessionInv, UNCHANGED agent, NEW c \in Convs, Clear(c)
  PROVE  SessionInv'
<1> DEFINE next == IF sessions[c] = Absent THEN "idle" ELSE "delete"
           rec == [[forward[c] EXCEPT !.id = sessions[c]]
                     EXCEPT !.pc = "save", !.then = next, !.snap = sessions']
<1>1. /\ ~Minted /\ Spend("commands") /\ Free
      /\ sessions' = [sessions EXCEPT ![c] = Absent]
      /\ forward' = [forward EXCEPT ![c] = rec]
      /\ dropped' = dropped \cup ({sessions[c]} \ {Absent})
      /\ UNCHANGED <<stored, known, minted, gone, failed>>
  BY DEF Clear, Set
<1>2. /\ SpentType' /\ spent'.faults = spent.faults /\ spent'.forgets = spent.forgets
  BY <1>1, SessionFacts, BoundsAreNumbers, Spending
<1>3. Charged' = Charged
  BY <1>2 DEF Charged, Minted
<1>4. sessions' \in Maps /\ sessions'[c] = Absent /\ sessions[c] \in Ids \cup {Absent}
  BY <1>1, SessionFacts DEF Maps
<1>5. /\ next \in {"idle", "delete"}
      /\ next = "delete" => sessions[c] \in dropped'
  BY <1>1
<1> HIDE DEF next
<1>6. rec \in ForwardState /\ rec.pc = "save" /\ rec.then = next /\ rec.snap = sessions'
      /\ rec.id = sessions[c]
  <2>1. forward[c] \in ForwardState
    BY SessionFacts
  <2> QED BY ONLY <1>4, <1>5, <2>1 DEF ForwardState
<1> HIDE DEF rec
<1>7. forward'[c] = rec /\ forward' \in [Convs -> ForwardState]
  BY <1>1, <1>6, SessionFacts
<1>8. TurnKnowsSession(c)'
  BY <1>1, <1>5, <1>6, <1>7 DEF TurnKnowsSession, Then, Does, Minted
<1>9. /\ MapsAreProper' /\ TurnsKnowSessions' /\ DroppedIsAway' /\ FileFollows'
      /\ sessions' \in Maps /\ dropped' \subseteq 1..minted' /\ minted' \in 0..MaxIds
  BY <1>1, <1>6, <1>8, SetStep
<1>10. Doomed' \subseteq Doomed
  BY <1>1, <1>5, <1>6, OthersAsDoomed
<1>11. SessionTypeOK'
  BY <1>1, <1>2, <1>7, <1>9, SessionFacts, TypesFit
<1> QED BY <1>1, <1>2, <1>3, <1>9, <1>10, <1>11, SameCharge DEF SessionInv

LEMMA DeleteStep ==
  ASSUME SessionInv, UNCHANGED agent, NEW c \in Convs, Delete(c)
  PROVE  SessionInv'
<1>1. /\ Does(c, "delete") /\ known' \in {known, known \ {forward[c].id}}
      /\ forward' = [forward EXCEPT ![c] = Resting]
      /\ UNCHANGED <<sessions, stored, minted, dropped, gone, failed, spent>>
  BY DEF Delete
<1>2. SpentType' /\ Charged' = Charged
  BY <1>1, SessionFacts DEF SpentType, Charged, Minted
<1>3. forward[c].id \in dropped
  BY <1>1, SessionFacts DEF TurnKnowsSession, Then
<1>4. \A d \in Convs : Then(d, "ask") => forward[d].id # forward[c].id
  BY <1>3, SessionFacts DEF TurnKnowsSession, SessionInv, DroppedIsAway
<1>5. /\ MapsAreProper' /\ TurnsKnowSessions' /\ DroppedIsAway' /\ FileFollows'
      /\ forward' \in [Convs -> ForwardState] /\ Doomed' \subseteq Doomed \ {c}
  BY <1>1, <1>4, RestStep
<1>6. SessionTypeOK'
  BY <1>1, <1>2, <1>5, SessionFacts, TypesFit
<1> QED BY <1>1, <1>2, <1>5, <1>6, SameCharge DEF SessionInv

LEMMA ForgetStep ==
  ASSUME SessionInv, UNCHANGED agent, NEW i \in Ids, Forget(i)
  PROVE  SessionInv'
<1>1. /\ i \in known /\ Spend("forgets") /\ known' = known \ {i}
      /\ UNCHANGED <<sessions, stored, forward, minted, dropped, gone, failed>>
  BY DEF Forget
<1>2. SpentType'
  BY <1>1, SessionFacts, BoundsAreNumbers, Spending
<1>3. SessionTypeOK'
  BY <1>1, <1>2, SessionFacts, TypesFit
<1>4. MapsAreProper' /\ DroppedIsAway'
  BY <1>1 DEF SessionInv, MapsAreProper, Proper, DroppedIsAway
<1>5. TurnsKnowSessions'
  BY <1>1 DEF SessionInv, TurnsKnowSessions, TurnKnowsSession, Then, Does, Minted
<1>6. FileFollows'
  BY <1>1 DEF SessionInv, FileFollows, Does, Locked
<1>7. Minted => Doomed' = {}
  BY DEF Doomed, Minted
<1>8. \E c : Doomed' \subseteq Doomed \cup {c}
  <2>1. \A d, e \in Convs : d \in Doomed' \ Doomed /\ e \in Doomed' \ Doomed => d = e
    <3>1. \A d \in Doomed' \ Doomed : d \in Convs /\ sessions[d] = i /\ i # Absent
      BY <1>1, SessionFacts DEF Doomed, Then, Does, Minted, TurnKnowsSession
    <3>2. \A d, e \in Convs : sessions[d] = sessions[e] /\ sessions[d] # Absent => d = e
      BY DEF SessionInv, MapsAreProper, Proper
    <3> QED BY <3>1, <3>2
  <2>2. Doomed' \subseteq Convs
    BY DEF Doomed
  <2>3. CASE Doomed' \subseteq Doomed
    BY <2>3
  <2>4. CASE \E d \in Doomed' : d \notin Doomed
    <3>1. PICK d \in Doomed' : d \notin Doomed
      BY <2>4
    <3>2. Doomed' \subseteq Doomed \cup {d}
      BY <2>1, <2>2, <3>1
    <3> QED BY <3>2
  <2> QED BY <2>3, <2>4
<1>9. FailuresAreCharged'
  BY <1>1, <1>7, <1>8, LossStep
<1> QED BY <1>3, <1>4, <1>5, <1>6, <1>9 DEF SessionInv

LEMMA StartAgainStep ==
  ASSUME SessionInv, UNCHANGED agent, StartAgain
  PROVE  SessionInv'
<1>1. /\ Spend("restarts") /\ sessions' = stored /\ forward' = [c \in Convs |-> Resting]
      /\ dropped' = {} /\ UNCHANGED <<stored, minted, gone, failed>>
  BY DEF StartAgain
<1>2. PICK made \in SUBSET {forward[c].id : c \in {d \in Convs : Does(d, "ask") /\ forward[d].fresh}} :
        known' = known \cup made
  BY DEF StartAgain
<1>3. /\ SpentType' /\ spent'.faults = spent.faults /\ spent'.forgets = spent.forgets
  BY <1>1, SessionFacts, BoundsAreNumbers, Spending
<1>4. Charged' = Charged
  BY <1>3 DEF Charged, Minted
<1>5. \A c \in Convs : forward'[c] = Resting
  BY <1>1
<1>6. forward' \in [Convs -> ForwardState]
  BY <1>1, RestingType
<1>7. known' \subseteq 1..minted'
  <2>1. \A c \in Convs : Does(c, "ask") => forward[c].id \in 1..minted
    BY SessionFacts DEF TurnKnowsSession, Then, SessionInv, MapsAreProper, Proper
  <2> QED BY <1>1, <1>2, <2>1, SessionFacts
<1>8. SessionTypeOK'
  BY <1>1, <1>3, <1>6, <1>7, SessionFacts, TypesFit
<1>9. MapsAreProper'
  BY <1>1, <1>5, RestingType DEF SessionInv, MapsAreProper, Proper
<1>10. TurnsKnowSessions' /\ DroppedIsAway'
  BY <1>1, <1>5, RestingType DEF TurnsKnowSessions, TurnKnowsSession, Then, Does, DroppedIsAway
<1>11. FileFollows'
  BY <1>1, <1>5, RestingType DEF SessionInv, FileFollows, Does, Locked
<1>12. Doomed' \subseteq Doomed
  BY <1>5, RestingType DEF Doomed, Then, Does
<1> QED BY <1>1, <1>3, <1>4, <1>8, <1>9, <1>10, <1>11, <1>12, SameCharge DEF SessionInv

\* For any conversations, sessions, failed turns, lost sessions and snapshots, commands and
\* restarts, of a one-shot agent and of opencode: a dropped session stays dropped, and a
\* missing one costs no turn (connect_stream.go:394-405, 529-539, connect_opencode.go:130-134).
THEOREM SessionsHoldAlways == SessionSpec => []SessionsHold
<1>1. ASSUME SessionInv, [SessionNext]_sessionVars PROVE SessionInv'
  <2>1. CASE UNCHANGED sessionVars
    <3>1. Doomed' = Doomed /\ Charged' = Charged /\ UNCHANGED failed
      BY <2>1 DEF sessionVars, memory, Doomed, Then, Does, Minted, Charged
    <3>2. FailuresAreCharged'
      BY <1>1, <3>1 DEF SessionInv, FailuresAreCharged
    <3> QED BY <1>1, <2>1, <3>2 DEF sessionVars, memory, SessionInv, SessionTypeOK, MapsAreProper, Proper,
               TurnsKnowSessions, TurnKnowsSession, Then, Does, Minted, DroppedIsAway, FileFollows, Locked
  <2>2. CASE SessionNext
    BY <1>1, <2>2, LookStep, SaveStep, CreatedStep, AnswerStep, FailStep, MissingStep, NewStep, ClearStep,
       DeleteStep, ForgetStep, StartAgainStep DEF SessionNext
  <2> QED BY <1>1, <2>1, <2>2
<1>2. SessionInv => SessionsHold
  <2>1. ASSUME SessionInv PROVE DroppedStaysDropped
    BY <2>1, SessionFacts DEF DroppedStaysDropped, SessionInv, TurnKnowsSession, Then, DroppedIsAway, FileFollows
  <2>2. ASSUME SessionInv PROVE MissingHeals
    <3>1. Cardinality(Doomed) \in Nat /\ failed + Cardinality(Doomed) <= Charged
      BY <2>2, FS_CardinalityType DEF SessionInv, FailuresAreCharged
    <3>2. failed \in Nat /\ Charged \in Nat
      BY <2>2, SessionFacts, BoundsAreNumbers DEF SpentType, Charged
    <3>3. failed <= Charged
      BY <3>1, <3>2
    <3> QED BY <3>3 DEF Charged, MissingHeals
  <2> QED BY <2>1, <2>2 DEF SessionsHold, SessionInv
<1> QED BY <1>1, <1>2, SessionStart, PTL DEF SessionSpec

-----------------------------------------------------------------------------
(* The child that all conversations share.                                 *)

Listening == {"hear", "read"}
Awaited(t) == IF turn[t] = "hear" THEN Hello ELSE t
Only(queue, m) == \A i \in DOMAIN queue : queue[i] = m

\* On their way is at most the answer that the turn waits for; whoever does not wait finds
\* the pipes empty.
PipesAreOwn ==
  /\ (\A t \in Turns : turn[t] \notin Listening) => inbox = <<>> /\ stdout = <<>> /\ lines = <<>>
  /\ \A t \in Turns : turn[t] \in Listening =>
       /\ Len(inbox) + Len(stdout) + Len(lines) <= 1
       /\ Only(inbox, Awaited(t)) /\ Only(stdout, Awaited(t)) /\ Only(lines, Awaited(t))

\* An exit is reported of a child that has exited, and excuses the turn that uses it.
ExitsExcuse ==
  /\ done \/ closed => child = "exited"
  /\ \A t \in Turns : turn[t] \in {"greet", "hear", "write", "read"} /\ child = "exited"
                        => t \in excused

StreamInv ==
  StreamTypeOK /\ PipesAreOwn /\ ExitsExcuse /\ OwnAnswer /\ IdleDeathIsFree

Busy == {"ensure", "greet", "hear", "write", "read"}

USE StreamConstants

LEMMA Putting ==
  ASSUME NEW S, NEW s \in Seq(S), NEW m \in S
  PROVE  /\ Append(s, m) \in Seq(S) /\ Len(Append(s, m)) = Len(s) + 1
         /\ Only(s, m) => Only(Append(s, m), m)
BY DEF Only

LEMMA Taking ==
  ASSUME NEW S, NEW s \in Seq(S), s # <<>>
  PROVE  /\ Tail(s) \in Seq(S) /\ Len(Tail(s)) = Len(s) - 1 /\ Len(s) \in Nat \ {0}
         /\ Head(s) \in S
         /\ \A m : Only(s, m) => Only(Tail(s), m) /\ Head(s) = m
<1>1. 1 \in DOMAIN s /\ Head(s) = s[1]
  OBVIOUS
<1>2. \A i \in DOMAIN Tail(s) : i + 1 \in DOMAIN s /\ Tail(s)[i] = s[i + 1]
  OBVIOUS
<1> QED BY <1>1, <1>2 DEF Only

LEMMA Nothing == {FALSE} \subseteq BOOLEAN /\ <<>> \in Seq(Messages)
OBVIOUS

LEMMA StreamStart == StreamInit => StreamInv
<1> SUFFICES ASSUME StreamInit PROVE StreamInv
  OBVIOUS
<1>1. StreamTypeOK
  <2>1. /\ {done, closed} \subseteq BOOLEAN /\ {inbox, stdout, lines} \subseteq Seq(Messages)
        /\ answer \in [Turns -> Messages \cup {Nobody}]
    BY Nothing DEF StreamInit
  <2>2. /\ turn \in [Turns -> TurnStates]
        /\ \A t \in Turns : turn[t] \in {"ensure", "greet", "hear", "write", "read"} <=> t = mu
    BY DEF StreamInit, TurnStates
  <2> QED BY <2>1, <2>2 DEF StreamInit, StreamTypeOK, TurnStates
<1> QED BY <1>1 DEF StreamInit, StreamInv, PipesAreOwn, ExitsExcuse, OwnAnswer, IdleDeathIsFree, Listening

\* A turn that moves while it has f.mu, or gives it back.
LEMMA GoStep ==
  ASSUME StreamTypeOK, NEW t \in Turns, NEW pc \in Busy \cup {"answered", "failed"}, Go(t, pc),
         t = mu, mu' = IF pc \in Busy THEN mu ELSE Nobody
  PROVE  /\ turn' \in [Turns -> TurnStates]
         /\ mu' \in Turns \cup {Nobody}
         /\ \A s \in Turns : turn'[s] \in Busy <=> s = mu'
         /\ turn'[t] = pc /\ \A s \in Turns \ {t} : turn'[s] = turn[s] /\ turn'[s] \notin Busy
BY DEF StreamTypeOK, TurnStates, Go, Busy

\* A turn that fails closes the child; it needs an excuse.
LEMMA FailsStep ==
  ASSUME StreamInv, NEW t \in Turns, turn[t] \in Busy, Fails(t), UNCHANGED <<answer, deaths>>,
         streamFaults' \in 0..MaxStreamFaults, excused' \in {excused, excused \cup {t}}, t \in excused'
  PROVE  StreamInv'
<1> USE DEF StreamInv
<1>1. t = mu /\ Close /\ Go(t, "failed") /\ mu' = Nobody
  BY DEF Fails, StreamTypeOK, TurnStates, Busy
<1>2. /\ turn' \in [Turns -> TurnStates]
      /\ mu' \in Turns \cup {Nobody}
      /\ \A s \in Turns : turn'[s] \in Busy <=> s = mu'
      /\ turn'[t] = "failed" /\ \A s \in Turns \ {t} : turn'[s] = turn[s] /\ turn'[s] \notin Busy
  BY <1>1, GoStep DEF Busy
<1>3. StreamTypeOK'
  <2>1. child' \in {"none", "running", "exited"} /\ (has' <=> child' # "none")
    BY <1>1 DEF Close
  <2>2. {done, closed}' \subseteq BOOLEAN /\ {inbox, stdout, lines}' \subseteq Seq(Messages)
    BY <1>1, Nothing DEF Close
  <2>3. (answer \in [Turns -> Messages \cup {Nobody}])' /\ (excused \subseteq Turns)'
        /\ (deaths \in 0..MaxDeaths)'
    BY DEF StreamTypeOK, TurnStates
  <2> QED BY <1>2, <2>1, <2>2, <2>3 DEF StreamTypeOK, TurnStates, Busy
<1>4. PipesAreOwn' /\ ExitsExcuse'
  BY <1>1, <1>2 DEF PipesAreOwn, ExitsExcuse, Close, Listening, Busy
<1>5. OwnAnswer' /\ IdleDeathIsFree'
  BY <1>2 DEF OwnAnswer, IdleDeathIsFree
<1> QED BY <1>3, <1>4, <1>5

\* The turn's own steps.
LEMMA TurnStep ==
  ASSUME StreamInv, NEW t \in Turns,
         Enter(t) \/ Ensure(t) \/ Refused(t) \/ Write(t) \/ Hear(t) \/ Receive(t)
           \/ ReadFails(t) \/ TimesOut(t)
  PROVE  StreamInv'
<1> USE DEF StreamInv
<1>1. CASE Enter(t)
  <2>1. /\ turn' \in [Turns -> TurnStates]
        /\ mu' \in Turns \cup {Nobody}
        /\ \A s \in Turns : turn'[s] \in Busy <=> s = mu'
        /\ turn'[t] = "ensure" /\ \A s \in Turns \ {t} : turn'[s] = turn[s] /\ turn'[s] \notin Busy
        /\ \A s \in Turns : turn[s] \notin Busy
    BY <1>1 DEF Enter, Go, StreamTypeOK, TurnStates, Busy
  <2>2. UNCHANGED <<has, child, done, inbox, stdout, lines, closed, answer, excused, deaths, streamFaults>>
    BY <1>1 DEF Enter, pipes
  <2>3. StreamTypeOK'
    BY <2>1, <2>2 DEF StreamTypeOK, TurnStates, Busy
  <2>4. PipesAreOwn' /\ ExitsExcuse'
    BY <2>1, <2>2 DEF PipesAreOwn, ExitsExcuse, Listening, Busy
  <2> QED BY <2>1, <2>2, <2>3, <2>4 DEF OwnAnswer, IdleDeathIsFree
<1>2. CASE Ensure(t)
  <2>1. t = mu /\ turn[t] = "ensure" /\ mu' = mu /\ UNCHANGED <<answer, deaths, streamFaults>>
    BY <1>2 DEF Ensure, StreamTypeOK, TurnStates
  <2>2. CASE Gone
    <3>1. /\ has' = TRUE /\ child' = "running" /\ done' = FALSE
          /\ inbox' = <<>> /\ stdout' = <<>> /\ lines' = <<>> /\ closed' = FALSE
          /\ Go(t, "greet") /\ UNCHANGED excused
      BY <1>2, <2>2 DEF Ensure
    <3>2. /\ turn' \in [Turns -> TurnStates]
          /\ mu' \in Turns \cup {Nobody}
          /\ \A s \in Turns : turn'[s] \in Busy <=> s = mu'
          /\ turn'[t] = "greet" /\ \A s \in Turns \ {t} : turn'[s] = turn[s] /\ turn'[s] \notin Busy
      BY <2>1, <3>1, GoStep DEF Busy
    <3>3. StreamTypeOK'
      <4>1. child' \in {"none", "running", "exited"} /\ (has' <=> child' # "none")
            /\ {done, closed}' \subseteq BOOLEAN /\ {inbox, stdout, lines}' \subseteq Seq(Messages)
        BY <3>1, Nothing
      <4> QED BY <2>1, <3>1, <3>2, <4>1 DEF StreamTypeOK, TurnStates, Busy
    <3>4. PipesAreOwn' /\ ExitsExcuse'
      BY <3>1, <3>2 DEF PipesAreOwn, ExitsExcuse, Listening, Busy
    <3> QED BY <2>1, <3>1, <3>2, <3>3, <3>4 DEF OwnAnswer, IdleDeathIsFree
  <2>3. CASE ~Gone
    <3>1. /\ Go(t, "write") /\ UNCHANGED <<has, child, done, inbox, stdout, lines, closed>>
          /\ excused' = IF child = "exited" /\ ~done THEN excused \cup {t} ELSE excused
      BY <1>2, <2>3 DEF Ensure, pipes
    <3>2. /\ turn' \in [Turns -> TurnStates]
          /\ mu' \in Turns \cup {Nobody}
          /\ \A s \in Turns : turn'[s] \in Busy <=> s = mu'
          /\ turn'[t] = "write" /\ \A s \in Turns \ {t} : turn'[s] = turn[s] /\ turn'[s] \notin Busy
      BY <2>1, <3>1, GoStep DEF Busy
    <3>3. StreamTypeOK'
      BY <2>1, <3>1, <3>2 DEF StreamTypeOK, TurnStates, Busy
    <3>4. \A s \in Turns : turn[s] \notin Listening
      BY <2>1 DEF StreamTypeOK, TurnStates, Listening
    <3>5. PipesAreOwn'
      BY <3>1, <3>2, <3>4 DEF PipesAreOwn, Listening, Busy
    <3>6. ExitsExcuse'
      BY <2>3, <3>1, <3>2 DEF ExitsExcuse, Busy, Gone
    <3> QED BY <2>1, <3>1, <3>2, <3>3, <3>5, <3>6 DEF OwnAnswer, IdleDeathIsFree
  <2> QED BY <2>2, <2>3
<1>3. CASE Refused(t)
  BY <1>3, FailsStep DEF Refused, Excuse, StreamTypeOK, TurnStates, Busy
<1>4. CASE TimesOut(t)
  BY <1>4, FailsStep DEF TimesOut, Excuse, StreamTypeOK, TurnStates, Busy
<1>5. CASE ReadFails(t)
  <2>1. t \in excused
    BY <1>5 DEF ReadFails, ExitsExcuse
  <2> QED BY <1>5, <2>1, FailsStep DEF ReadFails, StreamTypeOK, TurnStates, Busy
<1>6. CASE Write(t)
  <2>1. CASE child = "exited"
    <3>1. t \in excused
      BY <1>6, <2>1 DEF Write, ExitsExcuse
    <3> QED BY <1>6, <2>1, <3>1, FailsStep DEF Write, StreamTypeOK, TurnStates, Busy
  <2>2. CASE child # "exited"
    <3> DEFINE pc == IF turn[t] = "greet" THEN "hear" ELSE "read"
               m  == IF turn[t] = "greet" THEN Hello ELSE t
    <3>1. /\ t = mu /\ mu' = mu /\ Go(t, pc) /\ inbox' = Append(inbox, m)
          /\ turn[t] \in {"greet", "write"} /\ pc \in Listening /\ m \in Messages
          /\ UNCHANGED <<has, child, done, stdout, lines, closed, answer, excused, deaths, streamFaults>>
      BY <1>6, <2>2 DEF Write, StreamTypeOK, TurnStates, Listening, Messages, Hello
    <3>2. \A s \in Turns : turn[s] \notin Listening
      BY <3>1 DEF StreamTypeOK, TurnStates, Listening
    <3>3. inbox = <<>> /\ stdout = <<>> /\ lines = <<>>
      BY <3>2 DEF PipesAreOwn
    <3>4. pc = "hear" <=> m = Hello
      BY DEF Hello
    <3>5. pc = "hear" => m = Hello
      OBVIOUS
    <3>6. pc # "hear" => m = t
      OBVIOUS
    <3> HIDE DEF pc, m
    <3>7. /\ turn' \in [Turns -> TurnStates]
          /\ mu' \in Turns \cup {Nobody}
          /\ \A s \in Turns : turn'[s] \in Busy <=> s = mu'
          /\ turn'[t] = pc /\ \A s \in Turns \ {t} : turn'[s] = turn[s] /\ turn'[s] \notin Busy
      BY <3>1, GoStep DEF Busy, Listening
    <3>8. inbox' \in Seq(Messages) /\ Len(inbox') = 1 /\ Only(inbox', m) /\ Only(stdout', m)
          /\ Only(lines', m) /\ Len(stdout') = 0 /\ Len(lines') = 0
      BY <3>1, <3>3, Putting DEF Only
    <3>9. StreamTypeOK'
      BY <3>1, <3>7, <3>8 DEF StreamTypeOK, TurnStates, Busy
    <3>10. m = (Awaited(t))'
      BY <3>5, <3>6, <3>7 DEF Awaited
    <3>11. PipesAreOwn'
      BY <3>1, <3>7, <3>8, <3>10 DEF PipesAreOwn, Listening, Busy
    <3>12. ExitsExcuse'
      BY <2>2, <3>1 DEF ExitsExcuse
    <3> QED BY <3>1, <3>7, <3>9, <3>11, <3>12 DEF OwnAnswer, IdleDeathIsFree, Listening
  <2> QED BY <2>1, <2>2
<1>7. CASE Hear(t)
  <2>1. /\ turn[t] = "hear" /\ t = mu /\ mu' = mu /\ lines # <<>> /\ lines' = Tail(lines)
        /\ lines \in Seq(Messages)
        /\ UNCHANGED <<has, child, done, inbox, stdout, closed, answer, excused, deaths, streamFaults>>
    BY <1>7 DEF Hear, StreamTypeOK, TurnStates
  <2>2. /\ Len(inbox) + Len(stdout) + Len(lines) <= 1 /\ Head(lines) = Hello
        /\ Len(lines) \in Nat \ {0} /\ lines' \in Seq(Messages) /\ Len(lines') = Len(lines) - 1
    BY <2>1, Taking DEF PipesAreOwn, Listening, Awaited
  <2>3. inbox = <<>> /\ stdout = <<>> /\ lines' = <<>>
    BY <2>2 DEF StreamTypeOK, TurnStates
  <2>4. Go(t, "write")
    BY <1>7, <2>2 DEF Hear
  <2>5. /\ turn' \in [Turns -> TurnStates]
        /\ mu' \in Turns \cup {Nobody}
        /\ \A s \in Turns : turn'[s] \in Busy <=> s = mu'
        /\ turn'[t] = "write" /\ \A s \in Turns \ {t} : turn'[s] = turn[s] /\ turn'[s] \notin Busy
    BY <2>1, <2>4, GoStep DEF Busy
  <2>6. StreamTypeOK'
    BY <2>1, <2>2, <2>5 DEF StreamTypeOK, TurnStates, Busy
  <2>7. PipesAreOwn' /\ ExitsExcuse'
    BY <2>1, <2>3, <2>5 DEF PipesAreOwn, ExitsExcuse, Listening, Busy
  <2> QED BY <2>1, <2>5, <2>6, <2>7 DEF OwnAnswer, IdleDeathIsFree
<1>8. CASE Receive(t)
  <2>1. /\ turn[t] = "read" /\ t = mu /\ mu' = Nobody /\ lines # <<>> /\ lines' = Tail(lines)
        /\ lines \in Seq(Messages) /\ Go(t, "answered") /\ answer' = [answer EXCEPT ![t] = Head(lines)]
        /\ UNCHANGED <<has, child, done, inbox, stdout, closed, excused, deaths, streamFaults>>
    BY <1>8 DEF Receive, StreamTypeOK, TurnStates
  <2>2. /\ Len(inbox) + Len(stdout) + Len(lines) <= 1 /\ Head(lines) = t
        /\ Len(lines) \in Nat \ {0} /\ lines' \in Seq(Messages) /\ Len(lines') = Len(lines) - 1
    BY <2>1, Taking DEF PipesAreOwn, Listening, Awaited
  <2>3. inbox = <<>> /\ stdout = <<>> /\ lines' = <<>>
    BY <2>2 DEF StreamTypeOK, TurnStates
  <2>4. /\ turn' \in [Turns -> TurnStates]
        /\ mu' \in Turns \cup {Nobody}
        /\ \A s \in Turns : turn'[s] \in Busy <=> s = mu'
        /\ turn'[t] = "answered" /\ \A s \in Turns \ {t} : turn'[s] = turn[s] /\ turn'[s] \notin Busy
    BY <2>1, GoStep DEF Busy
  <2>5. answer' \in [Turns -> Messages \cup {Nobody}] /\ answer'[t] = t
        /\ \A s \in Turns \ {t} : answer'[s] = answer[s]
    BY <2>1, <2>2 DEF StreamTypeOK, TurnStates, Messages
  <2>6. StreamTypeOK'
    BY <2>1, <2>2, <2>4, <2>5 DEF StreamTypeOK, TurnStates, Busy
  <2>7. PipesAreOwn' /\ ExitsExcuse'
    BY <2>1, <2>3, <2>4 DEF PipesAreOwn, ExitsExcuse, Listening, Busy
  <2> QED BY <2>1, <2>4, <2>5, <2>6, <2>7 DEF OwnAnswer, IdleDeathIsFree
<1> QED BY <1>1, <1>2, <1>3, <1>4, <1>5, <1>6, <1>7, <1>8

\* The child's steps, and those of the goroutines that read and wait.
LEMMA ChildStep ==
  ASSUME StreamInv, ChildAnswers \/ ChildExits \/ Scan \/ ScanEnds \/ Wait
  PROVE  StreamInv'
<1> USE DEF StreamInv
<1>1. CASE ChildAnswers
  <2>1. /\ inbox \in Seq(Messages) /\ stdout \in Seq(Messages) /\ lines \in Seq(Messages)
        /\ inbox # <<>> /\ inbox' = Tail(inbox) /\ stdout' = Append(stdout, Head(inbox))
        /\ UNCHANGED <<turn, mu, has, child, done, lines, closed, answer, excused, deaths, streamFaults>>
    BY <1>1 DEF ChildAnswers, StreamTypeOK, TurnStates
  <2>2. /\ inbox' \in Seq(Messages) /\ Len(inbox') = Len(inbox) - 1 /\ Head(inbox) \in Messages
        /\ \A m : Only(inbox, m) => Only(inbox', m) /\ Head(inbox) = m
    BY <2>1, Taking
  <2>3. /\ stdout' \in Seq(Messages) /\ Len(stdout') = Len(stdout) + 1
        /\ \A m : Only(inbox, m) /\ Only(stdout, m) => Only(stdout', m)
    BY <2>1, <2>2, Putting
  <2>4. StreamTypeOK'
    BY <2>1, <2>2, <2>3 DEF StreamTypeOK, TurnStates
  <2>5. \E t \in Turns : turn[t] \in Listening
    BY <2>1 DEF PipesAreOwn
  <2>6. PipesAreOwn'
    <3>1. SUFFICES ASSUME NEW t \in Turns, turn[t] \in Listening
          PROVE /\ Len(inbox') + Len(stdout') + Len(lines') <= 1
                /\ Only(inbox', Awaited(t)) /\ Only(stdout', Awaited(t)) /\ Only(lines', Awaited(t))
      BY <2>1, <2>5 DEF PipesAreOwn, Awaited
    <3>2. Len(inbox) \in Nat /\ Len(stdout) \in Nat /\ Len(lines) \in Nat
      BY <2>1
    <3> QED BY <2>1, <2>2, <2>3, <3>1, <3>2 DEF PipesAreOwn
  <2> QED BY <2>1, <2>4, <2>6 DEF ExitsExcuse, OwnAnswer, IdleDeathIsFree
<1>2. CASE Scan
  <2>1. /\ inbox \in Seq(Messages) /\ stdout \in Seq(Messages) /\ lines \in Seq(Messages)
        /\ stdout # <<>> /\ stdout' = Tail(stdout) /\ lines' = Append(lines, Head(stdout))
        /\ UNCHANGED <<turn, mu, has, child, done, inbox, closed, answer, excused, deaths, streamFaults>>
    BY <1>2 DEF Scan, StreamTypeOK, TurnStates
  <2>2. /\ stdout' \in Seq(Messages) /\ Len(stdout') = Len(stdout) - 1 /\ Head(stdout) \in Messages
        /\ \A m : Only(stdout, m) => Only(stdout', m) /\ Head(stdout) = m
    BY <2>1, Taking
  <2>3. /\ lines' \in Seq(Messages) /\ Len(lines') = Len(lines) + 1
        /\ \A m : Only(stdout, m) /\ Only(lines, m) => Only(lines', m)
    BY <2>1, <2>2, Putting
  <2>4. StreamTypeOK'
    BY <2>1, <2>2, <2>3 DEF StreamTypeOK, TurnStates
  <2>5. \E t \in Turns : turn[t] \in Listening
    BY <2>1 DEF PipesAreOwn
  <2>6. PipesAreOwn'
    <3>1. SUFFICES ASSUME NEW t \in Turns, turn[t] \in Listening
          PROVE /\ Len(inbox') + Len(stdout') + Len(lines') <= 1
                /\ Only(inbox', Awaited(t)) /\ Only(stdout', Awaited(t)) /\ Only(lines', Awaited(t))
      BY <2>1, <2>5 DEF PipesAreOwn, Awaited
    <3>2. Len(inbox) \in Nat /\ Len(stdout) \in Nat /\ Len(lines) \in Nat
      BY <2>1
    <3> QED BY <2>1, <2>2, <2>3, <3>1, <3>2 DEF PipesAreOwn
  <2> QED BY <2>1, <2>4, <2>6 DEF ExitsExcuse, OwnAnswer, IdleDeathIsFree
<1>3. CASE ChildExits
  <2>1. /\ child = "running" /\ child' = "exited" /\ deaths' \in 0..MaxDeaths
        /\ excused' = excused \cup ({mu} \ {Nobody})
        /\ UNCHANGED <<turn, mu, has, done, inbox, stdout, lines, closed, answer, streamFaults>>
    BY <1>3 DEF ChildExits, StreamTypeOK, TurnStates, pipes
  <2>2. excused' \subseteq Turns
    BY <2>1 DEF StreamTypeOK, TurnStates
  <2>3. StreamTypeOK'
    BY <2>1, <2>2 DEF StreamTypeOK, TurnStates
  <2>4. PipesAreOwn'
    BY <2>1 DEF PipesAreOwn, Awaited
  <2>5. ExitsExcuse'
    BY <2>1 DEF ExitsExcuse, StreamTypeOK, TurnStates
  <2> QED BY <2>1, <2>3, <2>4, <2>5 DEF OwnAnswer, IdleDeathIsFree
<1>4. CASE ScanEnds
  <2>1. /\ child = "exited" /\ closed' = TRUE
        /\ UNCHANGED <<turn, mu, has, child, done, inbox, stdout, lines, answer, excused, deaths, streamFaults>>
    BY <1>4 DEF ScanEnds
  <2>2. StreamTypeOK'
    BY <2>1 DEF StreamTypeOK, TurnStates
  <2>3. PipesAreOwn'
    BY <2>1 DEF PipesAreOwn, Awaited
  <2> QED BY <2>1, <2>2, <2>3 DEF ExitsExcuse, OwnAnswer, IdleDeathIsFree
<1>5. CASE Wait
  <2>1. /\ child = "exited" /\ done' = TRUE /\ stdout' = <<>>
        /\ UNCHANGED <<turn, mu, has, child, inbox, lines, closed, answer, excused, deaths, streamFaults>>
    BY <1>5 DEF Wait
  <2>2. StreamTypeOK'
    BY <2>1 DEF StreamTypeOK, TurnStates
  <2>3. PipesAreOwn'
    <3>1. Len(inbox) \in Nat /\ Len(stdout) \in Nat /\ Len(lines) \in Nat
          /\ Len(stdout') = 0 /\ \A m : Only(stdout', m)
      BY <2>1 DEF StreamTypeOK, TurnStates, Only
    <3> QED BY <2>1, <3>1 DEF PipesAreOwn, Awaited
  <2> QED BY <2>1, <2>2, <2>3 DEF ExitsExcuse, OwnAnswer, IdleDeathIsFree
<1> QED BY <1>1, <1>2, <1>3, <1>4, <1>5

\* For any turns on one child that dies, is refused or is too slow any number of times: a turn
\* returns the answer to its own message, and fails only by a fault of its own time or an
\* exit that was not reported when it began (connect_qoder_stream.go:173-180, 255-274).
THEOREM StreamHoldsAlways == StreamSpec => []StreamHolds
<1>1. ASSUME StreamInv, [StreamNext]_streamVars PROVE StreamInv'
  <2>1. CASE UNCHANGED streamVars
    BY <1>1, <2>1 DEF streamVars, pipes, StreamInv, StreamTypeOK, TurnStates, PipesAreOwn, ExitsExcuse, Awaited,
                      OwnAnswer, IdleDeathIsFree
  <2> QED BY <1>1, <2>1, TurnStep, ChildStep DEF StreamNext
<1>2. StreamInv => StreamHolds
  BY DEF StreamInv, StreamHolds
<1> QED BY <1>1, <1>2, StreamStart, PTL DEF StreamSpec
=============================================================================
