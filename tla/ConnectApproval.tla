-------------------------- MODULE ConnectApproval --------------------------
(* The confirmation gate of the robot connector (src/internal/helpers):      *)
(* approvalGate keeps every request in memory and on disk, and               *)
(* approvalOrchestrator drives it.  A requester's turn submits an action;    *)
(* the owner decides it, by text from any of his conversations or by tapping *)
(* a card; an approved action is run, and one that cannot run now is held    *)
(* and run again by the owner's "retry" or by a ticker.  Every turn has a    *)
(* goroutine of its own (its conversation's, see ConnectQueue).              *)
EXTENDS Naturals, FiniteSets, SequencesExt

CONSTANTS Requests,    \* actions that agents' replies declare, one per turn
          Own,         \* those the owner asked for himself
          Replies,     \* the owner's messages to the bot that are a decision or a retry
          Ticker,      \* the goroutine of startAutoRetry (text mode only)
          TextMode,    \* newTextApprovalOrchestrator, or newApprovalOrchestrator with cards
          Policy,      \* confirmPolicy; all requests are of one verb
          MaxTaps,     \* bound: button taps, of the owner and of whoever he forwards a card to
          MaxCrashes,  \* bound: restarts of the connector
          MaxFaults,   \* bound: writes of a record, questions and answers to them that fail
          MaxFailures  \* bound: runs of an action that fail

ASSUME ApprovalAssumption == /\ Own \subseteq Requests
                             /\ Requests \cap Replies = {} /\ Ticker \notin Requests \cup Replies
                             /\ TextMode \in BOOLEAN
                             /\ Policy \in {"manual", "auto", "remember"}
                             /\ {MaxTaps, MaxCrashes, MaxFaults, MaxFailures} \subseteq Nat

VARIABLES gate,       \* approvalGate.reqs: the state of each request
          disk,       \* the state in its file under approvals/
          asked,      \* the requests in the order of CreatedAt
          waiters,    \* requests with a channel in approvalGate.waiters
          remembered, \* approvalOrchestrator.remembered of the verb
          job,        \* where each goroutine is, why, and the requests it has to run
          told,       \* history: requests the owner was asked about
          consent,    \* history: requests that were approved, by an answer to them or by policy
          lent,       \* history: those of them that somebody else than the owner has approved
          held,       \* history: requests that were ever deferred
          undone,     \* history: requests whose file was behind the gate at a restart
          runs,       \* history: how often each action was carried out
          used        \* how much of each bound is used up

gates == <<gate, disk, asked, waiters, remembered>>
history == <<told, consent, lent, held, undone, runs>>
vars == <<gates, job, history, used>>

Jobs == Requests \cup Replies \cup {Ticker}
States == {"none", "pending", "approved", "rejected", "executed", "failed", "deferred"}

(* ApprovalRequest.decided and .approved. *)
Decided(r) == gate[r] \in {"approved", "rejected", "executed", "failed", "deferred"}
Approved(r) == gate[r] \in {"approved", "executed", "failed", "deferred"}

Idle == [pc |-> "idle", how |-> "none", todo |-> <<>>]
At(a, pc) == job[a].pc = pc
Current(a) == Head(job[a].todo)
Goto(a, pc) == job' = [job EXCEPT ![a].pc = pc]
Use(what) == used' = [used EXCEPT ![what] = @ + 1]
Bound == [taps |-> MaxTaps, crashes |-> MaxCrashes, faults |-> MaxFaults, failures |-> MaxFailures]
Left(what) == used[what] < Bound[what]

TypeOK ==
  /\ gate \in [Requests -> States] /\ disk \in [Requests -> States]
  /\ IsInjective(asked) /\ ToSet(asked) \subseteq Requests
  /\ waiters \subseteq {r \in Requests: ~Decided(r)}
  /\ remembered \in {"none", "approve", "reject"}
  /\ \A a \in Jobs: /\ job[a].pc \in {"idle", "begun", "decide", "ask", "sent", "waiting", "woken",
                                      "rule", "run", "ran", "failed", "gaveup", "done"}
                    /\ job[a].how \in {"none", "ask", "auto", "approve", "reject", "retry"}
                    /\ ToSet(job[a].todo) \subseteq Requests
                    /\ job[a].pc \in {"run", "ran", "failed"} => job[a].todo # <<>>
  /\ \A b \in DOMAIN Bound: used[b] \in 0..Bound[b]

Init ==
  /\ gate = [r \in Requests |-> "none"] /\ disk = gate
  /\ asked = <<>> /\ waiters = {} /\ remembered = "none"
  /\ job = [a \in Jobs |-> Idle]
  /\ told = {} /\ consent = {} /\ lent = {} /\ held = {} /\ undone = {}
  /\ runs = [r \in Requests |-> 0]
  /\ used = [b \in DOMAIN Bound |-> 0]

-----------------------------------------------------------------------------
(* The gate.  Every operation is one critical section of g.mu. *)

(* persist: a failed write is logged, and the old file stays. *)
Put(r, state) ==
  /\ gate' = [gate EXCEPT ![r] = state]
  /\ \/ disk' = [disk EXCEPT ![r] = state] /\ UNCHANGED used
     \/ Left("faults") /\ Use("faults") /\ UNCHANGED disk

(* What Decide does to a request that waits for a decision: record and wake. *)
Decide(r, yes) ==
  /\ Put(r, IF yes THEN "approved" ELSE "rejected")
  /\ waiters' = waiters \ {r}

\* Mutant of Deciding: a later decision replaces an earlier one.
Deciding_Always(r) == TRUE

(* The first decision is the one that counts. *)
Deciding(r) == ~Decided(r)

(* The requests of R, oldest first. *)
InOrder(R) ==
  LET upto[i \in 0..Len(asked)] ==
        IF i = 0 THEN <<>>
        ELSE IF asked[i] \in R THEN Append(upto[i - 1], asked[i]) ELSE upto[i - 1]
  IN  upto[Len(asked)]

(* latestPending takes the last of these. *)
Pending == InOrder({r \in Requests: gate[r] = "pending"})

\* Mutant of Backlog: whatever has not reached an end is replayed.
Backlog_Unfinished == InOrder({r \in Requests: gate[r] \in {"pending", "approved", "deferred"}})

(* allDeferred *)
Backlog == InOrder({r \in Requests: gate[r] = "deferred"})

\* Mutant of Mark: the outcome is kept in memory only.
Mark_Memory(r, state) == /\ gate' = IF Approved(r) THEN [gate EXCEPT ![r] = state] ELSE gate
                         /\ UNCHANGED <<disk, used>>

(* markExecuted, markFailed and markDeferred: only of an approved request. *)
Mark(r, state) == IF Approved(r) THEN Put(r, state) ELSE UNCHANGED <<gate, disk, used>>

-----------------------------------------------------------------------------
(* A requester's turn. *)

GateDecision(r) ==
  IF r \in Own \/ Policy = "auto" THEN "auto"
  ELSE IF Policy = "manual" \/ remembered = "none" THEN "ask"
  ELSE IF remembered = "approve" THEN "auto" ELSE "reject"

(* handleReply up to gateDecision. *)
Begin(r) ==
  /\ At(r, "idle")
  /\ job' = [job EXCEPT ![r] = [pc |-> "begun", how |-> GateDecision(r), todo |-> <<r>>]]
  /\ consent' = IF GateDecision(r) = "auto" THEN consent \cup {r} ELSE consent
  /\ UNCHANGED <<gates, told, lent, held, undone, runs, used>>

(* Submit: the request is pending, whatever happens to it next. *)
Submit(r) ==
  /\ At(r, "begun")
  /\ Put(r, "pending")
  /\ asked' = Append(asked, r)
  /\ Goto(r, IF job[r].how = "ask" THEN "ask" ELSE "decide")
  /\ UNCHANGED <<waiters, remembered, history>>

(* autoApproveAndExecute, or the remembered rejection: Decide's second       *)
(* result is not looked at, the action is run or left as planned.            *)
AutoDecide(r) ==
  /\ At(r, "decide")
  /\ IF Deciding(r) THEN Decide(r, job[r].how = "auto") ELSE UNCHANGED <<gate, disk, waiters, used>>
  /\ Goto(r, IF job[r].how = "auto" THEN "run" ELSE "done")
  /\ UNCHANGED <<asked, remembered, history>>

(* handleReplyText and the first half of handleReplyCard (setOutTrackID      *)
(* writes the record once more).                                             *)
Ask(r) ==
  /\ At(r, "ask")
  /\ told' = told \cup {r}
  /\ IF TextMode THEN Goto(r, "done") /\ UNCHANGED <<gate, disk, used>>
     ELSE Goto(r, "sent") /\ Put(r, gate[r])
  /\ UNCHANGED <<asked, waiters, remembered, consent, lent, held, undone, runs>>

(* The question does not reach the owner, or it does and only the answer of  *)
(* its delivery is lost.  The request stays pending; by card the requester   *)
(* is told "not executed", as after a wait that is over.                     *)
AskFails(r) ==
  /\ At(r, "ask") /\ Left("faults") /\ Use("faults")
  /\ \/ Goto(r, "done") /\ UNCHANGED told
     \/ told' = told \cup {r} /\ Goto(r, IF TextMode THEN "done" ELSE "gaveup")
  /\ UNCHANGED <<gates, consent, lent, held, undone, runs>>

\* Mutant of Await: it subscribes without looking at the decision again.
Await_Unchecked(r) ==
  /\ At(r, "sent")
  /\ Goto(r, "waiting") /\ waiters' = waiters \cup {r}
  /\ UNCHANGED <<gate, disk, asked, remembered, history, used>>

(* Await: the check and the subscription are one critical section. *)
Await(r) ==
  /\ At(r, "sent")
  /\ IF Decided(r) THEN Goto(r, "woken") /\ UNCHANGED waiters
     ELSE Goto(r, "waiting") /\ waiters' = waiters \cup {r}
  /\ UNCHANGED <<gate, disk, asked, remembered, history, used>>

Woken(r) == At(r, "woken") \/ (At(r, "waiting") /\ r \notin waiters)

(* Await's result is read after it returned. *)
Verdict(r) ==
  /\ Woken(r)
  /\ Goto(r, IF Approved(r) THEN "run" ELSE "done")
  /\ UNCHANGED <<gates, history, used>>

(* The wait is over: "not executed", even if the decision comes this moment. *)
GiveUp(r) ==
  /\ At(r, "waiting")
  /\ Goto(r, "gaveup")
  /\ UNCHANGED <<gates, history, used>>

-----------------------------------------------------------------------------
(* The owner. *)

(* handleOwnerDecision reads what there is to decide, or to retry. *)
Say(s, word) ==
  LET todo == IF word = "retry" THEN Backlog
              ELSE IF Pending = <<>> THEN <<>> ELSE <<Last(Pending)>>
      next == IF todo = <<>> THEN "done" ELSE IF word = "retry" THEN "run" ELSE "rule"
  IN  /\ TextMode /\ At(s, "idle")
      /\ job' = [job EXCEPT ![s] = [pc |-> next, how |-> word, todo |-> todo]]
      /\ UNCHANGED <<gates, history, used>>

\* Mutant of Rule: an approval runs the action whether or not it was the deciding one.
Rule_EitherWay(s) ==
  LET r == Current(s)
      yes == job[s].how = "approve"
  IN  /\ At(s, "rule")
      /\ IF Deciding(r) THEN Decide(r, yes) ELSE UNCHANGED <<gate, disk, waiters, used>>
      /\ consent' = IF yes THEN consent \cup {r} ELSE consent
      /\ Goto(s, IF yes THEN "run" ELSE "done")
      /\ UNCHANGED <<asked, remembered, told, lent, held, undone, runs>>

(* ... and decides it, unless somebody else did meanwhile.  rememberDecision *)
(* follows under its own lock; nothing reads it in between.                  *)
Rule(s) ==
  LET r == Current(s)
      yes == job[s].how = "approve"
  IN  /\ At(s, "rule")
      /\ IF Deciding(r)
         THEN /\ Decide(r, yes)
              /\ remembered' = IF Policy = "remember" THEN job[s].how ELSE remembered
              /\ consent' = IF yes THEN consent \cup {r} ELSE consent
              /\ Goto(s, IF yes THEN "run" ELSE "done")
         ELSE Goto(s, "done") /\ UNCHANGED <<gate, disk, waiters, remembered, consent, used>>
      /\ UNCHANGED <<asked, told, lent, held, undone, runs>>

(* handleCardCallback: the card may be older than this connector, and who    *)
(* taps is recorded but not compared with the owner: the card can be         *)
(* forwarded.                                                                *)
Tap(r, yes, who) ==
  /\ ~TextMode /\ r \in told /\ gate[r] # "none"
  /\ Left("taps") /\ Deciding(r)
  /\ gate' = [gate EXCEPT ![r] = IF yes THEN "approved" ELSE "rejected"]
  /\ \/ disk' = [disk EXCEPT ![r] = gate'[r]] /\ used' = [used EXCEPT !.taps = @ + 1]
     \/ /\ Left("faults") /\ UNCHANGED disk
        /\ used' = [used EXCEPT !.taps = @ + 1, !.faults = @ + 1]
  /\ waiters' = waiters \ {r}
  /\ consent' = IF yes THEN consent \cup {r} ELSE consent
  /\ lent' = IF yes /\ who = "other" THEN lent \cup {r} ELSE lent
  /\ UNCHANGED <<asked, remembered, job, told, held, undone, runs>>

(* autoFlushDeferred *)
Tick ==
  /\ TextMode /\ At(Ticker, "idle") /\ Backlog # <<>>
  /\ job' = [job EXCEPT ![Ticker] = [pc |-> "run", how |-> "retry", todo |-> Backlog]]
  /\ UNCHANGED <<gates, history, used>>

-----------------------------------------------------------------------------
(* Running an action. *)

(* execute: the action is carried out, or it is not. *)
Run(a) ==
  /\ At(a, "run")
  /\ runs' = [runs EXCEPT ![Current(a)] = @ + 1]
  /\ Goto(a, "ran")
  /\ UNCHANGED <<gates, told, consent, lent, held, undone, used>>

RunFails(a) ==
  /\ At(a, "run") /\ Left("failures") /\ Use("failures")
  /\ Goto(a, "failed")
  /\ UNCHANGED <<gates, history>>

(* What becomes of an action that could not run: lost in card mode only. *)
Unable(a) == IF ~TextMode /\ job[a].how = "ask" THEN "failed" ELSE "deferred"

(* The outcome is recorded, and a flush goes on with the next request. *)
Settle(a) ==
  LET r == Current(a)
      outcome == IF At(a, "ran") THEN "executed" ELSE Unable(a)
      rest == Tail(job[a].todo)
  IN  /\ job[a].pc \in {"ran", "failed"}
      /\ Mark(r, outcome)
      /\ held' = IF outcome = "deferred" THEN held \cup {r} ELSE held
      /\ job' = [job EXCEPT ![a] = IF rest # <<>> THEN [pc |-> "run", how |-> @.how, todo |-> rest]
                                   ELSE IF a = Ticker THEN Idle ELSE [@ EXCEPT !.pc = "done"]]
      /\ UNCHANGED <<asked, waiters, remembered, told, consent, lent, undone, runs>>

(* The connector dies and is started again: newApprovalGate loads the files. *)
Restart ==
  /\ Left("crashes") /\ Use("crashes")
  /\ gate' = disk /\ waiters' = {} /\ remembered' = "none"
  /\ undone' = undone \cup {r \in Requests: gate[r] # disk[r]}
  /\ job' = [a \in Jobs |-> IF a = Ticker \/ At(a, "idle") THEN Idle ELSE [job[a] EXCEPT !.pc = "done"]]
  /\ UNCHANGED <<disk, asked, told, consent, lent, held, runs>>

Next ==
  \/ \E r \in Requests: \/ Begin(r) \/ Submit(r) \/ AutoDecide(r) \/ Ask(r) \/ AskFails(r)
                        \/ Await(r) \/ Verdict(r) \/ GiveUp(r)
                        \/ \E yes \in BOOLEAN, who \in {"owner", "other"}: Tap(r, yes, who)
  \/ \E s \in Replies: Rule(s) \/ \E word \in {"approve", "reject", "retry"}: Say(s, word)
  \/ Tick
  \/ \E a \in Jobs: Run(a) \/ RunFails(a) \/ Settle(a)
  \/ Restart

Spec == Init /\ [][Next]_vars

(* The connector's goroutines go on; the ticker ticks. *)
Carry(a) == Run(a) \/ Settle(a)
Fairness == WF_vars(Tick) /\ \A a \in Jobs: WF_vars(Carry(a))
FairSpec == Spec /\ Fairness

-----------------------------------------------------------------------------
(* Every action that was carried out was approved before: by the owner or    *)
(* his policy, or, of those the owner was asked about, by somebody else's    *)
(* tap on the card, which the code takes for his (connect_approval.go:45-49, *)
(* connect_approval_card.go:494, 736).                                       *)
RunsHaveConsent ==
  \A r \in Requests: runs[r] > 0 =>
    r \in consent /\ (r \in lent => r \in told)

(* What the requester was told is "not executed" is not executed: neither    *)
(* after a wait that is over nor after a question that seemed to fail, though*)
(* the card is there and is tapped later (connect_approval_card.go:648-654,  *)
(* 662-665).                                                                 *)
GivenUpNeverRuns == \A r \in Requests: At(r, "gaveup") => runs[r] = 0

(* An action the owner was asked about and has rejected is not carried out,  *)
(* not before and not later, unless a restart lost a decision that could not *)
(* be written (connect_approval.go:282-308).                                 *)
RejectedNeverRuns ==
  \A r \in Requests \ undone: gate[r] = "rejected" /\ job[r].how = "ask" => runs[r] = 0

(* Double replies, late taps, give-ups and restarts do not repeat an action  *)
(* the owner was asked about, unless it was held for a retry                 *)
(* (connect_approval_card.go:277-279, 510-515).                              *)
DecidedRunsOnce ==
  \A r \in Requests \ (held \cup undone): job[r].how = "ask" => runs[r] <= 1

(* Without a restart an approved action is in somebody's hands until it has  *)
(* an outcome, except when its turn had ended with "not executed" before,    *)
(* because the wait was over or the question seemed to fail: no wake-up is   *)
(* missed between the check and the wait (connect_approval.go:375-412).      *)
InHand(r) ==
  \/ \E a \in Jobs: job[a].pc \in {"run", "ran", "failed"} /\ r \in ToSet(job[a].todo)
  \/ At(r, "sent") \/ Woken(r)
ApprovedIsInHand ==
  used.crashes = 0 => \A r \in Requests: gate[r] = "approved" => InHand(r) \/ At(r, "gaveup")

(* Whatever the policy and however a request is answered: nothing runs       *)
(* without an approval (the owner's, but for a card that somebody else taps),*)
(* after a rejection or after "not executed"; a decided request runs once,   *)
(* and none is dropped that its turn still waits for, though taps, replies,  *)
(* failures, flushes and a restart interleave                                *)
(* (connect_approval.go:282-308, 375-412, 431-480).                          *)
ConsentHolds ==
  TypeOK /\ RunsHaveConsent /\ GivenUpNeverRuns /\ RejectedNeverRuns /\ DecidedRunsOnce
    /\ ApprovedIsInHand

(* A held action is not lost: it is carried out in the end, across restarts  *)
(* too (connect_approval.go:67-71, 328-343).                                 *)
BacklogDrains == \A r \in Requests: gate[r] = "deferred" ~> gate[r] = "executed"
=============================================================================
