---------------------------- MODULE AttemptStore ----------------------------
(***************************************************************************)
(* The suppression of repeated subscription attempts across processes      *)
(* (event/personal/attempt_store.go), with the command that uses it        *)
(* (app/event_personal_command.go): claim every fingerprint of a plan,     *)
(* create its subscriptions one by one, record how it went, roll back.     *)
(*                                                                         *)
(* Each operation of the store runs under the file lock and replaces the   *)
(* file by a rename: it is one step.  Its clock is read before the lock is *)
(* asked for: that is a step of its own.  Claims and failures are times in *)
(* units of the shortest backoff.                                          *)
(***************************************************************************)
EXTENDS Integers, Sequences, Functions

CONSTANTS
  Procs,
  Prints,       \* fingerprints
  Plan,         \* Plan[p]: the fingerprints p subscribes to, in order
  Lease,        \* personalSubscriptionAttemptLease
  Backoff(_),   \* attemptBackoff with its jitter, by failure count
  CreationFaults, \* how a creation may fail: [retry |-> its retryability,
                  \*   after |-> the delay the server asks for, 0 when it asks for none]
  TerminalHold, \* attemptTerminalHold
  Reset,        \* attemptFailureReset
  LockWait,     \* attemptLockWaitTimeout: how long an operation may wait for the lock
  MaxTime, MaxClaims   \* bounds of the model: the clock, claims per process

AttemptConstants ==
  /\ \A p \in Procs : Plan[p] \in Seq(Prints) /\ Plan[p] # <<>>
  /\ Lease \in Nat \ {0} /\ TerminalHold \in Nat \ {0} /\ Reset \in Nat \ {0}
  /\ \A x \in CreationFaults : x.retry \in {"unknown", "retryable", "non_retryable"} /\ x.after \in Nat
  /\ LockWait \in Nat /\ MaxTime \in Nat \ {0} /\ MaxClaims \in Nat

VARIABLES
  now,       \* the clock; times are 1 or later, 0 is the zero time
  records,   \* the file: fingerprint -> record, for the fingerprints it has
  pc,        \* per process: what it does next
  clock,     \* per process: the time its operation goes by
  claims,    \* per process: how many claims it has been granted
  previous,  \* per process: AttemptClaim.previous
  made,      \* per process: how many subscriptions of its plan exist because of it
  failure,   \* per process: what it has to record
  counted, lastFailure, heldUntil   \* history: per fingerprint, what was recorded

attemptVars == <<now, records, pc, clock, claims, previous, made, failure,
                 counted, lastFailure, heldUntil>>
history == <<counted, lastFailure, heldUntil>>

NoFailure == [at |-> 0, done |-> 0, retry |-> "unknown", after |-> 0]
Items(p) == {Plan[p][i] : i \in DOMAIN Plan[p]}
Id(p) == <<p, claims[p]>>   \* AttemptClaim.AttemptID
Claimed == {"create", "success", "failed", "release", "rollback_release"}

\* validateAttemptRecord: what load accepts.
Loads(r) ==
  \/ r.state = "in_flight" /\ r.lease > 0
  \/ r.state = "cooldown" /\ r.next > 0 /\ r.retry \in {"unknown", "retryable"}
  \/ r.state = "terminal_hold" /\ r.next > 0 /\ r.retry = "non_retryable"

AttemptsTypeOK ==
  /\ now \in 1..MaxTime
  /\ DOMAIN records \subseteq Prints
  /\ \A f \in DOMAIN records : Loads(records[f]) /\ records[f].count \in Nat /\ records[f].last \in 0..now
  /\ pc \in [Procs -> Claimed \cup {"idle", "claim", "rollback", "consume"}]
  /\ clock \in [Procs -> 0..now] /\ claims \in [Procs -> 0..MaxClaims]
  /\ \A p \in Procs : /\ DOMAIN previous[p] \subseteq Items(p)
                      /\ made[p] \in 0..Len(Plan[p])
                      /\ pc[p] \in {"success", "consume"} => made[p] = Len(Plan[p])

AttemptsInit ==
  /\ now = 1 /\ records = <<>>
  /\ pc = [p \in Procs |-> "idle"] /\ clock = [p \in Procs |-> 0] /\ claims = [p \in Procs |-> 0]
  /\ previous = [p \in Procs |-> <<>>] /\ made = [p \in Procs |-> 0]
  /\ failure = [p \in Procs |-> NoFailure]
  /\ counted = [f \in Prints |-> 0] /\ lastFailure = [f \in Prints |-> 0]
  /\ heldUntil = [f \in Prints |-> 0]

-----------------------------------------------------------------------------
(* The store.                                                              *)

Only(rs, S)    == Restrict(rs, DOMAIN rs \cap S)
Without(rs, S) == Restrict(rs, DOMAIN rs \ S)

\* Mutant of Blocks: the end of a lease is not looked at.
Blocks_ForgetsLease(r, t) == r.state # "in_flight" /\ r.next > t

\* blockedAttempt.
Blocks(r, t) == IF r.state = "in_flight" THEN r.lease > t ELSE r.next > t

\* Mutant of Forgotten: an old failure is forgotten though its hold goes on.
Forgotten_IgnoresHold(r, t) ==
  IF r.last > 0
    THEN t - r.last >= Reset
    ELSE r.state = "in_flight" /\ t - r.lease >= Reset

\* pruneAttemptRecords.
Forgotten(r, t) ==
  IF r.last > 0
    THEN t - r.last >= Reset /\ ~Blocks(r, t)
    ELSE r.state = "in_flight" /\ t - r.lease >= Reset

Pruned(t) == Restrict(records, {f \in DOMAIN records : ~Forgotten(records[f], t)})

\* Mutant of ClaimedRecord: the claim starts a record of its own.
ClaimedRecord_Fresh(p, kept, f) ==
  [state |-> "in_flight", id |-> <<p, claims[p] + 1>>, lease |-> clock[p] + Lease,
   next |-> 0, retry |-> "", count |-> 0, last |-> 0]

\* A claimed record keeps the failure history of the one it replaces.
ClaimedRecord(p, kept, f) ==
  [state |-> "in_flight", id |-> <<p, claims[p] + 1>>, lease |-> clock[p] + Lease,
   next |-> 0, retry |-> "",
   count |-> IF f \in DOMAIN kept THEN kept[f].count ELSE 0,
   last  |-> IF f \in DOMAIN kept THEN kept[f].last ELSE 0]

\* claimOwnsAll.
OwnsAll(p) ==
  \A f \in Items(p) :
    f \in DOMAIN records /\ records[f].state = "in_flight" /\ records[f].id = Id(p)

\* restoreAttemptPrevious, for the fingerprints S of p's claim.
Restored(p, S) ==
  [f \in (DOMAIN previous[p] \cap S) \cup (DOMAIN records \ S) |->
     IF f \in S THEN previous[p][f] ELSE records[f]]

\* Mutant of FailureState: only a retryable failure cools down.
FailureState_Guess(retry) == IF retry # "retryable" THEN "terminal_hold" ELSE "cooldown"
FailureState(retry) == IF retry = "non_retryable" THEN "terminal_hold" ELSE "cooldown"

Larger(a, b) == IF a > b THEN a ELSE b

\* attemptFailureDelay.
Delay(x, count) ==
  IF FailureState(x.retry) = "terminal_hold" THEN TerminalHold ELSE Larger(Backoff(count), x.after)

\* Failures older than the reset do not count.
NextCount(count, last, t) == IF last = 0 \/ t - last >= Reset THEN 1 ELSE count + 1

\* The record CompleteFailure writes for the item that failed.
FailedRecord(p) ==
  LET x == failure[p]
      f == Plan[p][x.at]
      c == IF f \in DOMAIN previous[p]
             THEN NextCount(previous[p][f].count, previous[p][f].last, clock[p])
             ELSE 1
  IN [state |-> FailureState(x.retry), id |-> <<>>, lease |-> 0,
      next |-> clock[p] + Delay(x, c), retry |-> x.retry, count |-> c, last |-> clock[p]]

-----------------------------------------------------------------------------
(* The command.                                                            *)

Goto(p, to) == pc' = [pc EXCEPT ![p] = to]

\* The process is gone, and what it remembered with it.
Ended(p) ==
  /\ Goto(p, "idle")
  /\ clock' = [clock EXCEPT ![p] = 0] /\ made' = [made EXCEPT ![p] = 0]
  /\ previous' = [previous EXCEPT ![p] = <<>>] /\ failure' = [failure EXCEPT ![p] = NoFailure]

\* Claim reads its clock.
BeginClaim(p) ==
  /\ pc[p] = "idle" /\ claims[p] < MaxClaims
  /\ clock' = [clock EXCEPT ![p] = now] /\ Goto(p, "claim")
  /\ UNCHANGED <<now, records, claims, previous, made, failure, history>>

\* Mutant of Refused: only the first fingerprint is looked at.
Refused_First(p, kept) ==
  Plan[p][1] \in DOMAIN kept /\ Blocks(kept[Plan[p][1]], clock[p])
Refused(p, kept) == \E f \in Items(p) \cap DOMAIN kept : Blocks(kept[f], clock[p])

\* Claim: all of the plan or nothing.
Claim(p) ==
  LET kept == Pruned(clock[p])
  IN /\ pc[p] = "claim" /\ ~Refused(p, kept)
     /\ records' = [f \in Items(p) \cup DOMAIN kept |->
                      IF f \in Items(p) THEN ClaimedRecord(p, kept, f) ELSE kept[f]]
     /\ previous' = [previous EXCEPT ![p] = Only(kept, Items(p))]
     /\ claims' = [claims EXCEPT ![p] = @ + 1]
     /\ Goto(p, "create")
     /\ UNCHANGED <<now, clock, made, failure, history>>

\* AttemptBlockedError, or the lock could not be had: the command ends.
ClaimRefused(p) ==
  /\ pc[p] = "claim"
  /\ Ended(p)
  /\ UNCHANGED <<now, records, claims, history>>

\* The server creates the next subscription and its run state is saved.
Create(p) ==
  /\ pc[p] = "create"
  /\ made' = [made EXCEPT ![p] = @ + 1]
  /\ Goto(p, IF made'[p] = Len(Plan[p]) THEN "success" ELSE "create")
  /\ UNCHANGED <<now, records, clock, claims, previous, failure, history>>

\* It fails, or its run state cannot be saved; CompleteFailure reads its clock.
CreateFails(p, fault, saved) ==
  /\ pc[p] = "create"
  /\ failure' = [failure EXCEPT ![p] =
       [at |-> made[p] + 1, done |-> made[p], retry |-> fault.retry, after |-> fault.after]]
  /\ made' = [made EXCEPT ![p] = IF saved THEN @ ELSE @ + 1]
  /\ clock' = [clock EXCEPT ![p] = now]
  /\ Goto(p, "failed")
  /\ UNCHANGED <<now, records, claims, previous, history>>

\* Ctrl-C: the claim is released, then the batch rolled back.  A rejected runtime token:
\* the other way round.
Cancelled(p) ==
  /\ pc[p] = "create"
  /\ pc' \in {[pc EXCEPT ![p] = "release"], [pc EXCEPT ![p] = "rollback_release"]}
  /\ UNCHANGED <<now, records, clock, claims, previous, made, failure, history>>

\* CompleteSuccess.
CompleteSuccess(p) ==
  /\ pc[p] = "success" /\ OwnsAll(p)
  /\ records' = Without(records, Items(p))
  /\ counted' = [f \in Prints |-> IF f \in Items(p) THEN 0 ELSE counted[f]]
  /\ Goto(p, "consume")
  /\ UNCHANGED <<now, clock, claims, previous, made, failure, lastFailure, heldUntil>>

\* CompleteFailure: the failed item is held, earlier ones are cleared, later ones restored.
CompleteFailure(p) ==
  LET x == failure[p]
      f == Plan[p][x.at]
      done == {Plan[p][i] : i \in 1..x.done}
      record == FailedRecord(p)
      others == Without(Restored(p, Items(p)), done)
  IN /\ pc[p] = "failed" /\ OwnsAll(p)
     /\ records' = [g \in {f} \cup DOMAIN others |-> IF g = f THEN record ELSE others[g]]
     /\ counted' = [g \in Prints |->
          IF g = f THEN NextCount(counted[f], lastFailure[f], clock[p])
                   ELSE IF g \in done THEN 0 ELSE counted[g]]
     /\ lastFailure' = [lastFailure EXCEPT ![f] = clock[p]]
     /\ heldUntil' = [heldUntil EXCEPT ![f] = record.next]
     /\ Goto(p, "rollback")
     /\ UNCHANGED <<now, clock, claims, previous, made, failure>>

\* Release.
ReleaseClaim(p) ==
  /\ pc[p] \in {"release", "rollback_release"} /\ OwnsAll(p)
  /\ pc[p] = "rollback_release" => made[p] = 0
  /\ records' = Restored(p, Items(p))
  /\ Goto(p, "rollback")
  /\ UNCHANGED <<now, clock, claims, previous, made, failure, history>>

\* ErrAttemptClaimStale, or the lock or the file could not be had: nothing is recorded and
\* the batch is rolled back all the same.
StoreFails(p) ==
  /\ pc[p] \in Claimed \ {"create"}
  /\ pc[p] = "rollback_release" => made[p] = 0
  /\ Goto(p, "rollback")
  /\ UNCHANGED <<now, records, clock, claims, previous, made, failure, history>>

\* cleanup deletes the subscriptions one by one, or warns.
Delete(p) ==
  /\ pc[p] \in {"rollback", "rollback_release"} /\ made[p] > 0
  /\ made' = [made EXCEPT ![p] = @ - 1]
  /\ UNCHANGED <<now, records, pc, clock, claims, previous, failure, history>>

Finish(p) ==
  /\ pc[p] = "rollback" /\ made[p] = 0
  /\ Ended(p)
  /\ UNCHANGED <<now, records, claims, history>>

\* The consumer ends: what it created is deleted.
Exit(p) ==
  /\ pc[p] = "consume"
  /\ Goto(p, "rollback")
  /\ UNCHANGED <<now, records, clock, claims, previous, made, failure, history>>

\* The process dies; another command may run later.
CommandCrash(p) ==
  /\ pc[p] # "idle"
  /\ Ended(p)
  /\ UNCHANGED <<now, records, claims, history>>

Tick ==
  /\ now < MaxTime /\ now' = now + 1
  /\ \A p \in Procs : pc[p] \in {"claim", "failed"} => now' - clock[p] <= LockWait
  /\ UNCHANGED <<records, pc, clock, claims, previous, made, failure, history>>

Command(p) ==
  \/ BeginClaim(p) \/ Claim(p) \/ ClaimRefused(p) \/ Create(p) \/ Cancelled(p)
  \/ \E fault \in CreationFaults, saved \in BOOLEAN : CreateFails(p, fault, saved)
  \/ CompleteSuccess(p) \/ CompleteFailure(p) \/ ReleaseClaim(p) \/ StoreFails(p)
  \/ Delete(p) \/ Finish(p) \/ Exit(p)

AttemptsNext == Tick \/ \E p \in Procs : Command(p) \/ CommandCrash(p)

AttemptsSpec == AttemptsInit /\ [][AttemptsNext]_attemptVars

-----------------------------------------------------------------------------
(* Properties.                                                             *)

LeaseOf(p) == clock[p] + Lease
Working(p) == pc[p] \in {"create", "success"}

\* Two processes create the same subscription at once only when the lease of one has run
\* out (attempt_store.go:271-345).
OneBatchAtATime ==
  \A p, q \in Procs :
    p # q /\ Working(p) /\ Working(q) /\ Items(p) \cap Items(q) # {} =>
      LeaseOf(p) <= now \/ LeaseOf(q) <= now

\* Failures are counted until a success or the reset, whatever other batches, releases,
\* crashes and expired claims come in between (attempt_store.go:408-443, 318-334).
FailuresAreCounted ==
  \A f \in Prints :
    LET count == IF f \in DOMAIN records THEN records[f].count ELSE 0
    IN count = counted[f] \/ (count = 0 /\ now - lastFailure[f] >= Reset)

\* A hold lasts as long as it was recorded for, against every claim: nobody's completion,
\* release or pruning ends it early (attempt_store.go:639-668, 764-783).
HoldsLast ==
  \A f \in Prints :
    heldUntil[f] > now => f \in DOMAIN records /\ records[f].next = heldUntil[f]

\* A released claim leaves nothing that blocks: the next command may try at once
\* (event_personal_attempts.go:188-190).
ReleasedIsFree ==
  [][\A p \in Procs :
       pc[p] \in {"release", "rollback_release"} /\ pc'[p] = "rollback" /\ records' # records =>
         \A f \in Items(p) \cap DOMAIN records' : ~Blocks(records'[f], now)]_attemptVars

\* What the store promises the commands that share it: two create a subscription at once only
\* when a lease has run out, failures are counted, a hold lasts, and a released claim leaves
\* nothing that blocks (attempt_store.go:271-475, event_personal_attempts.go:188-190).
AttemptsSafe ==
  /\ [](AttemptsTypeOK /\ OneBatchAtATime /\ FailuresAreCounted /\ HoldsLast)
  /\ ReleasedIsFree
=============================================================================
