------------------------------ MODULE IdleWatch ------------------------------
(***************************************************************************)
(* The idle watch of the bus (daemon.idleWatch): a ticker at a quarter of  *)
(* IdleTimeout looks at how many consumers there are.  A tick waits in the *)
(* ticker's channel until the goroutine is scheduled; a tick that finds    *)
(* the channel full is dropped.  Time is in units of which a tick takes    *)
(* Period; clocks stop at the values beyond which nothing changes.         *)
(***************************************************************************)
EXTENDS Integers

CONSTANTS Period, MaxConsumers

Timeout == 4 * Period   \* IdleTimeout
Never   == -1           \* the zero time

VARIABLES
  phase,     \* time since the last tick was sent
  tick,      \* a tick waits in tick.C
  empty,     \* time since emptySince, or Never
  unseen,    \* time since a tick saw a consumer
  len,       \* Hub.Len
  stopped    \* idleStop is closed

vars == <<phase, tick, empty, unseen, len, stopped>>

Limit == Timeout + Period
Later(t) == IF t < Limit THEN t + 1 ELSE t

TypeOK ==
  /\ phase \in 0..(Period - 1) /\ tick \in BOOLEAN
  /\ empty \in {Never} \cup 0..Limit /\ unseen \in 0..Limit
  /\ len \in 0..MaxConsumers /\ stopped \in BOOLEAN
  /\ empty <= unseen

Init ==
  /\ phase = 0 /\ tick = FALSE /\ empty = Never /\ unseen = 0
  /\ len = 0 /\ stopped = FALSE

Advance ==
  /\ ~stopped
  /\ phase' = (phase + 1) % Period
  /\ tick' = (tick \/ phase' = 0)
  /\ empty' = IF empty = Never THEN Never ELSE Later(empty)
  /\ unseen' = Later(unseen)
  /\ UNCHANGED <<len, stopped>>

Register ==
  /\ len < MaxConsumers /\ len' = len + 1
  /\ UNCHANGED <<phase, tick, empty, unseen, stopped>>

Unregister ==
  /\ len > 0 /\ len' = len - 1
  /\ UNCHANGED <<phase, tick, empty, unseen, stopped>>

Take == tick /\ ~stopped /\ tick' = FALSE /\ UNCHANGED <<phase, len>>

\* Mutant of SeeConsumer: the clock of an empty bus keeps running.
SeeConsumer_KeepsClock == Take /\ len > 0 /\ unseen' = 0 /\ UNCHANGED <<empty, stopped>>

SeeConsumer == Take /\ len > 0 /\ empty' = Never /\ unseen' = 0 /\ UNCHANGED stopped

\* Mutant of SeeNobody: every tick starts the clock again.
SeeNobody_Restarts == Take /\ len = 0 /\ empty' = 0 /\ UNCHANGED <<unseen, stopped>>

SeeNobody ==
  /\ Take /\ len = 0
  /\ IF empty = Never
       THEN empty' = 0 /\ stopped' = stopped
       ELSE empty' = empty /\ stopped' = (empty >= Timeout)
  /\ UNCHANGED unseen

Watch == SeeConsumer \/ SeeNobody
Next  == Advance \/ Register \/ Unregister \/ Watch

Spec == Init /\ [][Next]_vars

\* Time passes and the watch's goroutine is scheduled.
FairSpec == Spec /\ WF_vars(Advance) /\ WF_vars(Watch)

-----------------------------------------------------------------------------
(* Properties.                                                             *)

\* The bus stops itself only when no tick of the last IdleTimeout has seen a consumer,
\* however late or lost its ticks were (daemon.go:743-752).
StopWasUnseen == [][stopped' /\ ~stopped => unseen >= Timeout]_vars

\* A bus that everybody has left for good stops itself.
EmptyBusStops == <>[](len = 0) => <>stopped
=============================================================================
