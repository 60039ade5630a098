----------------------------- MODULE AuditChain -----------------------------
(***************************************************************************)
(* The audit log (audit/sink.go, chain.go, rotate.go): one file a day, to  *)
(* which processes append records that hold the hash of the record before  *)
(* them.  The hash to chain to is read from the end of the file, under the *)
(* file lock.  A write may stop short: the disk is full or the process     *)
(* dies.                                                                   *)
(*                                                                         *)
(* Hashes do not collide: the hash of a record is the sequence of the      *)
(* bodies it stands for, and <<>> stands for no hash.                      *)
(***************************************************************************)
EXTENDS Integers, Sequences, FiniteSets

CONSTANTS
  Writers,      \* processes; within one a mutex orders the writers
  Nobody,       \* holds the lock
  Days, Retention,
  MaxEvents,    \* bound of the model
  Torn          \* how a write may stop short: inside the record, before its newline

ASSUME AuditAssumption == Nobody \notin Writers /\ MaxEvents \in Nat

VARIABLES
  today,     \* the clock's date
  logs,     \* per day: the lines of its file
  lock,      \* who holds the mutex and the file lock
  stage, day,   \* per writer: where Emit is, and the day of the file it has open
  prev,      \* per writer: the hash its record chains to
  events,    \* how many events there have been; an event is its number
  emitting,  \* per writer: its event
  emitted,   \* history: the events whose Emit returned nil, with their day
  pruned     \* history: the days whose file was removed

auditVars == <<today, logs, lock, stage, day, prev, events, emitting, emitted, pruned>>

\* A line parses, or it is what a torn write has left.
Line(h, e) == [prev |-> h, hash |-> Append(h, e), body |-> e, parses |-> TRUE]
Rubbish    == [prev |-> <<>>, hash |-> <<>>, body |-> 0, parses |-> FALSE]
Last(s)    == s[Len(s)]

AuditTypeOK ==
  /\ today \in Days /\ events \in 0..MaxEvents
  /\ stage \in [Writers -> {"idle", "open", "sealed"}] /\ day \in [Writers -> Days]
  /\ emitting \in [Writers -> 0..MaxEvents]
  /\ \A w \in Writers : stage[w] # "idle" <=> lock = w
  /\ lock \in Writers \cup {Nobody}
  /\ \A d \in Days : \A i \in DOMAIN logs[d].lines :
       LET l == logs[d].lines[i] IN l.parses => l.hash = Append(l.prev, l.body)
  /\ \A d \in Days : logs[d].ended \/ logs[d].lines # <<>>
  /\ emitted \subseteq (1..events) \X Days /\ pruned \subseteq Days

AuditInit ==
  /\ today \in Days /\ logs = [d \in Days |-> [lines |-> <<>>, ended |-> TRUE]]
  /\ lock = Nobody /\ stage = [w \in Writers |-> "idle"] /\ day = [w \in Writers |-> today]
  /\ prev = [w \in Writers |-> <<>>] /\ events = 0 /\ emitting = [w \in Writers |-> 0]
  /\ emitted = {} /\ pruned = {}

-----------------------------------------------------------------------------
\* Mutant of BeginAppend: the file lock is not taken.
BeginAppend_Unlocked(w) ==
  /\ stage[w] = "idle" /\ events < MaxEvents
  /\ lock' = w
  /\ events' = events + 1 /\ emitting' = [emitting EXCEPT ![w] = events']
  /\ stage' = [stage EXCEPT ![w] = "open"] /\ day' = [day EXCEPT ![w] = today]
  /\ UNCHANGED <<today, logs, prev, emitted, pruned>>

\* beginAppend: the lock, then the file of today.
BeginAppend(w) ==
  /\ stage[w] = "idle" /\ events < MaxEvents /\ lock = Nobody
  /\ lock' = w
  /\ events' = events + 1 /\ emitting' = [emitting EXCEPT ![w] = events']
  /\ stage' = [stage EXCEPT ![w] = "open"] /\ day' = [day EXCEPT ![w] = today]
  /\ UNCHANGED <<today, logs, prev, emitted, pruned>>

\* The lock is busy for too long: the event is not recorded.
LockTimeout(w) ==
  /\ stage[w] = "idle" /\ events < MaxEvents /\ lock # Nobody
  /\ events' = events + 1
  /\ UNCHANGED <<today, logs, lock, stage, day, prev, emitting, emitted, pruned>>

Unlock(w) == lock' = Nobody /\ stage' = [stage EXCEPT ![w] = "idle"]

\* Mutant of LastHash: what does not parse is passed over.
LastHash_Skips(ls) ==
  LET whole == {i \in DOMAIN ls : ls[i].parses}
  IN {IF whole = {} THEN <<>> ELSE ls[CHOOSE i \in whole : \A j \in whole : j <= i].hash}

\* lastRecordHash: nothing if the last line does not parse.
LastHash(ls) ==
  IF ls = <<>> THEN {<<>>} ELSE {l.hash : l \in {k \in {Last(ls)} : k.parses}}

\* SealFromFile.
Seal(w) ==
  /\ stage[w] = "open"
  /\ \E h \in LastHash(logs[day[w]].lines) : prev' = [prev EXCEPT ![w] = h]
  /\ stage' = [stage EXCEPT ![w] = "sealed"]
  /\ UNCHANGED <<today, logs, lock, day, events, emitting, emitted, pruned>>

SealFails(w) ==
  /\ stage[w] = "open" /\ LastHash(logs[day[w]].lines) = {}
  /\ Unlock(w)
  /\ UNCHANGED <<today, logs, day, prev, events, emitting, emitted, pruned>>

\* O_APPEND: what is written goes to the end of the file, onto the last line if that has no
\* end yet.
Appended(f, line, ended) ==
  IF f.ended
    THEN [lines |-> Append(f.lines, line), ended |-> ended]
    ELSE [lines |-> [f.lines EXCEPT ![Len(f.lines)] = Rubbish], ended |-> ended]

\* A file that was pruned meanwhile takes the record with it.
AppendTo(d, line, ended) ==
  logs' = IF d \in pruned THEN logs ELSE [logs EXCEPT ![d] = Appended(@, line, ended)]

\* The record and its newline are written; Emit returns nil.
WriteRecord(w) ==
  /\ stage[w] = "sealed"
  /\ AppendTo(day[w], Line(prev[w], emitting[w]), TRUE)
  /\ emitted' = emitted \cup {<<emitting[w], day[w]>>}
  /\ Unlock(w)
  /\ UNCHANGED <<today, day, prev, events, emitting, pruned>>

\* The write stops short: Emit returns an error, or the process dies.
WriteTorn(w, how) ==
  /\ stage[w] = "sealed"
  /\ AppendTo(day[w], IF how = "partial" THEN Rubbish ELSE Line(prev[w], emitting[w]), FALSE)
  /\ Unlock(w)
  /\ UNCHANGED <<today, day, prev, events, emitting, emitted, pruned>>

\* The process dies before it writes.
WriterCrash(w) ==
  /\ stage[w] # "idle"
  /\ Unlock(w)
  /\ UNCHANGED <<today, logs, day, prev, events, emitting, emitted, pruned>>

\* pruneOldFiles, when a process starts; it takes no lock.
Prune(d) ==
  /\ d < today - Retention /\ Retention > 0 /\ logs[d].lines # <<>>
  /\ logs' = [logs EXCEPT ![d] = [lines |-> <<>>, ended |-> TRUE]]
  /\ pruned' = pruned \cup {d}
  /\ UNCHANGED <<today, lock, stage, day, prev, events, emitting, emitted>>

\* Midnight.
ClockMoves ==
  /\ \E d \in Days : d > today /\ today' = d
  /\ UNCHANGED <<logs, lock, stage, day, prev, events, emitting, emitted, pruned>>

Emit(w) ==
  \/ BeginAppend(w) \/ LockTimeout(w) \/ Seal(w) \/ SealFails(w) \/ WriteRecord(w)
  \/ \E how \in Torn : WriteTorn(w, how)

AuditNext ==
  \/ \E w \in Writers : Emit(w) \/ WriterCrash(w)
  \/ \E d \in Days : Prune(d)
  \/ ClockMoves

AuditSpec == AuditInit /\ [][AuditNext]_auditVars

-----------------------------------------------------------------------------
(* Properties.                                                             *)

\* VerifyFile, for lines that all parse.
Verifies(ls) ==
  \A i \in DOMAIN ls : ls[i].parses /\ ls[i].prev = (IF i = 1 THEN <<>> ELSE ls[i - 1].hash)

\* Without a torn write every file verifies by itself: concurrent writers do not fork its
\* chain, and neither does the change of the day (chain.go:14-23).
ChainVerifies ==
  \A d \in Days :
    LET ls == logs[d].lines IN (\A i \in DOMAIN ls : ls[i].parses) => Verifies(ls)

\* Damage is never built upon: after a line that does not parse nothing is recorded that
\* day, and the records before it still verify (chain.go:87-96).
DamageIsLast ==
  \A d \in Days :
    LET ls == logs[d].lines
    IN \A i \in DOMAIN ls : ~ls[i].parses => i = Len(ls) /\ Verifies(SubSeq(ls, 1, i - 1))

\* Events whose Emit returned nil are in their day's file, in the chain and once, until the
\* file is pruned; a damaged file has lost one of them at most, the one that was glued to a
\* record without its newline (sink.go:40-79, chain.go:87-96).
EmittedIsRecorded ==
  \A d \in Days \ pruned :
    LET ls   == logs[d].lines
        lost == {e \in 1..events : <<e, d>> \in emitted
                                  /\ Cardinality({i \in DOMAIN ls : ls[i].body = e}) # 1}
    IN Cardinality(lost) <= IF ls # <<>> /\ ~Last(ls).parses THEN 1 ELSE 0

AuditSafe == AuditTypeOK /\ ChainVerifies /\ DamageIsLast /\ EmittedIsRecorded
=============================================================================
