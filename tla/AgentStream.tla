---------------------------- MODULE AgentStream ----------------------------
(* One child process answers all conversations of a robot                    *)
(* (qoderStreamForwarder, src/internal/helpers/connect_qoder_stream.go): a   *)
(* turn takes f.mu, starts the child if there is none, writes its message    *)
(* and reads lines until one is final.  A goroutine moves lines from the     *)
(* child's stdout to a channel, another waits for the child to exit; Wait    *)
(* closes stdout, whatever is still in it.                                   *)
EXTENDS Naturals, FiniteSets, Sequences

CONSTANTS Turns,          \* calls of forwardStream
          Nobody,         \* f.mu is free
          MaxDeaths,      \* bound: children that exit by themselves
          MaxStreamFaults \* bound: starts and initialisations that fail, and turns out of time

ASSUME StreamConstants ==
  /\ Nobody \notin Turns /\ "initialize" \notin Turns
  /\ MaxDeaths \in Nat /\ MaxStreamFaults \in Nat

VARIABLES turn,    \* of each turn: what it does next
          mu,      \* the turn that holds f.mu
          has,     \* f.cmd # nil
          child,   \* "none", "running", or "exited"
          done,    \* whether f.done has the child's exit
          inbox,   \* messages the child has not answered yet
          stdout,  \* answers in the pipe, each named for the message it was made for
          lines,   \* answers in f.lines
          closed,  \* f.lines is closed
          answer,  \* history: the answer that a turn has returned
          excused, \* history: turns with a fault of the child or of time on their way
          deaths, streamFaults

pipes == <<inbox, stdout, lines, closed>>
streamVars == <<turn, mu, has, child, done, pipes, answer, excused, deaths,
                 streamFaults>>

Hello == "initialize"
Messages == Turns \cup {Hello}

TurnStates == {"new", "ensure", "greet", "hear", "write", "read", "answered", "failed"}

StreamTypeOK ==
  /\ turn \in [Turns -> TurnStates]
  /\ mu \in Turns \cup {Nobody}
  /\ child \in {"none", "running", "exited"} /\ (has <=> child # "none")
  /\ {done, closed} \subseteq BOOLEAN /\ {inbox, stdout, lines} \subseteq Seq(Messages)
  /\ answer \in [Turns -> Messages \cup {Nobody}] /\ excused \subseteq Turns
  /\ \A t \in Turns : turn[t] \in {"ensure", "greet", "hear", "write", "read"} <=> t = mu
  /\ deaths \in 0..MaxDeaths /\ streamFaults \in 0..MaxStreamFaults

StreamInit ==
  /\ turn = [t \in Turns |-> "new"] /\ mu = Nobody
  /\ has = FALSE /\ child = "none" /\ done = FALSE
  /\ inbox = <<>> /\ stdout = <<>> /\ lines = <<>> /\ closed = FALSE
  /\ answer = [t \in Turns |-> Nobody] /\ excused = {}
  /\ deaths = 0 /\ streamFaults = 0

-----------------------------------------------------------------------------
Go(t, pc) == turn' = [turn EXCEPT ![t] = pc]

\* Mutant of Close: the child is left to the next turn.
Close_Not == UNCHANGED <<has, child, done, pipes>>

\* closeLocked, clearProcessLocked: the child is killed, and its channels are let go.
Close ==
  /\ has' = FALSE /\ child' = "none" /\ done' = FALSE
  /\ inbox' = <<>> /\ stdout' = <<>> /\ lines' = <<>> /\ closed' = FALSE

\* A turn returns an error, and f.mu.
Fails(t) == Close /\ Go(t, "failed") /\ mu' = Nobody

Enter(t) ==
  /\ turn[t] = "new" /\ mu = Nobody
  /\ mu' = t /\ Go(t, "ensure")
  /\ UNCHANGED <<has, child, done, pipes, answer, excused, deaths, streamFaults>>

\* Mutant of Gone: only whether there was a child is looked at.
Gone_Unasked == ~has

\* There is no child, or its exit was reported.
Gone == ~has \/ done

\* ensureLocked; a child whose exit is not reported yet passes for alive.
Ensure(t) ==
  /\ turn[t] = "ensure"
  /\ IF Gone
     THEN /\ has' = TRUE /\ child' = "running" /\ done' = FALSE
          /\ inbox' = <<>> /\ stdout' = <<>> /\ lines' = <<>> /\ closed' = FALSE
          /\ Go(t, "greet") /\ UNCHANGED excused
     ELSE /\ Go(t, "write")
          /\ excused' = IF child = "exited" /\ ~done THEN excused \cup {t} ELSE excused
          /\ UNCHANGED <<has, child, done, pipes>>
  /\ UNCHANGED <<mu, answer, deaths, streamFaults>>

Excuse(t) ==
  /\ streamFaults < MaxStreamFaults /\ streamFaults' = streamFaults + 1
  /\ excused' = excused \cup {t}

\* The child cannot be started, or refuses to be initialised.
Refused(t) ==
  /\ turn[t] \in {"greet", "hear"} /\ Excuse(t) /\ Fails(t)
  /\ UNCHANGED <<answer, deaths>>

\* writeJSONLocked of the greeting or of the message; nobody reads what an exited child
\* is told.
Write(t) ==
  /\ turn[t] \in {"greet", "write"}
  /\ IF child = "exited"
     THEN Fails(t)
     ELSE /\ inbox' = Append(inbox, IF turn[t] = "greet" THEN Hello ELSE t)
          /\ Go(t, IF turn[t] = "greet" THEN "hear" ELSE "read")
          /\ UNCHANGED <<mu, has, child, done, stdout, lines, closed>>
  /\ UNCHANGED <<answer, excused, deaths, streamFaults>>

\* readLineLocked: a line.  initializeLocked skips what is not its response.
Hear(t) ==
  /\ turn[t] = "hear" /\ lines # <<>> /\ lines' = Tail(lines)
  /\ IF Head(lines) = Hello THEN Go(t, "write") ELSE UNCHANGED turn
  /\ UNCHANGED <<mu, has, child, done, inbox, stdout, closed, answer, excused, deaths,
                 streamFaults>>

Receive(t) ==
  /\ turn[t] = "read" /\ lines # <<>> /\ lines' = Tail(lines)
  /\ answer' = [answer EXCEPT ![t] = Head(lines)]
  /\ Go(t, "answered") /\ mu' = Nobody
  /\ UNCHANGED <<has, child, done, inbox, stdout, closed, excused, deaths, streamFaults>>

\* readLineLocked: the end of the lines or the exit, which select may prefer to a line.
ReadFails(t) ==
  /\ turn[t] \in {"hear", "read"}
  /\ done \/ (closed /\ lines = <<>>)
  /\ Fails(t)
  /\ UNCHANGED <<answer, excused, deaths, streamFaults>>

\* The turn's deadline, or that of the initialisation, passes.
TimesOut(t) ==
  /\ turn[t] \in {"hear", "read"} /\ Excuse(t) /\ Fails(t)
  /\ UNCHANGED <<answer, deaths>>

-----------------------------------------------------------------------------
\* The child answers what it was told, one after the other.
ChildAnswers ==
  /\ child = "running" /\ inbox # <<>>
  /\ inbox' = Tail(inbox) /\ stdout' = Append(stdout, Head(inbox))
  /\ UNCHANGED <<turn, mu, has, child, done, lines, closed, answer, excused, deaths,
                 streamFaults>>

ChildExits ==
  /\ child = "running" /\ deaths < MaxDeaths /\ deaths' = deaths + 1
  /\ child' = "exited" /\ excused' = excused \cup ({mu} \ {Nobody})
  /\ UNCHANGED <<turn, mu, has, done, pipes, answer, streamFaults>>

\* scanQoderLines
Scan ==
  /\ stdout # <<>> /\ stdout' = Tail(stdout) /\ lines' = Append(lines, Head(stdout))
  /\ UNCHANGED <<turn, mu, has, child, done, inbox, closed, answer, excused, deaths,
                 streamFaults>>

ScanEnds ==
  /\ child = "exited" /\ stdout = <<>> /\ ~closed /\ closed' = TRUE
  /\ UNCHANGED <<turn, mu, has, child, done, inbox, stdout, lines, answer, excused, deaths,
                 streamFaults>>

\* cmd.Wait closes stdout, and its result goes to f.done.
Wait ==
  /\ child = "exited" /\ ~done /\ done' = TRUE /\ stdout' = <<>>
  /\ UNCHANGED <<turn, mu, has, child, inbox, lines, closed, answer, excused, deaths,
                 streamFaults>>

StreamNext ==
  \/ \E t \in Turns : \/ Enter(t) \/ Ensure(t) \/ Refused(t) \/ Write(t) \/ Hear(t) \/ Receive(t)
                      \/ ReadFails(t) \/ TimesOut(t)
  \/ ChildAnswers \/ ChildExits \/ Scan \/ ScanEnds \/ Wait

StreamSpec == StreamInit /\ [][StreamNext]_streamVars

-----------------------------------------------------------------------------
\* A turn returns the answer to its own message, though an earlier turn gave up on the
\* same child before it had answered (connect_qoder_stream.go:173-180).
OwnAnswer == \A t \in Turns : turn[t] = "answered" => answer[t] = t

\* A turn fails only by a fault of its own time, or by an exit that nobody had reported
\* when it began: a child that died between two turns costs none of them
\* (connect_qoder_stream.go:255-274).
IdleDeathIsFree == \A t \in Turns : turn[t] = "failed" => t \in excused

\* The child that all conversations of a robot share.
StreamHolds == StreamTypeOK /\ OwnAnswer /\ IdleDeathIsFree
=============================================================================
