-------------------------- MODULE ConnectSessions --------------------------
(* The memory of the robot connector: which session of the local agent goes  *)
(* with which conversation.  The one-shot agents (execForwarder with         *)
(* convSessions, src/internal/helpers/connect_stream.go) are told an id that *)
(* the connector mints, and the mutex of the map is kept while its snapshot  *)
(* is written.  opencode (connect_opencode.go) mints the id itself, and the  *)
(* snapshot is written after the mutex was given back; codex keeps its       *)
(* threads in the same way.  A conversation runs one turn or command at a    *)
(* time (ConnectQueue); different conversations run in parallel.             *)
EXTENDS Naturals, FiniteSets

CONSTANTS Convs,          \* conversations
          Absent,         \* no session
          MaxIds,         \* bound: sessions
          MaxFailedTurns, \* bound: turns in which the agent fails or times out
          MaxForgets,     \* bound: sessions that an agent loses
          MaxCommands,    \* bound: /new and /clear
          MaxUnsaved,     \* bound: snapshots that cannot be written
          MaxRestarts     \* bound: restarts of the connector

ASSUME SessionConstants ==
  /\ Absent \notin Nat
  /\ {MaxIds, MaxFailedTurns, MaxForgets, MaxCommands, MaxUnsaved, MaxRestarts} \subseteq Nat

VARIABLES agent,    \* "oneshot" or "opencode": what the connector was started for
          sessions, \* the map in memory
          stored,   \* the map in the file
          forward,  \* of each conversation: what it does, with which session and snapshot
          known,    \* the sessions that the agent has
          minted,   \* how many ids were handed out
          dropped,  \* history: sessions the connector dropped since it started
          gone,     \* history: dropped sessions of which the file was rid once
          failed,   \* history: turns that ended without the agent's answer
          spent     \* how much of each bound is used up

memory == <<sessions, stored, forward, known, minted, dropped, gone, failed, spent>>
sessionVars == <<agent, memory>>

\* The connector mints the ids; the snapshot is written under the mutex of the map.
Minted == agent = "oneshot"
Locked == agent = "oneshot"

Ids == 1..MaxIds
Maps == [Convs -> Ids \cup {Absent}]
Resting == [pc |-> "idle", id |-> Absent, fresh |-> FALSE, tries |-> 0, then |-> "idle",
            snap |-> [c \in Convs |-> Absent]]
Bounds == [faults |-> MaxFailedTurns, forgets |-> MaxForgets, commands |-> MaxCommands,
           unsaved |-> MaxUnsaved, restarts |-> MaxRestarts]
Spend(what) == spent[what] < Bounds[what] /\ spent' = [spent EXCEPT ![what] = @ + 1]

SessionTypeOK ==
  /\ agent \in {"oneshot", "opencode"}
  /\ {sessions, stored} \subseteq Maps
  /\ forward \in [Convs -> [pc : {"idle", "look", "create", "save", "ask", "delete"},
                            id : Ids \cup {Absent}, fresh : BOOLEAN, tries : 0..2,
                            then : {"idle", "look", "ask", "delete"}, snap : Maps]]
  /\ known \cup dropped \cup gone \subseteq 1..minted /\ minted \in 0..MaxIds
  /\ failed \in Nat
  /\ spent \in [DOMAIN Bounds -> Nat] /\ \A b \in DOMAIN Bounds : spent[b] <= Bounds[b]

SessionInit ==
  /\ agent \in {"oneshot", "opencode"}
  /\ sessions = [c \in Convs |-> Absent] /\ stored = sessions
  /\ forward = [c \in Convs |-> Resting]
  /\ known = {} /\ minted = 0 /\ dropped = {} /\ gone = {} /\ failed = 0
  /\ spent = [b \in DOMAIN Bounds |-> 0]

-----------------------------------------------------------------------------
Does(c, pc) == forward[c].pc = pc

\* Mutant of Free: the snapshot is written after the mutex was given back.
Free_Always == TRUE

\* Nobody keeps the mutex of the map for the time of a write.
Free == Locked => \A c \in Convs : ~Does(c, "save")

\* The map is changed and its snapshot taken in one critical section; it is written next.
Set(c, id, then, now) ==
  /\ Free
  /\ sessions' = [sessions EXCEPT ![c] = id]
  /\ forward' = [forward EXCEPT ![c] = [now EXCEPT !.pc = "save", !.then = then, !.snap = sessions']]

\* convSessions.reset and opencodeSessions.reset
Reset(c, then) ==
  /\ Set(c, Absent, then, forward[c])
  /\ dropped' = dropped \cup ({sessions[c]} \ {Absent})

\* saveConvSessionMap: the file is replaced as a whole, or stays as it is.
Save(c) ==
  /\ Does(c, "save")
  /\ \/ /\ stored' = forward[c].snap
        /\ gone' = gone \cup {i \in dropped : \A d \in Convs : forward[c].snap[d] # i}
        /\ UNCHANGED spent
     \/ Spend("unsaved") /\ UNCHANGED <<stored, gone>>
  /\ forward' = [forward EXCEPT ![c] = IF @.then = "idle" THEN Resting
                                       ELSE [@ EXCEPT !.pc = forward[c].then, !.snap = Resting.snap]]
  /\ UNCHANGED <<sessions, known, minted, dropped, failed>>

\* A turn begins, or begins again after its session was missing.
Look(c) ==
  /\ Does(c, "idle") \/ Does(c, "look")
  /\ LET begun == [forward[c] EXCEPT !.tries = @ + 1, !.id = sessions[c], !.fresh = FALSE]
     IN IF sessions[c] # Absent
        THEN /\ Free
             /\ forward' = [forward EXCEPT ![c] = [begun EXCEPT !.pc = "ask"]]
             /\ UNCHANGED <<sessions, minted>>
        ELSE IF Minted
        THEN /\ minted < MaxIds /\ minted' = minted + 1
             /\ Set(c, minted', "ask", [begun EXCEPT !.id = minted', !.fresh = TRUE])
        ELSE /\ forward' = [forward EXCEPT ![c] = [begun EXCEPT !.pc = "create"]]
             /\ UNCHANGED <<sessions, minted>>
  /\ UNCHANGED <<stored, known, dropped, gone, failed, spent>>

\* opencode makes a session, and the connector notes its id.
Created(c) ==
  /\ Does(c, "create") /\ minted < MaxIds /\ minted' = minted + 1
  /\ known' = known \cup {minted'}
  /\ Set(c, minted', "ask", [forward[c] EXCEPT !.id = minted'])
  /\ UNCHANGED <<stored, dropped, gone, failed, spent>>

\* --session-id makes the session, --resume and POST /session/<id>/message need it.
SessionFound(c) == forward[c].fresh \/ forward[c].id \in known

Answer(c) ==
  /\ Does(c, "ask") /\ SessionFound(c)
  /\ known' = known \cup {forward[c].id}
  /\ forward' = [forward EXCEPT ![c] = Resting]
  /\ UNCHANGED <<sessions, stored, minted, dropped, gone, failed, spent>>

KeepSession(c) == forward' = [forward EXCEPT ![c] = Resting] /\ UNCHANGED <<sessions, dropped>>

\* A turn fails for good: the one-shot agents drop the session, opencode keeps it.
EndInError(c) == failed' = failed + 1 /\ (IF Minted THEN Reset(c, "idle") ELSE KeepSession(c))

\* The agent fails or answers with an "API Error"; or the time is out, and every
\* connector drops the session.
Fail(c) ==
  /\ Does(c, "ask") \/ Does(c, "create")
  /\ Spend("faults")
  /\ EndInError(c) \/ (failed' = failed + 1 /\ Reset(c, "idle"))
  /\ UNCHANGED <<stored, known, minted, gone>>

\* Mutant of Missing: the turn is not run again.
Missing_Once(c) ==
  /\ Does(c, "ask") /\ ~SessionFound(c) /\ EndInError(c)
  /\ UNCHANGED <<stored, known, minted, gone, spent>>

\* The agent does not know the session: it is dropped and the turn runs once more.
Missing(c) ==
  /\ Does(c, "ask") /\ ~SessionFound(c)
  /\ IF forward[c].tries = 1 THEN Reset(c, "look") /\ UNCHANGED failed ELSE EndInError(c)
  /\ UNCHANGED <<stored, known, minted, gone, spent>>

\* /new and, unless the agent can delete a session, /clear.
New(c) ==
  /\ Does(c, "idle") /\ Spend("commands") /\ Reset(c, "idle")
  /\ UNCHANGED <<stored, known, minted, gone, failed>>

\* opencode's /clear drops the session and then has it deleted, which may fail.
Clear(c) ==
  /\ ~Minted /\ Does(c, "idle") /\ Spend("commands")
  /\ Set(c, Absent, IF sessions[c] = Absent THEN "idle" ELSE "delete",
         [forward[c] EXCEPT !.id = sessions[c]])
  /\ dropped' = dropped \cup ({sessions[c]} \ {Absent})
  /\ UNCHANGED <<stored, known, minted, gone, failed>>

Delete(c) ==
  /\ Does(c, "delete")
  /\ known' \in {known, known \ {forward[c].id}}
  /\ forward' = [forward EXCEPT ![c] = Resting]
  /\ UNCHANGED <<sessions, stored, minted, dropped, gone, failed, spent>>

\* The agent cleans a session up.
Forget(i) ==
  /\ i \in known /\ Spend("forgets") /\ known' = known \ {i}
  /\ UNCHANGED <<sessions, stored, forward, minted, dropped, gone, failed>>

\* The connector ends, however, and is started again; an agent that was just told an id
\* may or may not have made the session.
StartAgain ==
  /\ Spend("restarts")
  /\ sessions' = stored /\ forward' = [c \in Convs |-> Resting] /\ dropped' = {}
  /\ \E made \in SUBSET {forward[c].id : c \in {d \in Convs : Does(d, "ask") /\ forward[d].fresh}} :
       known' = known \cup made
  /\ UNCHANGED <<stored, minted, gone, failed>>

SessionNext ==
  /\ \/ \E c \in Convs : \/ Look(c) \/ Save(c) \/ Created(c) \/ Answer(c) \/ Fail(c)
                         \/ Missing(c) \/ New(c) \/ Clear(c) \/ Delete(c)
     \/ \E i \in Ids : Forget(i)
     \/ StartAgain
  /\ UNCHANGED agent

SessionSpec == SessionInit /\ [][SessionNext]_sessionVars

-----------------------------------------------------------------------------
\* A session that was dropped is not used again; where the snapshot is written under the
\* mutex this holds after a restart too, once the file was rid of it: "The removal is
\* persisted so a restart does not resurrect the dropped session"
\* (connect_stream.go:529-539).
DroppedStaysDropped ==
  \A c \in Convs : Does(c, "ask") => forward[c].id \notin dropped \cup (IF Locked THEN gone ELSE {})

\* A turn ends in an error only when the agent failed: a session that the agent lost, or
\* never made because the connector died first, is replaced within the turn
\* (connect_stream.go:394-405; opencode may lose the new one too, connect_opencode.go:130-134).
MissingHeals == failed <= spent.faults + (IF Minted THEN 0 ELSE spent.forgets)

\* What the connector remembers of its agent's sessions: a dropped one stays dropped, and a
\* missing one costs no turn.
SessionsHold == SessionTypeOK /\ DroppedStaysDropped /\ MissingHeals
=============================================================================
