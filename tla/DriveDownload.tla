--------------------------- MODULE DriveDownload ---------------------------
(***************************************************************************)
(* The download of a large file in parts (helpers/drive_transfer.go): a    *)
(* dispatcher hands the parts to workers, which write them to one file     *)
(* beside the destination and note them in a checkpoint that a later       *)
(* command resumes from; credentials expire and are fetched again, and may *)
(* then lead to another version of the file; the finished file is renamed, *)
(* or linked, to the destination.  Commands for one destination exclude    *)
(* each other by a lock file, which a killed one leaves behind.            *)
(*                                                                         *)
(* Content is the version that each part was written from.  All versions   *)
(* have the same length, and a credential leads to one version.            *)
(***************************************************************************)
EXTENDS Integers, Sequences

CONSTANTS
  N,            \* number of parts, at least 1
  Workers,      \* --parallel, at least one
  Reported,     \* whether the service says which version it hands out; it does or it does not
  Faults,       \* which may come, see below
  MaxVersion,   \* bound: versions of the file
  MaxRuns,      \* bound: commands
  MaxFetched    \* bound: credentials of one command that expire

ASSUME DownloadAssumption ==
  /\ N \in Nat \ {0} /\ Workers # {} /\ Reported \in BOOLEAN
  /\ MaxVersion \in Nat \ {0} /\ MaxRuns \in Nat /\ MaxFetched \in Nat

VARIABLES
  server,     \* the version of the file that the service has
  dest,       \* the destination: Absent or its content
  part,       \* <dest>.dwspart
  linked,     \* whether the two are links to one file
  meta,       \* <dest>.dwspart.meta: fingerprint and completed parts
  locked,       \* <dest>.dwspart.lock
  at,         \* where the command is
  opts,       \* its flags, and the version it was told at first, or 0
  urls,       \* the versions its credentials lead to; the last one is current
  expired,    \* how many of them have expired
  done,       \* cp.Completed
  todo,       \* parts not handed out yet
  worker,     \* of each worker: where it is, its part, credential and refreshes
  cancelled,  \* runCtx
  err,        \* firstErr
  runs

onDisk   == <<dest, part, linked, meta, locked>>
command == <<opts, urls, expired, done, todo, worker, cancelled, err>>
downloadVars   == <<server, onDisk, at, command, runs>>

Parts   == 1..N
Absent  == <<>>
Hole    == 0
Foreign == [i \in Parts |-> -1]
Empty   == [i \in Parts |-> Hole]
Gone    == [pc |-> "gone", job |-> 0, cred |-> 0, tries |-> 0]
Ready   == [Gone EXCEPT !.pc = "ready"]
NoMeta  == [fp |-> 0, done |-> {}]

Contents == [Parts -> -1..MaxVersion] \cup {Absent}

DownloadTypeOK ==
  /\ server \in 1..MaxVersion
  /\ dest \in Contents /\ part \in Contents /\ linked \in BOOLEAN
  /\ linked => dest = part
  /\ meta.fp \in 0..MaxVersion /\ meta.done \subseteq Parts
  /\ locked \in BOOLEAN
  /\ at \in {"idle", "probe", "lock", "drop", "open", "run", "wait", "publish", "unlink", "clean", "release"}
  /\ opts.version \in 0..MaxVersion
  /\ expired \in 0..Len(urls)
  /\ done \subseteq Parts /\ todo \subseteq Parts
  /\ \A w \in Workers :
       /\ worker[w].pc \in {"gone", "ready", "check", "creds", "fetch", "refresh", "mark"}
       /\ worker[w].pc \in {"check", "creds", "fetch", "refresh", "mark"} => worker[w].job \notin todo \cup done
       /\ at \notin {"run", "wait"} => worker[w] = Gone
  /\ cancelled \in BOOLEAN /\ err \in {"none", "failed", "unknown"}

NoOpts == [overwrite |-> FALSE, resume |-> TRUE, version |-> 0]
AllGone == [w \in Workers |-> Gone]

DownloadInit ==
  /\ server = 1
  /\ dest = Absent /\ part = Absent /\ linked = FALSE /\ meta = NoMeta /\ locked = FALSE
  /\ at = "idle" /\ opts = NoOpts /\ urls = <<>> /\ expired = 0 /\ done = {} /\ todo = {}
  /\ worker = AllGone /\ cancelled = FALSE /\ err = "none"
  /\ runs = 0

Goto(from, to) == at = from /\ at' = to

\* What a process knows is gone when it ends.
EndCommand ==
  /\ at' = "idle" /\ opts' = NoOpts /\ urls' = <<>> /\ expired' = 0 /\ done' = {} /\ todo' = {}
  /\ worker' = AllGone /\ cancelled' = FALSE /\ err' = "none"

Current == Len(urls)

-----------------------------------------------------------------------------
(* The command.                                                            *)

\* An existing destination is refused without --overwrite (drive.go, checkDownloadConflict).
BeginCommand ==
  /\ Goto("idle", "probe") /\ runs < MaxRuns /\ runs' = runs + 1
  /\ \E overwrite, resume \in BOOLEAN :
       /\ dest # Absent => overwrite
       /\ opts' = [overwrite |-> overwrite, resume |-> resume,
                   version |-> IF Reported THEN server ELSE 0]
  /\ urls' = <<server>> /\ expired' = 0
  /\ UNCHANGED <<server, onDisk, done, todo, worker, cancelled, err>>

\* Whether a credential fetched now is of the version the command began with.
Agrees == Reported => server = opts.version

Probed ==
  /\ Goto("probe", "lock") /\ expired < Current
  /\ UNCHANGED <<server, onDisk, command, runs>>

\* One refresh; that the version is unknown does not matter here.
ProbeAgain ==
  /\ at = "probe" /\ expired = Current /\ Current = 1 /\ Agrees
  /\ urls' = Append(urls, server)
  /\ UNCHANGED <<server, onDisk, at, opts, expired, done, todo, worker, cancelled, err, runs>>

ProbeFails ==
  /\ at = "probe" /\ EndCommand
  /\ "network" \in Faults \/ (expired = Current /\ (Current > 1 \/ ~Agrees))
  /\ UNCHANGED <<server, onDisk, runs>>

\* acquireDriveDownloadLock: O_CREATE|O_EXCL, and never waits.
TakeLock ==
  /\ Goto("lock", IF opts.resume THEN "open" ELSE "drop")
  /\ ~locked /\ locked' = TRUE
  /\ UNCHANGED <<server, dest, part, linked, meta, command, runs>>

IsLocked ==
  /\ at = "lock" /\ locked /\ EndCommand
  /\ UNCHANGED <<server, onDisk, runs>>

\* --no-resume removes the part file first, then the checkpoint.
DropPart ==
  /\ at = "drop" /\ part # Absent
  /\ part' = Absent /\ linked' = FALSE
  /\ UNCHANGED <<server, dest, meta, locked, at, command, runs>>

DropMeta ==
  /\ Goto("drop", "open") /\ part = Absent
  /\ meta' = NoMeta
  /\ UNCHANGED <<server, dest, part, linked, locked, command, runs>>

\* Mutant of Resumes: the version is not part of the fingerprint.
Resumes_AnyVersion == opts.resume /\ part # Absent

\* The checkpoint is of this version, and the file it speaks of is there.  Without a
\* version the fingerprint holds the signed URL, which is another one for every command.
Resumes == opts.resume /\ part # Absent /\ meta.fp = opts.version /\ meta.fp # 0

\* A kill between opening and truncating leaves a file that is too short: as if none.
Open ==
  /\ Goto("open", "run")
  /\ done' = IF Resumes THEN meta.done ELSE {}
  /\ todo' = Parts \ done'
  /\ part' = IF part # Absent THEN part ELSE Empty
  /\ worker' = [w \in Workers |-> Ready]
  /\ cancelled' = FALSE /\ err' = "none"
  /\ UNCHANGED <<server, dest, linked, meta, locked, opts, urls, expired, runs>>

\* The dispatcher's select: it may hand out another part although the context is done.
Dispatch(w) ==
  /\ at = "run" /\ worker[w].pc = "ready"
  /\ \E i \in todo :
       /\ \A j \in todo : i <= j
       /\ todo' = todo \ {i}
       /\ worker' = [worker EXCEPT ![w] = [Ready EXCEPT !.pc = "check", !.job = i]]
  /\ UNCHANGED <<server, onDisk, at, opts, urls, expired, done, cancelled, err, runs>>

CloseJobs ==
  /\ Goto("run", "wait") /\ (todo = {} \/ cancelled)
  /\ UNCHANGED <<server, onDisk, command, runs>>

Joined == \A w \in Workers : worker[w].pc = "gone"

\* After the join: nothing but firstErr is looked at.
Finish ==
  /\ Joined /\ err = "none"
  /\ Goto("wait", "publish")
  /\ UNCHANGED <<server, onDisk, command, runs>>

\* What was loaded is kept for the next command, unless its version is unknown.
Abandon ==
  /\ Joined /\ err # "none"
  /\ Goto("wait", "release")
  /\ IF err = "unknown"
     THEN meta' = NoMeta /\ part' = Absent /\ linked' = FALSE
     ELSE UNCHANGED <<meta, part, linked>>
  /\ UNCHANGED <<server, dest, locked, command, runs>>

\* drivePublishFile, first step: renaming one of two links to a file over the other does
\* nothing; a link never replaces a destination that has come up meanwhile.
Publish ==
  /\ at = "publish"
  /\ \/ opts.overwrite /\ dest' = part /\ at' = "clean"
        /\ IF linked THEN UNCHANGED <<part, linked>> ELSE part' = Absent /\ UNCHANGED linked
     \/ ~opts.overwrite /\ dest = Absent /\ dest' = part /\ linked' = TRUE /\ at' = "unlink"
        /\ UNCHANGED part
     \/ ~opts.overwrite /\ dest # Absent /\ at' = "release" /\ UNCHANGED <<dest, part, linked>>
  /\ UNCHANGED <<server, meta, locked, command, runs>>

Unlink ==
  /\ Goto("unlink", "clean")
  /\ part' = Absent /\ linked' = FALSE
  /\ UNCHANGED <<server, dest, meta, locked, command, runs>>

CleanUp ==
  /\ Goto("clean", "release")
  /\ meta' = NoMeta
  /\ UNCHANGED <<server, dest, part, linked, locked, command, runs>>

ReleaseLock ==
  /\ at = "release" /\ EndCommand
  /\ locked' = FALSE
  /\ UNCHANGED <<server, dest, part, linked, meta, runs>>

-----------------------------------------------------------------------------
(* The workers.                                                            *)

Running == at \in {"run", "wait"}
In(w, pc) == Running /\ worker[w].pc = pc
Move(w, state) == worker' = [worker EXCEPT ![w] = state]

\* The part file has a second name while it is linked to the destination.
Write(i, content) ==
  /\ part' = [part EXCEPT ![i] = content]
  /\ dest' = IF linked THEN part' ELSE dest
Untouched == UNCHANGED <<part, dest>>

\* The context is looked at between two parts only; a worker that finds it done says nothing.
Check(w) ==
  /\ In(w, "check")
  /\ Move(w, IF cancelled THEN Gone ELSE [worker[w] EXCEPT !.pc = "creds"])
  /\ UNCHANGED <<server, onDisk, at, opts, urls, expired, done, todo, cancelled, err, runs>>

TakeCreds(w) ==
  /\ In(w, "creds")
  /\ Move(w, [worker[w] EXCEPT !.pc = "fetch", !.cred = Current])
  /\ UNCHANGED <<server, onDisk, at, opts, urls, expired, done, todo, cancelled, err, runs>>

Fetched(w) ==
  /\ In(w, "fetch") /\ worker[w].cred > expired
  /\ Write(worker[w].job, urls[worker[w].cred])
  /\ Move(w, [worker[w] EXCEPT !.pc = "mark"])
  /\ UNCHANGED <<server, linked, meta, locked, at, opts, urls, expired, done, todo, cancelled, err, runs>>

\* Mutant of Fail: the others are not told.
Fail_Quietly(w, why) ==
  /\ Move(w, Gone)
  /\ err' = (IF err = "none" THEN why ELSE err)
  /\ UNCHANGED cancelled

Fail(w, why) ==
  /\ Move(w, Gone)
  /\ err' = (IF err = "none" THEN why ELSE err)
  /\ cancelled' = TRUE

\* After two refreshes a refusal is an error like any other.
MaxTries == 2
Refused(w) == worker[w].cred <= expired

\* Mutant of FetchFails: an answer that ends early counts as loaded.
FetchFails_Short(w) ==
  /\ In(w, "fetch") /\ "network" \in Faults /\ ~Refused(w)
  /\ Write(worker[w].job, Hole)
  /\ Move(w, [worker[w] EXCEPT !.pc = "mark"])
  /\ UNCHANGED <<server, linked, meta, locked, at, opts, urls, expired, done, todo, err, cancelled, runs>>

\* Part of the range may have been written; the retries are bounded, and abandoned when
\* the context is done.
FetchFails(w) ==
  /\ In(w, "fetch")
  /\ \/ "network" \in Faults
     \/ cancelled
     \/ Refused(w) /\ worker[w].tries = MaxTries
  /\ IF Refused(w) THEN Untouched ELSE Untouched \/ Write(worker[w].job, Hole)
  /\ \/ Fail(w, "failed")
     \/ /\ ~cancelled
        /\ Move(w, [worker[w] EXCEPT !.pc = "creds"]) /\ UNCHANGED <<err, cancelled>>
  /\ UNCHANGED <<server, linked, meta, locked, at, opts, urls, expired, done, todo, runs>>

AskAgain(w) ==
  /\ In(w, "fetch") /\ Refused(w) /\ ~cancelled /\ worker[w].tries < MaxTries
  /\ Move(w, [worker[w] EXCEPT !.pc = "refresh", !.tries = @ + 1])
  /\ UNCHANGED <<server, onDisk, at, opts, urls, expired, done, todo, cancelled, err, runs>>

\* Mutant of Refresh: the new credential is taken without looking at its version.
Refresh_Unchecked(w) ==
  /\ In(w, "refresh")
  /\ \/ /\ urls' = IF Current > worker[w].cred THEN urls ELSE Append(urls, server)
        /\ Move(w, [worker[w] EXCEPT !.pc = "creds"]) /\ UNCHANGED <<cancelled, err>>
     \/ /\ "network" \in Faults \/ cancelled
        /\ Fail(w, "failed") /\ UNCHANGED urls
  /\ UNCHANGED <<server, onDisk, at, opts, expired, done, todo, runs>>

\* Under the credentials' mutex: somebody else's refresh will do; a credential of another
\* version ends the download, one whose version is not known is kept and ends it too.
Refresh(w) ==
  /\ In(w, "refresh")
  /\ \/ Current > worker[w].cred
        /\ Move(w, [worker[w] EXCEPT !.pc = "creds"]) /\ UNCHANGED <<urls, cancelled, err>>
     \/ Current = worker[w].cred /\ Reported /\ Agrees
        /\ Move(w, [worker[w] EXCEPT !.pc = "creds"])
        /\ urls' = Append(urls, server) /\ UNCHANGED <<cancelled, err>>
     \/ Current = worker[w].cred /\ ~Reported
        /\ Fail(w, "unknown") /\ urls' = Append(urls, server)
     \/ Current = worker[w].cred /\ (~Agrees \/ "network" \in Faults \/ cancelled)
        /\ Fail(w, "failed") /\ UNCHANGED urls
  /\ UNCHANGED <<server, onDisk, at, opts, expired, done, todo, runs>>

\* cp.Completed and the checkpoint, under mu.
Mark(w) ==
  /\ In(w, "mark")
  /\ done' = done \cup {worker[w].job}
  /\ \/ /\ meta' = IF opts.resume THEN [fp |-> opts.version, done |-> done'] ELSE meta
        /\ Move(w, Ready) /\ UNCHANGED <<err, cancelled>>
     \/ "save" \in Faults /\ opts.resume /\ Fail(w, "failed") /\ UNCHANGED meta
  /\ UNCHANGED <<server, dest, part, linked, locked, at, opts, urls, expired, todo, runs>>

\* The channel is closed.
Leave(w) ==
  /\ at = "wait" /\ worker[w].pc = "ready"
  /\ Move(w, Gone)
  /\ UNCHANGED <<server, onDisk, at, opts, urls, expired, done, todo, cancelled, err, runs>>

-----------------------------------------------------------------------------
(* What else may happen: "cancel", Ctrl+C; "kill"; "kill_drop" and         *)
(* "kill_publish", a kill between the steps of --no-resume and of the      *)
(* publication; "others", who write to the destination; "network"; "save", *)
(* the checkpoint cannot be written.                                       *)

Interrupt ==
  /\ "cancel" \in Faults /\ Running /\ ~cancelled
  /\ cancelled' = TRUE
  /\ UNCHANGED <<server, onDisk, at, opts, urls, expired, done, todo, worker, err, runs>>

\* What is being fetched may be written in part; the lock stays.
Kill ==
  /\ \/ "kill" \in Faults /\ at \notin {"idle", "drop", "unlink", "clean"}
     \/ "kill_drop" \in Faults /\ at = "drop"
     \/ "kill_publish" \in Faults /\ at \in {"unlink", "clean"}
  /\ EndCommand
  /\ \/ Untouched
     \/ \E w \in Workers : worker[w].pc = "fetch" /\ Write(worker[w].job, Hole)
  /\ UNCHANGED <<server, linked, meta, locked, runs>>

\* The user believes the message, that no other download is running.
RemoveLock ==
  /\ at = "idle" /\ locked
  /\ locked' = FALSE
  /\ UNCHANGED <<server, dest, part, linked, meta, at, command, runs>>

Overwritten ==
  /\ server < MaxVersion
  /\ server' = server + 1
  /\ UNCHANGED <<onDisk, at, command, runs>>

Expire ==
  /\ (at = "probe" \/ Running)
  /\ expired < Current /\ Current < MaxFetched
  /\ expired' = expired + 1
  /\ UNCHANGED <<server, onDisk, at, opts, urls, done, todo, worker, cancelled, err, runs>>

Others ==
  /\ "others" \in Faults
  /\ dest' = IF dest = Absent THEN Foreign ELSE Absent
  /\ linked' = FALSE
  /\ UNCHANGED <<server, part, meta, locked, at, command, runs>>

DownloadNext ==
  \/ BeginCommand \/ Probed \/ ProbeAgain \/ ProbeFails \/ TakeLock \/ IsLocked \/ DropPart \/ DropMeta \/ Open
  \/ CloseJobs \/ Finish \/ Abandon \/ Publish \/ Unlink \/ CleanUp \/ ReleaseLock
  \/ \E w \in Workers :
       \/ Dispatch(w) \/ Check(w) \/ TakeCreds(w) \/ Fetched(w) \/ FetchFails(w)
       \/ AskAgain(w) \/ Refresh(w) \/ Mark(w) \/ Leave(w)
  \/ Interrupt \/ Kill \/ RemoveLock \/ Overwritten \/ Expire \/ Others

DownloadSpec == DownloadInit /\ [][DownloadNext]_downloadVars

-----------------------------------------------------------------------------
\* What the destination holds is one version of the whole file, or somebody else's; and
\* when the command was told a version, that one (drive_transfer.go:644-803).
PublishedIsWhole ==
  dest # Absent =>
    /\ \A i, j \in Parts : dest[i] = dest[j] /\ dest[i] # Hole
    /\ at \in {"unlink", "clean"} /\ opts.version # 0 => dest[1] \in {opts.version, Foreign[1]}

\* What the command counts as loaded is in the part file, all of it of one version, as long
\* as it may be published or resumed from (drive_transfer.go:587-601, 733-745).
DoneIsThere ==
  (Running /\ (err = "none" \/ opts.version # 0)) \/ at = "publish" =>
    \A i, j \in done : part[i] = part[j] /\ part[i] # Hole

\* While parts wait to be handed out and nothing has failed there is a worker to take
\* them: the dispatcher's send is never left alone (drive_transfer.go:752-766).
DispatcherIsServed ==
  at = "run" /\ todo # {} /\ ~cancelled => \E w \in Workers : worker[w].pc # "gone"

DownloadSafe == DownloadTypeOK /\ PublishedIsWhole /\ DoneIsThere /\ DispatcherIsServed
=============================================================================
