----------------------------- MODULE SkillSwitch -----------------------------
(***************************************************************************)
(* An upgrade replaces a set of skill directories as one operation         *)
(* (upgrade/paths.go publishStagedSkillSet, skill_publication.go): the old *)
(* ones are moved to a backup, the staged ones are published at paths that *)
(* must be free, and a failure retracts what was published and moves the   *)
(* old ones back.  Meanwhile the user, or an agent, writes to the same     *)
(* paths.                                                                  *)
(*                                                                         *)
(* A directory is an object with an identity and whether somebody edited   *)
(* it.  A rename that does not replace is atomic here, and the backups are *)
(* on the same volume; SkillClaim has the rename where it is not atomic.   *)
(***************************************************************************)
EXTENDS Integers, FiniteSets

CONSTANTS
  N,           \* how many skills are replaced, in this order
  Keep,        \* skillBackupKeep
  Earlier,     \* stamps of backups of earlier runs
  FirstSecond, \* bounds of the model: the clock
  LastSecond,
  MaxOthers,   \* bound of the model: what others do to the paths
  SwitchFaults \* the calls of the file system that may fail

ASSUME SwitchConstants ==
  /\ N \in Nat /\ Keep \in Nat /\ FirstSecond \in Nat /\ LastSecond \in Nat /\ MaxOthers \in Nat
  /\ FirstSecond <= LastSecond /\ Earlier \subseteq 0..(FirstSecond - 1)

VARIABLES
  second,      \* the second of the clock, which backup stamps are made of
  step, skill, \* where publishStagedSkillSet is, and for which skill
  dest,        \* per skill: what is at its path
  staged, quarantine,
  backup,      \* per skill: what was moved aside, with its stamp
  roots,       \* the stamps of all backups there are
  published,   \* per skill: the publication to retract
  added,       \* how many objects others have made
  gone,        \* history: the objects of others that they have removed themselves
  touched,     \* history: the skills whose path others have written to
  destroyed,   \* history: the objects that a rollback has removed
  flawed       \* history: a confirmation, a retraction or a restoration failed by itself

\* What others have done, and what the run has done that it should not.
acts == <<added, gone, touched>>
outcome == <<destroyed, flawed>>
switchVars == <<second, step, skill, dest, staged, quarantine, backup, roots, published, acts,
                outcome>>

Skills      == 1..N
Object(n)   == [id |-> n, edited |-> FALSE]
None        == Object(0)
Original(s) == Object(s)
New(s)      == Object(N + s)
Objects     == [id : 0..(2 * N + MaxOthers), edited : BOOLEAN]
NoBackup    == [object |-> None, stamp |-> 0]

SwitchTypeOK ==
  /\ second \in FirstSecond..LastSecond /\ skill \in 0..(N + 1)
  /\ step \in {"look", "move", "publish", "confirm", "check", "quarantine", "verify", "restore",
             "done", "failed", "dead"}
  /\ dest \in [Skills -> Objects] /\ staged \in [Skills -> Objects]
  /\ quarantine \in [Skills -> Objects] /\ published \in [Skills -> Objects]
  /\ backup \in [Skills -> [object : Objects, stamp : 0..LastSecond]]
  /\ roots \subseteq 0..LastSecond /\ added \in 0..MaxOthers
  /\ gone \subseteq 0..(2 * N + MaxOthers) /\ touched \subseteq Skills
  /\ destroyed \subseteq Objects /\ flawed \in BOOLEAN
  /\ (step \in {"look", "move", "publish", "confirm"} => skill >= 1)
  /\ (step \in {"move", "confirm", "quarantine", "verify"} => skill \in Skills)
  /\ (step \in {"check", "restore"} => skill <= N)

SwitchInit ==
  /\ second = FirstSecond /\ step = "look" /\ skill = 1
  /\ dest \in {d \in [Skills -> Objects] : \A s \in Skills : d[s] \in {None, Original(s)}}
  /\ staged = [s \in Skills |-> New(s)]
  /\ quarantine = [s \in Skills |-> None] /\ published = [s \in Skills |-> None]
  /\ backup = [s \in Skills |-> NoBackup] /\ roots = Earlier
  /\ added = 0 /\ gone = {s \in Skills : dest[s] = None} /\ touched = {}
  /\ destroyed = {} /\ flawed = FALSE

Proceed(to, s) == step' = to /\ skill' = s

\* restoreSkillSet: first what was published, from the last to the first.
GiveUp == Proceed("check", N)

-----------------------------------------------------------------------------
(* backupSkillSet.                                                         *)

Look ==
  /\ step = "look"
  /\ IF skill > N THEN Proceed("publish", 1)
     ELSE IF dest[skill] = None THEN Proceed("look", skill + 1) ELSE Proceed("move", skill)
  /\ UNCHANGED <<second, dest, staged, quarantine, backup, roots, published, acts, outcome>>

\* pruneSkillBackups: the newest stamps stay.
Kept(stamps) == {r \in stamps : Cardinality({q \in stamps : q >= r}) <= Keep}

\* Pruning does not know which stamps are of this run (paths.go:238): they are few enough.
BackupsSuffice == N <= Keep \/ LastSecond - FirstSecond < Keep

\* backupAndRemoveSkillDir: moved under the stamp of this second, then old stamps go.
SetAside ==
  /\ step = "move" /\ dest[skill] # None
  /\ dest' = [dest EXCEPT ![skill] = None]
  /\ roots' = Kept(roots \cup {second})
  /\ LET aside == [backup EXCEPT ![skill] = [object |-> dest[skill], stamp |-> second]]
         lost  == {s \in Skills : aside[s].object # None /\ aside[s].stamp \notin roots'}
     IN backup' = [s \in Skills |-> IF s \in lost THEN NoBackup ELSE aside[s]]
  /\ Proceed("look", skill + 1)
  /\ UNCHANGED <<second, staged, quarantine, published, acts, outcome>>

SetAsideFails ==
  /\ step = "move" /\ (dest[skill] = None \/ "move" \in SwitchFaults)
  /\ GiveUp
  /\ UNCHANGED <<second, dest, staged, quarantine, backup, roots, published, acts, outcome>>

-----------------------------------------------------------------------------
(* PublishSkillPathNoReplace.                                              *)

\* Mutant of Publish: the rename replaces what has come there since the backup.
Publish_Replaces ==
  /\ step = "publish" /\ skill <= N
  /\ dest' = [dest EXCEPT ![skill] = staged[skill]] /\ staged' = [staged EXCEPT ![skill] = None]
  /\ Proceed("confirm", skill)
  /\ UNCHANGED <<second, quarantine, backup, roots, published, acts, outcome>>

Publish ==
  /\ step = "publish" /\ skill <= N /\ dest[skill] = None
  /\ dest' = [dest EXCEPT ![skill] = staged[skill]] /\ staged' = [staged EXCEPT ![skill] = None]
  /\ Proceed("confirm", skill)
  /\ UNCHANGED <<second, quarantine, backup, roots, published, acts, outcome>>

PublishFails ==
  /\ step = "publish" /\ skill <= N /\ (dest[skill] # None \/ "publish" \in SwitchFaults)
  /\ GiveUp
  /\ UNCHANGED <<second, dest, staged, quarantine, backup, roots, published, acts, outcome>>

\* Mutant of Confirm: the publication is not recorded.
Confirm_Forgets ==
  /\ step = "confirm" /\ dest[skill] = New(skill)
  /\ Proceed("publish", skill + 1)
  /\ UNCHANGED <<second, dest, staged, quarantine, backup, roots, published, acts, outcome>>

\* Identity and fingerprint are those of what was staged.
Confirm ==
  /\ step = "confirm" /\ dest[skill] = New(skill)
  /\ published' = [published EXCEPT ![skill] = dest[skill]]
  /\ Proceed("publish", skill + 1)
  /\ UNCHANGED <<second, dest, staged, quarantine, backup, roots, acts, outcome>>

\* Somebody was there already, or it cannot be read: it is kept and not retracted.
ConfirmFails ==
  /\ step = "confirm" /\ (dest[skill] # New(skill) \/ "confirm" \in SwitchFaults)
  /\ flawed' = (flawed \/ dest[skill] = New(skill))
  /\ GiveUp
  /\ UNCHANGED <<second, dest, staged, quarantine, backup, roots, published, acts, destroyed>>

\* The deferred removal of the staging directory comes with the return.
Done ==
  /\ step = "publish" /\ skill > N
  /\ Proceed("done", skill)
  /\ staged' = [s \in Skills |-> None]
  /\ UNCHANGED <<second, dest, quarantine, backup, roots, published, acts, outcome>>

-----------------------------------------------------------------------------
(* restoreSkillSet.                                                        *)

\* rollbackSkillPathPublication: what is not there, or not ours any more, is left alone.
StillOurs == published[skill] # None /\ dest[skill] = published[skill]

Check ==
  /\ step = "check"
  /\ \/ skill = 0 /\ Proceed("restore", N) /\ UNCHANGED flawed
     \/ skill > 0 /\ StillOurs /\ Proceed("quarantine", skill) /\ UNCHANGED flawed
     \/ skill > 0 /\ ~StillOurs /\ Proceed("check", skill - 1) /\ UNCHANGED flawed
     \/ /\ skill > 0 /\ StillOurs /\ "rollback" \in SwitchFaults
        /\ Proceed("check", skill - 1) /\ flawed' = TRUE
  /\ UNCHANGED <<second, dest, staged, quarantine, backup, roots, published, acts, destroyed>>

\* Whatever is at the path now is taken.
Quarantine ==
  /\ step = "quarantine"
  /\ IF dest[skill] = None THEN Proceed("check", skill - 1) ELSE Proceed("verify", skill)
  /\ quarantine' = [quarantine EXCEPT ![skill] = dest[skill]]
  /\ dest' = [dest EXCEPT ![skill] = None]
  /\ UNCHANGED <<second, staged, backup, roots, published, acts, outcome>>

\* Mutant of Verify: the check before the rename was enough.
Verify_Trusts ==
  /\ step = "verify"
  /\ destroyed' = destroyed \cup {quarantine[skill]}
  /\ quarantine' = [quarantine EXCEPT ![skill] = None]
  /\ Proceed("check", skill - 1)
  /\ UNCHANGED <<second, dest, staged, backup, roots, published, acts, flawed>>

\* Checked again where nobody else writes: removed, put back, or kept in the quarantine.
Verify ==
  /\ step = "verify"
  /\ \/ /\ quarantine[skill] = published[skill]
        /\ destroyed' = destroyed \cup {quarantine[skill]}
        /\ quarantine' = [quarantine EXCEPT ![skill] = None]
        /\ UNCHANGED dest
     \/ /\ quarantine[skill] # published[skill] /\ dest[skill] = None
        /\ dest' = [dest EXCEPT ![skill] = quarantine[skill]]
        /\ quarantine' = [quarantine EXCEPT ![skill] = None]
        /\ UNCHANGED destroyed
     \/ /\ quarantine[skill] # published[skill] /\ dest[skill] # None
        /\ UNCHANGED <<dest, quarantine, destroyed>>
  /\ Proceed("check", skill - 1)
  /\ UNCHANGED <<second, staged, backup, roots, published, acts, flawed>>

\* A backup goes back to its path if that is free, else it stays a backup.
Restore ==
  /\ step = "restore" /\ skill > 0
  /\ \/ /\ backup[skill].object # None /\ dest[skill] = None
        /\ dest' = [dest EXCEPT ![skill] = backup[skill].object]
        /\ backup' = [backup EXCEPT ![skill] = NoBackup]
        /\ UNCHANGED flawed
     \/ /\ backup[skill].object = None \/ dest[skill] # None
        /\ UNCHANGED <<dest, backup, flawed>>
     \/ /\ backup[skill].object # None /\ dest[skill] = None /\ "restore" \in SwitchFaults
        /\ flawed' = TRUE
        /\ UNCHANGED <<dest, backup>>
  /\ Proceed("restore", skill - 1)
  /\ UNCHANGED <<second, staged, quarantine, roots, published, acts, destroyed>>

Failed ==
  /\ step = "restore" /\ skill = 0
  /\ Proceed("failed", 0)
  /\ staged' = [s \in Skills |-> None]
  /\ UNCHANGED <<second, dest, quarantine, backup, roots, published, acts, outcome>>

-----------------------------------------------------------------------------
(* The world.                                                              *)

SwitchDies ==
  /\ step \notin {"done", "failed", "dead"} /\ "crash" \in SwitchFaults
  /\ Proceed("dead", skill)
  /\ UNCHANGED <<second, dest, staged, quarantine, backup, roots, published, acts, outcome>>

\* Copying and renaming take time.
SecondPasses ==
  /\ second < LastSecond /\ second' = second + 1
  /\ UNCHANGED <<step, skill, dest, staged, quarantine, backup, roots, published, acts,
                 outcome>>

\* Others create, replace, edit or remove what is at the path of a skill.
Others(s) ==
  /\ step \notin {"done", "failed", "dead"}
  /\ \/ /\ added < MaxOthers /\ added' = added + 1
        /\ dest' = [dest EXCEPT ![s] = Object(2 * N + added')]
     \/ /\ dest[s] # None /\ added' = added
        /\ dest' = [dest EXCEPT ![s] = None]
     \/ /\ dest[s] # None /\ added' = added
        /\ dest' = [dest EXCEPT ![s].edited = TRUE]
  /\ gone' = IF dest'[s].id # dest[s].id THEN gone \cup {dest[s].id} ELSE gone
  /\ touched' = touched \cup {s}
  /\ UNCHANGED <<second, step, skill, staged, quarantine, backup, roots, published, outcome>>

SwitchNext ==
  \/ Look \/ SetAside \/ SetAsideFails
  \/ Publish \/ PublishFails \/ Confirm \/ ConfirmFails \/ Done
  \/ Check \/ Quarantine \/ Verify \/ Restore \/ Failed
  \/ SwitchDies \/ SecondPasses \/ (\E s \in Skills : Others(s))

SwitchSpec == SwitchInit /\ [][SwitchNext]_switchVars

-----------------------------------------------------------------------------
(* Properties.                                                             *)

\* A rollback removes only what this run published and nobody has edited, replaced or put
\* there since, however late they do it (skill_publication.go:102-105, 130-169).
OnlyOwnDestroyed == \A o \in destroyed : \E s \in Skills : o = New(s)

\* What was there before, and what others put there, is never lost: it is at its path, in
\* the backup or in a quarantine unless they removed it themselves, after failures and
\* crashes too (paths.go:616-618, skill_publication.go:152-179).
NothingLost ==
  \A n \in Skills \cup {2 * N + k : k \in 1..added} :
    \/ n \in gone
    \/ \E s \in Skills : n \in {dest[s].id, backup[s].object.id, quarantine[s].id}

\* The paths that nobody else has touched change together: all new when the run succeeds,
\* all as before when it fails, unless a retraction fails as well (paths.go:620-621).
AllOrNothing ==
  \A s \in Skills \ touched :
    /\ step = "done" => dest[s] = New(s)
    /\ step = "failed" /\ ~flawed => dest[s] = IF s \in gone THEN None ELSE Original(s)

\* A rollback removes nothing that others have made or edited, whatever was at a path is
\* there, in a backup or in quarantine, and after a failure the paths nobody touched are
\* as they were (skill_publication.go:102-182, paths.go:584-641).
SwitchSafe == SwitchTypeOK /\ OnlyOwnDestroyed /\ NothingLost /\ AllOrNothing
=============================================================================
