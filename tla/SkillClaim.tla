----------------------------- MODULE SkillClaim -----------------------------
(***************************************************************************)
(* How a staged directory is published where the file system has no rename *)
(* that does not replace (upgrade/skill_publish_rename.go): mkdir claims   *)
(* the destination, then the staged directory is renamed over the claim,   *)
(* or its entries are moved into it one by one; a failure moves them back. *)
(* Afterwards the caller confirms what it published and, in any case,      *)
(* removes the staging directory.  Others write to the destination.        *)
(*                                                                         *)
(* Entries are files or links; a nested directory is published by the same *)
(* steps one level down.                                                   *)
(***************************************************************************)
EXTENDS Integers, FiniteSets

CONSTANTS
  Names,        \* the entries of the staged directory
  OtherNames,   \* names that only others use
  ReplaceEmpty, \* whether rename replaces an empty directory: Linux does, macOS does not
  MaxForeign,   \* bound of the model: the entries and directories others make
  ClaimFaults   \* calls that fail: linking an entry, removing its source, the staged directory or
                \* the claim, setting the mode, moving an entry back

ASSUME ClaimConstants ==
  MaxForeign \in Nat /\ ReplaceEmpty \in BOOLEAN /\ Names \cap OtherNames = {}

VARIABLES
  claiming,
  source,      \* the staged directory: what each name is
  dir,         \* which directory is at the destination
  entries,     \* what each name in it is
  moved,       \* the entries that were moved into the claim
  failed,      \* moveSkillDirChildrenIntoClaim is on its way back
  claimed,     \* the identity that was read after mkdir, which directory it is; none: no witness
  foreign,     \* how much others have made
  alive,       \* history: what others wrote, and where, that they did not remove themselves
  interfered,  \* history: others have written to the destination
  early,       \* history: they replaced the claim before its identity was read
  late,        \* history: they replaced it after its identity was compared
  stuck        \* history: a removal or the way back failed

outside == <<foreign, alive, interfered, early, late>>
claimVars == <<claiming, source, dir, entries, moved, failed, claimed, stuck, outside>>

\* What a name is: nothing, the staged entry, or the k-th thing that others made.
Nothing == 0
Ours    == -1
Things  == -1..MaxForeign
AllNames == Names \cup OtherNames
Empty   == [n \in AllNames |-> Nothing]
Staged  == [n \in AllNames |-> IF n \in Names THEN Ours ELSE Nothing]
Used(e) == {n \in AllNames : e[n] # Nothing}

\* Which directory: none, the claim, the staged one, or the k-th thing that others made.
NoDir     == 0
ClaimDir     == -1
StagedDir == -2

ClaimTypeOK ==
  /\ claiming \in {"mkdir", "identify", "rename", "read", "move", "reread", "chmod", "back", "unclaim",
                   "rmdir", "shell", "identity", "confirm", "published", "uncertain", "failed"}
  /\ source \in [AllNames -> Things] /\ entries \in [AllNames -> Things]
  /\ dir \in -2..MaxForeign /\ (dir = NoDir => entries = Empty)
  /\ moved \subseteq Names /\ failed \in BOOLEAN /\ claimed \in -2..MaxForeign
  /\ foreign \in 0..MaxForeign /\ alive \subseteq (1..MaxForeign) \X AllNames
  /\ {interfered, early, late, stuck} \subseteq BOOLEAN
  /\ ~interfered => dir \in {NoDir, ClaimDir, StagedDir} /\ Used(entries) \subseteq Names

ClaimInit ==
  /\ claiming = "mkdir" /\ source = Staged /\ dir = NoDir /\ entries = Empty
  /\ moved = {} /\ failed = FALSE /\ claimed = NoDir /\ stuck = FALSE
  /\ foreign = 0 /\ alive = {} /\ interfered = FALSE /\ early = FALSE /\ late = FALSE

-----------------------------------------------------------------------------
(* renameSkillDirNoReplaceFallback.                                        *)

\* The return that deletes the staging directory.
ReturnAs(how) == claiming' = how /\ source' = Empty

Mkdir ==
  /\ claiming = "mkdir"
  /\ IF dir = NoDir THEN claiming' = "identify" /\ dir' = ClaimDir /\ UNCHANGED source
                    ELSE ReturnAs("failed") /\ UNCHANGED dir
  /\ UNCHANGED <<entries, moved, failed, claimed, stuck, outside>>

\* The claim's identity is read by its path: it is that of what is there now.
Identify ==
  /\ claiming = "identify"
  /\ claimed' = dir /\ claiming' = "rename"
  /\ UNCHANGED <<source, dir, entries, moved, failed, stuck, outside>>

\* Linux: over an empty directory, whoever made it, or to where there is none any more.
FastRename ==
  /\ claiming = "rename"
  /\ dir = NoDir \/ (ReplaceEmpty /\ entries = Empty)
  /\ dir' = StagedDir /\ entries' = source /\ source' = Empty
  /\ claiming' = "identity" /\ claimed' = NoDir
  /\ UNCHANGED <<moved, failed, stuck, outside>>

RenameRefused ==
  /\ claiming = "rename" /\ dir # NoDir /\ (~ReplaceEmpty \/ entries # Empty)
  /\ claiming' = "read"
  /\ UNCHANGED <<source, dir, entries, moved, failed, claimed, stuck, outside>>

\* Only an empty claim is moved into; one that cannot be read is removed if it is empty.
ReadClaim ==
  /\ claiming = "read"
  /\ \/ dir = NoDir /\ claiming' = "unclaim" /\ UNCHANGED source
     \/ dir # NoDir /\ entries = Empty /\ claiming' = "move" /\ UNCHANGED source
     \/ entries # Empty /\ ReturnAs("failed")
  /\ UNCHANGED <<dir, entries, moved, failed, claimed, stuck, outside>>

\* Mutant of MoveEntry: the name may be taken.
MoveEntry_Replaces(n) ==
  /\ claiming = "move" /\ n \in Names \ moved /\ dir # NoDir
  /\ entries' = [entries EXCEPT ![n] = source[n]] /\ source' = [source EXCEPT ![n] = Nothing]
  /\ moved' = moved \cup {n}
  /\ UNCHANGED <<claiming, dir, failed, claimed, stuck, outside>>

\* link, which fails if the name is taken, and the removal of its source.
MoveEntry(n) ==
  /\ claiming = "move" /\ n \in Names \ moved /\ dir # NoDir /\ entries[n] = Nothing
  /\ entries' = [entries EXCEPT ![n] = source[n]] /\ source' = [source EXCEPT ![n] = Nothing]
  /\ moved' = moved \cup {n}
  /\ UNCHANGED <<claiming, dir, failed, claimed, stuck, outside>>

MoveFails(n) ==
  /\ claiming = "move" /\ n \in Names \ moved
  /\ dir = NoDir \/ entries[n] # Nothing \/ "entry" \in ClaimFaults
  /\ claiming' = "back" /\ failed' = TRUE
  /\ UNCHANGED <<source, dir, entries, moved, claimed, stuck, outside>>

\* The entry is linked but its source is not removed: it is not one of those that are moved
\* back.  Of a nested directory the source is what is left, its emptied shell.
EntryStays(n) ==
  /\ claiming = "move" /\ n \in Names \ moved /\ dir # NoDir /\ entries[n] = Nothing
  /\ "remove" \in ClaimFaults
  /\ entries' = [entries EXCEPT ![n] = source[n]]
  /\ source' \in {source, [source EXCEPT ![n] = Nothing]}
  /\ claiming' = "back" /\ failed' = TRUE /\ stuck' = TRUE
  /\ UNCHANGED <<dir, moved, claimed, outside>>

AllMoved ==
  /\ claiming = "move" /\ moved = Names
  /\ claiming' = "reread"
  /\ UNCHANGED <<source, dir, entries, moved, failed, claimed, stuck, outside>>

\* More entries than there were staged: somebody else has been here.
Reread ==
  /\ claiming = "reread"
  /\ IF dir # NoDir /\ Cardinality(Used(entries)) <= Cardinality(Names)
       THEN claiming' = "chmod" /\ UNCHANGED failed
       ELSE claiming' = "back" /\ failed' = TRUE
  /\ UNCHANGED <<source, dir, entries, moved, claimed, stuck, outside>>

Chmod ==
  /\ claiming = "chmod"
  /\ \/ dir # NoDir /\ claiming' = "shell" /\ UNCHANGED failed
     \/ (dir = NoDir \/ "chmod" \in ClaimFaults) /\ claiming' = "back" /\ failed' = TRUE
  /\ UNCHANGED <<source, dir, entries, moved, claimed, stuck, outside>>

\* The emptied staged directory is removed; the claim's identity is the witness.
RemoveShell ==
  /\ claiming = "shell"
  /\ claiming' = "identity"
  /\ UNCHANGED <<source, dir, entries, moved, failed, claimed, stuck, outside>>

\* It is not empty, or cannot be removed: an error, without a way back.
ShellStays ==
  /\ claiming = "shell" /\ "shell" \in ClaimFaults
  /\ ReturnAs("failed") /\ stuck' = TRUE
  /\ UNCHANGED <<dir, entries, moved, failed, claimed, outside>>

\* Mutant of MoveBack: the entries that were moved are not moved back.
MoveBack_Not(n) ==
  /\ claiming = "back" /\ n \in moved
  /\ moved' = moved \ {n}
  /\ UNCHANGED <<claiming, source, dir, entries, failed, claimed, stuck, outside>>

\* rollback: the entry that has the name now goes back to the staged directory.
MoveBack(n) ==
  /\ claiming = "back" /\ n \in moved
  /\ source' = [source EXCEPT ![n] = entries[n]] /\ entries' = [entries EXCEPT ![n] = Nothing]
  /\ moved' = moved \ {n}
  /\ UNCHANGED <<claiming, dir, failed, claimed, stuck, outside>>

\* The error is joined to the one that is returned.
BackFails(n) ==
  /\ claiming = "back" /\ n \in moved /\ "back" \in ClaimFaults
  /\ moved' = moved \ {n} /\ stuck' = TRUE
  /\ UNCHANGED <<claiming, source, dir, entries, failed, claimed, outside>>

AllBack ==
  /\ claiming = "back" /\ moved = {}
  /\ claiming' = "unclaim"
  /\ UNCHANGED <<source, dir, entries, moved, failed, claimed, stuck, outside>>

\* removeClaimIfEmpty reads ...
Unclaim ==
  /\ claiming = "unclaim"
  /\ IF dir # NoDir /\ entries = Empty THEN claiming' = "rmdir" /\ UNCHANGED source
                                      ELSE ReturnAs("failed")
  /\ UNCHANGED <<dir, entries, moved, failed, claimed, stuck, outside>>

\* Mutant of Rmdir: the claim is removed with what is in it.
Rmdir_All ==
  /\ claiming = "rmdir"
  /\ dir' = NoDir /\ entries' = Empty
  /\ ReturnAs("failed")
  /\ UNCHANGED <<moved, failed, claimed, stuck, outside>>

\* ... and removes, which fails if it is not empty any more.
Rmdir ==
  /\ claiming = "rmdir"
  /\ \/ dir' = (IF entries = Empty THEN NoDir ELSE dir) /\ UNCHANGED stuck
     \/ "rmdir" \in ClaimFaults /\ stuck' = TRUE /\ UNCHANGED dir
  /\ ReturnAs("failed")
  /\ UNCHANGED <<entries, moved, failed, claimed, outside>>

-----------------------------------------------------------------------------
(* PublishSkillPathNoReplace, after the rename.                            *)

\* Mutant of Identity: the claim's identity is not compared.
Identity_Not ==
  /\ claiming = "identity"
  /\ claiming' = "confirm"
  /\ UNCHANGED <<source, dir, entries, moved, failed, claimed, stuck, outside>>

\* The witness says whether the destination is still what was read after mkdir.
Identity ==
  /\ claiming = "identity"
  /\ IF claimed # NoDir /\ dir \notin {NoDir, claimed}
       THEN ReturnAs("uncertain")
       ELSE claiming' = "confirm" /\ UNCHANGED source
  /\ UNCHANGED <<dir, entries, moved, failed, claimed, stuck, outside>>

\* Without a witness it must be the staged directory itself; the content must be the staged one.
ConfirmContent ==
  /\ claiming = "confirm"
  /\ ReturnAs(IF dir # NoDir /\ (claimed # NoDir \/ dir = StagedDir) /\ entries = Staged
              THEN "published" ELSE "failed")
  /\ UNCHANGED <<dir, entries, moved, failed, claimed, stuck, outside>>

-----------------------------------------------------------------------------
(* Others.                                                                 *)

ClaimEnded == claiming \in {"published", "uncertain", "failed"}

\* They make an entry, in the place of what has the name now.
WriteEntry(n) ==
  /\ ~ClaimEnded /\ dir # NoDir /\ foreign < MaxForeign
  /\ foreign' = foreign + 1
  /\ entries' = [entries EXCEPT ![n] = foreign']
  /\ alive' = (alive \ {<<entries[n], n>>}) \cup {<<foreign', n>>}
  /\ interfered' = TRUE
  /\ UNCHANGED <<claiming, source, dir, moved, failed, claimed, early, late, stuck>>

DeleteEntry(n) ==
  /\ ~ClaimEnded /\ entries[n] # Nothing
  /\ entries' = [entries EXCEPT ![n] = Nothing]
  /\ alive' = alive \ {<<entries[n], n>>}
  /\ interfered' = TRUE
  /\ UNCHANGED <<claiming, source, dir, moved, failed, claimed, foreign, early, late, stuck>>

\* They remove the directory with its entries, or put one of their own in its place.
DeleteDir ==
  /\ ~ClaimEnded /\ dir # NoDir
  /\ dir' = NoDir /\ entries' = Empty
  /\ alive' = alive \ {<<entries[n], n>> : n \in AllNames}
  /\ interfered' = TRUE
  /\ UNCHANGED <<claiming, source, moved, failed, claimed, foreign, early, late, stuck>>

\* Theirs is empty, or another run has published the same skill.
MakeDir ==
  /\ ~ClaimEnded /\ dir = NoDir /\ foreign < MaxForeign
  /\ foreign' = foreign + 1
  /\ dir' = foreign' /\ entries' \in {Empty, Staged}
  /\ interfered' = TRUE /\ early' = (early \/ claiming = "identify")
  /\ late' = (claiming = "confirm")
  /\ UNCHANGED <<claiming, source, moved, failed, claimed, alive, stuck>>

ClaimNext ==
  \/ Mkdir \/ Identify \/ FastRename \/ RenameRefused \/ ReadClaim
  \/ \E n \in Names : MoveEntry(n) \/ MoveFails(n) \/ EntryStays(n) \/ MoveBack(n) \/ BackFails(n)
  \/ AllMoved \/ Reread \/ Chmod \/ RemoveShell \/ ShellStays \/ AllBack \/ Unclaim \/ Rmdir
  \/ Identity \/ ConfirmContent
  \/ (\E n \in AllNames : WriteEntry(n) \/ DeleteEntry(n)) \/ DeleteDir \/ MakeDir

ClaimSpec == ClaimInit /\ [][ClaimNext]_claimVars

-----------------------------------------------------------------------------
(* Properties.                                                             *)

\* Moving entries into the claim, renaming over it and removing it never lose an entry that
\* others wrote: until entries are moved back each is where they put it
\* (skill_publish_rename.go:78-85, 154-160).
ForwardLosesNothing == ~failed => \A a \in alive : entries[a[2]] = a[1]

\* An entry under a name that is not one of the staged ones survives a failed publication
\* too: the claim is not removed with it (skill_publish_rename.go:83-85, 187-205).
OtherNamesSurvive == \A a \in alive : a[2] \in OtherNames => entries[a[2]] = a[1]

\* A directory that others put in the place of the claim is not taken for the published one,
\* even when it has the same content: what is published is the staged directory or the one
\* whose identity was read after mkdir, unless it came after that was compared; and the
\* one that was read is the claim, unless it came between mkdir and the reading
\* (skill_publish_rename.go:99-104, 117-120; skill_publication.go:60-71).
ReplacedIsNotPublished ==
  claiming = "published" =>
    /\ dir \in {StagedDir, claimed} \/ late
    /\ claimed \in {NoDir, ClaimDir} \/ early

\* When nobody else was there a failure loses none of the staged entries; unless a removal or
\* the way back failed too it leaves nothing behind at the destination, and what was
\* staged is whole again (skill_publish_rename.go:144-150, 212-215).
FailureLeavesNothing ==
  ~interfered =>
    /\ claiming \in {"unclaim", "rmdir"} =>
         IF stuck THEN \A n \in Names : Ours \in {source[n], entries[n]} ELSE source = Staged
    /\ claiming = "failed" /\ ~stuck => dir = NoDir

\* Until entries are moved back, what others wrote is where they put it; a failure leaves
\* the entries whose names are not staged, and, where nothing failed on the way back, nothing
\* of its own; a directory in the place of the claim is not taken for it
\* (skill_publish_rename.go:78-215).
ClaimSafe ==
  ClaimTypeOK /\ ForwardLosesNothing /\ OtherNamesSurvive /\ ReplacedIsNotPublished
    /\ FailureLeavesNothing
=============================================================================
