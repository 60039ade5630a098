----------------------------- MODULE MCStores -----------------------------
(***************************************************************************)
(* Small instances for TLC of what several processes keep on disk, checked *)
(* in one run: the lock file and the socket of a bus (serve), the          *)
(* audit log (audit), and the file that a download in parts is written     *)
(* to, by a service that names versions (versions) and by one that does    *)
(* not (nameless).  scene says which one is checked; the others do not     *)
(* move.                                                                   *)
(***************************************************************************)
EXTENDS BusSingleton, DriveDownload, AuditChain, TLC

CONSTANTS w1, w2

VARIABLE scene

\* A service that names no versions, and one command: nothing resumes from it.
Nameless == INSTANCE DriveDownload WITH Reported <- FALSE

ScenesInit ==
  /\ scene \in {"serve", "audit", "versions", "nameless"}
  /\ Init /\ AuditInit /\ DownloadInit
  /\ scene # "audit" => today = 1

ScenesNext ==
  \/ scene = "serve" /\ Next /\ UNCHANGED <<scene, auditVars, downloadVars>>
  \/ scene = "audit" /\ AuditNext /\ UNCHANGED <<scene, vars, downloadVars>>
  \/ scene = "versions" /\ DownloadNext /\ UNCHANGED <<scene, vars, auditVars>>
  \/ scene = "nameless" /\ Nameless!DownloadNext /\ runs' <= 1 /\ UNCHANGED <<scene, vars, auditVars>>

Scenes == ScenesInit /\ [][ScenesNext]_<<scene, vars, auditVars, downloadVars>>

\* Daemons, clients, and writers or workers are interchangeable within their kind.
Symmetry == Permutations(Buses) \cup Permutations(Clients) \cup Permutations(Workers)
=============================================================================
