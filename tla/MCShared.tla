------------------------------ MODULE MCShared ------------------------------
(***************************************************************************)
(* Small instances for TLC of what processes of one user share, checked in *)
(* one run: the stored login (tokens); the subscription attempts           *)
(* (attempts); the replacement of a skill set (switch), and one            *)
(* publication of it where rename replaces an empty directory (linux) and  *)
(* where it does not (macos).  scene says which one is checked; the others *)
(* do not move.                                                            *)
(***************************************************************************)
EXTENDS TokenRefresh, AttemptStore, SkillSwitch, SkillClaim, TLC

CONSTANTS t1, t2, t3, l1, l2, u1, u2, print1, print2, entry1, entry2, other

VARIABLE scene

\* Two threads of one process and a third in another one.
TwoAndOne  == (t1 :> l1) @@ (t2 :> l1) @@ (t3 :> l2)
Everything == (t1 :> {"get", "force"}) @@ (t2 :> {"login", "logout"}) @@ (t3 :> {"get", "force"})

BatchAndSingle == (u1 :> <<print1, print2>>) @@ (u2 :> <<print2>>)

Unknown  == [retry |-> "unknown", after |-> 0]
Wait     == [retry |-> "retryable", after |-> 3]
OnDemand == {Unknown, Wait}

\* Short after one failure, longer than a lease after several (attempt_store.go:593-604).
ShortThenLong(count) == IF count = 1 THEN 1 ELSE 3

ASSUME AttemptConstants
ASSUME BackupsSuffice

\* SkillClaim itself is the instance for Linux.
Macos == INSTANCE SkillClaim WITH ReplaceEmpty <- FALSE

ScenesInit ==
  /\ scene \in {"tokens", "attempts", "switch", "linux", "macos"}
  /\ Init /\ AttemptsInit /\ SwitchInit /\ ClaimInit
  /\ scene # "switch" => gone = {}

ScenesNext ==
  \/ scene = "tokens" /\ Next /\ UNCHANGED <<scene, attemptVars, switchVars, claimVars>>
  \/ scene = "attempts" /\ AttemptsNext /\ UNCHANGED <<scene, vars, switchVars, claimVars>>
  \/ scene = "switch" /\ SwitchNext /\ UNCHANGED <<scene, vars, attemptVars, claimVars>>
  \/ scene = "linux" /\ ClaimNext /\ UNCHANGED <<scene, vars, attemptVars, switchVars>>
  \/ scene = "macos" /\ Macos!ClaimNext /\ UNCHANGED <<scene, vars, attemptVars, switchVars>>

Scenes == ScenesInit /\ [][ScenesNext]_<<scene, vars, attemptVars, switchVars, claimVars>>
=============================================================================
