------------------------------ MODULE MCParts ------------------------------
(***************************************************************************)
(* Small instances for TLC of the parts of the event bus that share no     *)
(* state, checked in one run: the broker of a bus that was started for a   *)
(* runtime token (seeded) and of one on local OAuth (local), and the loop  *)
(* of a consumer of several subscriptions (consume).  scene says which one *)
(* is checked; the others do not move.                                     *)
(***************************************************************************)
EXTENDS RuntimeBroker, ConsumeMany, TLC

CONSTANTS h1, h2, h3, a, b, local1, local2

VARIABLE scene

\* Two hosts bring different tokens, a third repeats the first one's.
ThreeHosts == (h1 :> a) @@ (h2 :> b) @@ (h3 :> a)

Seeded == INSTANCE RuntimeBroker WITH
  LocalTokens <- {}, RequireSeed <- TRUE, RequireActivation <- TRUE, MaxGen <- 3

ScenesInit ==
  /\ scene \in {"seeded", "local", "consume"}
  /\ IF scene = "seeded" THEN Seeded!Init ELSE Init
  /\ ConsumeInit

ScenesNext ==
  \/ scene = "seeded" /\ Seeded!Next /\ UNCHANGED <<scene, consumeVars>>
  \/ scene = "local" /\ Next /\ UNCHANGED <<scene, consumeVars>>
  \/ scene = "consume" /\ ConsumeNext /\ UNCHANGED <<scene, bvars>>

Scenes == ScenesInit /\ [][ScenesNext]_<<scene, bvars, consumeVars>>
=============================================================================
