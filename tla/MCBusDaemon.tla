----------------------------- MODULE MCBusDaemon -----------------------------
(***************************************************************************)
(* Small instances for TLC of a bus of one identity, checked in one run:   *)
(* two hosts that bring different tokens to a bus that was started for one *)
(* of them (handoff), and the de-duplication of what its source delivers   *)
(* (dedup).  scene says which one is checked; the other does not move.     *)
(***************************************************************************)
EXTENDS BusDaemon, EventDedup, TLC

CONSTANTS h1, h2, a, b, c1, c2, e1, e2, e3, e4, k1, k2, k3

VARIABLE scene

TwoTokens == (h1 :> a) @@ (h2 :> b)
\* Two events without an id and with the same content share a key.
SharedKeys == (e1 :> k1) @@ (e2 :> k2) @@ (e3 :> k3) @@ (e4 :> k1)

ScenesInit == scene \in {"handoff", "dedup"} /\ Init /\ DedupInit

ScenesNext ==
  \/ scene = "handoff" /\ Next /\ UNCHANGED <<scene, dedupVars>>
  \/ scene = "dedup" /\ DedupNext /\ UNCHANGED <<scene, vars>>

Scenes == ScenesInit /\ [][ScenesNext]_<<scene, vars, dedupVars>>

\* The two callbacks are interchangeable.
Symmetric == Permutations({c1, c2})
=============================================================================
