------------------------------- MODULE MCBus -------------------------------
(***************************************************************************)
(* Small instances for TLC of the safety of a bus, checked in one run: its *)
(* hub, with one slow consumer (push), and its handshakes where no seed is *)
(* required, for a host and a consumer without a token (mixed).  scene     *)
(* says which one is checked; the other does not move.                     *)
(***************************************************************************)
EXTENDS MCEventHub

CONSTANTS h, p, a, NoToken, Free

VARIABLES
  scene,
  token, generation, active, signals, hostAt, known, source, back, noticed, used, verdict,
  revoked, stage, arriving, members, registered, acked, told, heard, present,
  gate, rejected, progress, why, accepting, stopReq                          \* BusDaemon

daemon == <<token, generation, active, signals, hostAt, known, source, back, noticed, used,
            verdict, revoked, stage, arriving, members, registered, acked, told, heard,
            present, gate, rejected, progress, why, accepting, stopReq>>

\* Nobody need bring a token, and one consumer does not.
Mixed == INSTANCE BusDaemon WITH
  Hosts <- {h}, TokenOf <- h :> a, Plain <- {p}, LocalTokens <- {}, RequireSeed <- FALSE,
  RequireActivation <- FALSE, MaxGen <- 1, at <- source, conn <- stage, consumers <- members,
  terminal <- rejected, run <- progress

ScenesInit == scene \in {"push", "mixed"} /\ Init /\ Mixed!Init

ScenesNext ==
  \/ scene = "push" /\ Next /\ UNCHANGED <<scene, daemon>>
  \/ scene = "mixed" /\ Mixed!Next /\ UNCHANGED <<scene, vars>>

Scenes == ScenesInit /\ [][ScenesNext]_<<scene, vars, daemon>>

-----------------------------------------------------------------------------
\* BusDaemon's DaemonSafe, for a bus that requires no seed and so takes consumers without a
\* token too (daemon.go:427-517, 257-276).
MixedBusIsSafe == scene = "mixed" => Mixed!DaemonSafe
=============================================================================
