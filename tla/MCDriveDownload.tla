-------------------------- MODULE MCDriveDownload --------------------------
(* A small instance of DriveDownload for TLC. *)
EXTENDS DriveDownload, TLC

CONSTANTS w1, w2

Symmetry == Permutations(Workers)
=============================================================================
