-------------------------- MODULE MCConnectDaemon --------------------------
(* A small instance of ConnectDaemon for TLC. *)
EXTENDS ConnectDaemon

CONSTANTS f, g, w, u
=============================================================================
