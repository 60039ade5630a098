--------------------------- MODULE MCBusSingleton ---------------------------
(* Small instances of BusSingleton for TLC. *)
EXTENDS BusSingleton, TLC

\* Daemons, clients, commands and PIDs are interchangeable within their kind.
Symmetry ==
  Permutations(Buses) \cup Permutations(Clients) \cup Permutations(Stoppers)
                      \cup Permutations(Pids)
=============================================================================
