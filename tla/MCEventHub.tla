----------------------------- MODULE MCEventHub -----------------------------
(* Small instances of EventHub for TLC. *)
EXTENDS EventHubFeed, TLC

CONSTANTS c1, s1, s2, im, sub

OneConn == {c1}

\* Every consumer wants every type.
WantsAll == [c \in Conns |-> Types]
SameSub  == [c \in Conns |-> sub]

\* The callbacks are interchangeable.
CallbackSymmetry == Permutations(Callbacks)
=============================================================================
