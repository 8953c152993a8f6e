-------------------------- MODULE MCMessageHistory --------------------------
(* A small instance of MessageHistory: a limit that is absent, one below the maximum and *)
(* one above it. *)
EXTENDS MessageHistory

MCLimits == {0, 1, 9}
=============================================================================
