---------------------------- MODULE MCConnection ----------------------------
(* Small instances of Connection: two connections and one redisPump, a buffer of one frame. *)
EXTENDS Connection

CONSTANTS c1, c2, pump1

OneClient == {c1}
TwoClients == {c1, c2}
Asks == [c \in Clients |-> IF c = c1 THEN 2 ELSE 0]
=============================================================================
