----------------------------- MODULE MCBackend -----------------------------
(* A small instance of Backend: one message to one chat, one worker or two, one connection. *)
EXTENDS Backend

CONSTANTS alice, c1, chat, w1, w2

OneUser == {alice}
OneChat == {chat}
Membership1 == {<<chat, alice>>}
OneWorker == {w1}
TwoWorkers == {w1, w2}
OneClient == {c1}
EveryoneAlice == [c \in Clients |-> alice]
=============================================================================
