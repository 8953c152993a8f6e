----------------------------- MODULE MCReading -----------------------------
(* A small instance of Reading: one sender in one chat, whose two requests overlap. *)
EXTENDS Reading

CONSTANTS alice, chat

OneUser == {alice}
OneChat == {chat}
Membership1 == {<<chat, alice>>}
=============================================================================
