----------------------------- MODULE MCRoomHub -----------------------------
(* Small instances of RoomHub. *)
EXTENDS RoomHub

CONSTANTS c1, c2, r1, r2

TwoClients == {c1, c2}
Everyone == Clients \X Chats
=============================================================================
