--------------------------- MODULE MCSendMessage ---------------------------
(* A small instance of SendMessage: a direct chat and a group, one sender in each. *)
EXTENDS SendMessage

CONSTANTS alice, bob, direct, group

MCUsers == {alice, bob}
MCChats == {direct, group}
MCMembership == {<<direct, alice>>, <<group, bob>>}
=============================================================================
