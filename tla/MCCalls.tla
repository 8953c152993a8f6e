------------------------------ MODULE MCCalls ------------------------------
(* A small instance of Calls: alice on two devices, or before and after a reconnection, *)
(* bob on one that alice uses too. *)
EXTENDS Calls, TLC

CONSTANTS a1, a2, b1, alice, bob

MCClients == {a1, a2, b1}
MCUsers == {alice, bob}
MCIds == {<<a1, alice>>, <<a2, alice>>, <<b1, bob>>, <<b1, alice>>}

\* Alice's two devices register the same ids: the same may happen to either.
MCSymmetry == Permutations({a1, a2})
=============================================================================
