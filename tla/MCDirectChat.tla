---------------------------- MODULE MCDirectChat ----------------------------
(* Small instances of DirectChat.  Handlers are interchangeable, and alice and bob. *)
EXTENDS DirectChat, TLC

CONSTANTS h1, h2, alice, bob, carol

TwoHandlers == {h1, h2}
TwoUsers == {alice, bob}
ThreeUsers == {alice, bob, carol}

\* Of alice and bob: one or two entries, a user twice among them.
ShortLists == {<<u>> : u \in TwoUsers} \cup (TwoUsers \X TwoUsers)
\* And a group with carol.
AllLists == ShortLists \cup {<<alice, bob, carol>>, <<bob, alice, carol>>}

Interchangeable == Permutations(TwoHandlers) \cup Permutations(TwoUsers)
=============================================================================
