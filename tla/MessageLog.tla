----------------------------- MODULE MessageLog -----------------------------
(***************************************************************************)
(* The messages of one chat as its readers see them: what SendMessage and  *)
(* the deletion of the chat do to them, with everything else left out.     *)
(* SendMessage is shown to implement this module for every chat, and       *)
(* MessageHistory reads from it.                                           *)
(*                                                                         *)
(* The sequence behind messages.seq serves all chats and is not            *)
(* transactional.  A message becomes visible when its transaction commits, *)
(* and transactions commit in any order.                                   *)
(***************************************************************************)
EXTENDS Naturals

VARIABLES
  drawn,   \* the last seq drawn from the sequence
  open,    \* seqs of this chat's messages in transactions that have not ended
  stored,  \* seqs of this chat's committed messages
  exists   \* the chat has not been deleted

vars == <<drawn, open, stored, exists>>

Init ==
  /\ drawn = 0
  /\ open = {}
  /\ stored = {}
  /\ exists = TRUE

\* A seq goes to a message of another chat, or is lost to a failed or conflicting INSERT.
Burn ==
  /\ drawn' = drawn + 1
  /\ UNCHANGED <<open, stored, exists>>

\* A transaction inserts a message of this chat, and draws its seq: an INSERT that waits
\* for a client message id counts as open from then on.
Insert ==
  /\ exists
  /\ drawn' = drawn + 1
  /\ open' = open \cup {drawn + 1}
  /\ UNCHANGED <<stored, exists>>

Commit(s) ==
  /\ s \in open
  /\ open' = open \ {s}
  /\ stored' = stored \cup {s}
  /\ UNCHANGED <<drawn, exists>>

Abort(s) ==
  /\ s \in open
  /\ open' = open \ {s}
  /\ UNCHANGED <<drawn, stored, exists>>

\* The chat is deleted with its messages, which no open transaction is adding to.
Clear ==
  /\ exists
  /\ open = {}
  /\ stored' = {}
  /\ exists' = FALSE
  /\ UNCHANGED <<drawn, open>>

Next ==
  \/ Burn
  \/ Insert
  \/ \E s \in open : Commit(s) \/ Abort(s)
  \/ Clear

Spec == Init /\ [][Next]_vars

=============================================================================
