------------------------------ MODULE Reading ------------------------------
(***************************************************************************)
(* Clients that page through one chat, or follow it by resync, while the   *)
(* handlers of SendMessage write to it and its deletion may come: what     *)
(* MessageHistory studies over the abstract MessageLog, over the tables    *)
(* that SendMessage really fills.                                          *)
(***************************************************************************)
EXTENDS SendMessage, Integers

CONSTANTS
  Chat,                                                              \* the chat
  Readers, Syncers, Limits, DefaultLimit, MaxLimit, ResyncLimit      \* MessageHistory

VARIABLES
  overtaken, walk, sync,  \* MessageHistory, but for the log
  answered                \* messages of the chat that had been answered to their senders
                          \* when each reader began

readerVars == <<overtaken, walk, sync, answered>>

Stored == {s \in DOMAIN messages : messages[s].chat = Chat}

History == INSTANCE MessageHistory WITH
  MaxSeq <- MaxCalls,
  drawn <- lastSeq,
  open <- {call[h].seq : h \in {g \in Writers : call[g].chat = Chat}},
  stored <- Stored,
  exists <- Chat \in chats

ReadingAssumption ==
  /\ Chat \in Chats
  /\ Limits \subseteq Int
  /\ MaxLimit \in Nat
  /\ DefaultLimit \in 1 .. MaxLimit
  /\ ResyncLimit \in Nat \ {0}

ReadingInit ==
  /\ Init
  /\ History!Init
  /\ answered = [r \in Readers |-> {}]

\* A handler's statement or a deletion; a commit may come after that of a higher seq.
Changes ==
  /\ Next
  /\ overtaken' = overtaken \cup {s \in Stored' \ Stored : \E t \in Stored : t > s}
  /\ UNCHANGED <<walk, sync, answered>>

\* A reader begins, with what was answered by then.
Begins(r, limit) ==
  /\ UNCHANGED vars
  /\ History!Begin(r, limit)
  /\ answered' = [answered EXCEPT ![r] = {a.seq : a \in {b \in replies : b.chat = Chat}}]

\* A request of a reader or of a syncer, or the answer to it.
Requests ==
  /\ UNCHANGED <<vars, answered>>
  /\ \/ \E r \in Readers : History!Read(r)
     \/ \E c \in Syncers : History!AskSync(c) \/ History!SelectSync(c)

ReadingNext ==
  \/ Changes
  \/ \E r \in Readers, limit \in Limits : Begins(r, limit)
  \/ Requests

ReadingSpec == ReadingInit /\ [][ReadingNext]_<<vars, readerVars>>

-----------------------------------------------------------------------------
(* Properties *)

\* Whoever pages to the end finds every message that a sender had been answered before, for
\* as long as the chat exists, whatever is being sent at the same time.
AnsweredIsFound ==
  \A r \in Readers :
    walk[r].pc = "done" /\ Chat \in chats => answered[r] \subseteq walk[r].given

\* A client that resyncs to the end, each time after the highest seq of the answers before,
\* misses only what was committed after a higher seq.
ResyncMissesOnlyOvertaken == History!ResyncMissesOnlyOvertaken

\* docs/message-send-flow.md:74, "Choota hua kuch nahi, duplicate bhi nahi" (nothing missed,
\* and nothing twice): a client that resyncs to the end misses nothing.
ResyncMissesNothing == History!ResyncMissesNothing

=============================================================================
