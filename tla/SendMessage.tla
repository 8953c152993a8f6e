---------------------------- MODULE SendMessage ----------------------------
(***************************************************************************)
(* MessageService.SendMessage, run by any number of concurrent request     *)
(* handlers (HTTP goroutines and WebSocket read pumps) against one         *)
(* PostgreSQL database in its default READ COMMITTED isolation.            *)
(*                                                                         *)
(* A call is a chain of database statements, and other handlers may run    *)
(* between any two of them: the membership check (outside the              *)
(* transaction), the idempotent INSERT, the outbox INSERT, the COMMIT.     *)
(* What a transaction wrote is in its handler's record call[h] until the   *)
(* commit moves it into the tables.  A message is identified by its seq:   *)
(* its UUID and its seq are both generated once per row.                   *)
(***************************************************************************)
EXTENDS Naturals, FiniteSets

CONSTANTS
  Handlers,     \* request goroutines that can run at the same time
  Users,        \* user ids
  Chats,        \* chat ids that exist at the start
  DirectChats,  \* those of them with is_group = false
  Membership,   \* chat_members at the start: a set of <<chat, user>>
  ClientIds,    \* client message ids (idempotency keys)
  IdFields,     \* JSON fields in which requests carry the client message id
  Null,         \* SQL NULL: no client message id
  MaxCalls      \* bound on the number of SendMessage calls

ASSUME SendMessageAssumption ==
  /\ Null \notin Chats \cup Users \cup ClientIds
  /\ DirectChats \subseteq Chats
  /\ Membership \subseteq Chats \X Users
  /\ MaxCalls \in Nat

VARIABLES
  chats,      \* rows of chats
  members,    \* rows of chat_members
  messages,   \* rows of messages, by seq
  outbox,     \* rows of outbox_events, by id
  lastSeq,    \* the sequence behind messages.seq
  lastEvent,  \* the sequence behind outbox_events.id
  call,       \* what each handler is doing
  calls,      \* number of calls begun so far
  replies     \* every answer a caller got that was not an error

tables == <<chats, members, messages, outbox, lastSeq, lastEvent>>
vars == <<tables, call, calls, replies>>

MessageRow == [chat : Chats, sender : Users, cid : ClientIds \cup {Null}]

EventRow == [msg : Nat, chat : Chats, status : {"pending", "published", "failed"},
             attempts : Nat, due : BOOLEAN]

Phase == {"idle", "checked", "inserted", "conflict", "enqueued", "respond"}

Call == [pc : Phase, n : Nat, chat : Chats \cup {Null}, user : Users \cup {Null},
         cid : ClientIds \cup {Null}, seq : Nat, event : Nat, isNew : BOOLEAN]

Idle == [pc |-> "idle", n |-> 0, chat |-> Null, user |-> Null,
         cid |-> Null, seq |-> 0, event |-> 0, isNew |-> FALSE]

\* What a caller learns: its own call number n, the id the server decoded, and the message
\* that came back.
Answer(h) == [n |-> call[h].n, chat |-> call[h].chat,
              cid |-> call[h].cid, seq |-> call[h].seq, isNew |-> call[h].isNew]

Reply == [n : Nat, chat : Chats \cup {Null},
          cid : ClientIds \cup {Null}, seq : Nat, isNew : BOOLEAN]

\* Every table and every handler holds values of the types the schema and the Go structs
\* declare, and every id in a table was drawn from its sequence.
TypeOK ==
  /\ chats \subseteq Chats
  /\ members \subseteq Chats \X Users
  /\ messages \in [DOMAIN messages -> MessageRow]
  /\ outbox \in [DOMAIN outbox -> EventRow]
  /\ DOMAIN messages \subseteq 1 .. lastSeq
  /\ DOMAIN outbox \subseteq 1 .. lastEvent
  /\ lastSeq \in Nat
  /\ lastEvent \in Nat
  /\ call \in [Handlers -> Call]
  /\ calls \in Nat
  /\ replies \in SUBSET Reply

Init ==
  /\ chats = Chats
  /\ members = Membership
  /\ messages = [s \in {} |-> Null]
  /\ outbox = [e \in {} |-> Null]
  /\ lastSeq = 0
  /\ lastEvent = 0
  /\ call = [h \in Handlers |-> Idle]
  /\ calls = 0
  /\ replies = {}

-----------------------------------------------------------------------------
(* The tables *)

\* A table with one more row.
WithRow(table, key, row) ==
  [k \in DOMAIN table \cup {key} |-> IF k = key THEN row ELSE table[k]]

\* A table without the rows that ON DELETE CASCADE removes with the chat.
WithoutChat(table, c) ==
  [k \in {j \in DOMAIN table : table[j].chat # c} |-> table[k]]

\* Committed messages of a chat under a client message id.
StoredUnder(c, k) ==
  {s \in DOMAIN messages : messages[s].chat = c /\ messages[s].cid = k}

\* Open transactions that hold an uncommitted message row.
Writers == {h \in Handlers : call[h].pc \in {"inserted", "enqueued"}}

\* The partial unique index idx_messages_client_msg makes an INSERT wait for every
\* other open transaction that has inserted the same key.
NeverLocked(c, k) == FALSE  \* mutant: no unique index behind ON CONFLICT

KeyLocked(c, k) == \E g \in Writers : call[g].chat = c /\ call[g].cid = k

DeleteUnlocked(c) == FALSE  \* mutant: the DELETE does not wait for open transactions

\* The foreign key messages.chat_id makes an open transaction hold a KEY SHARE lock
\* on its chat row, which a DELETE of the chat waits for.
ChatLocked(c) == \E g \in Writers : call[g].chat = c

\* The client message id that encoding/json finds: MessagePayload reads it from the
\* field clientMessageId, and ignores a field of any other name.
DecodedId(field, k) == IF field = "clientMessageId" THEN k ELSE Null

-----------------------------------------------------------------------------
(* One SendMessage call *)

\* A request arrives with a client message id k in the given field, and IsMember
\* finds its sender among the members of the chat.  A blank payload (ErrInvalid) and
\* a sender who is no member (ErrForbidden) are answered here and change nothing.
CheckMember(h, c, u, k, field) ==
  /\ call[h].pc = "idle"
  /\ calls < MaxCalls
  /\ <<c, u>> \in members
  /\ calls' = calls + 1
  /\ call' = [call EXCEPT ![h] = [Idle EXCEPT
                !.pc = "checked", !.n = calls + 1, !.chat = c, !.user = u,
                !.cid = DecodedId(field, k)]]
  /\ UNCHANGED <<tables, replies>>

\* INSERT ... RETURNING id creates the row in the open transaction.  With a client
\* message id it waits until no other open transaction holds the same key.  (PostgreSQL
\* draws the seq before the wait, the model after it: no property compares two seqs.)
InsertRow(h) ==
  LET c == call[h].chat  k == call[h].cid IN
  /\ call[h].pc = "checked"
  /\ c \in chats
  /\ k # Null => StoredUnder(c, k) = {} /\ ~KeyLocked(c, k)
  /\ lastSeq' = lastSeq + 1
  /\ call' = [call EXCEPT ![h] = [@ EXCEPT !.pc = "inserted", !.seq = lastSeq + 1]]
  /\ UNCHANGED <<chats, members, messages, outbox, lastEvent, calls, replies>>

\* ON CONFLICT DO NOTHING: a committed message already has this key.  The seq that the
\* statement drew from the sequence is lost.
InsertConflict(h) ==
  /\ call[h].pc = "checked"
  /\ call[h].cid # Null
  /\ StoredUnder(call[h].chat, call[h].cid) # {}
  /\ lastSeq' = lastSeq + 1
  /\ call' = [call EXCEPT ![h] = [@ EXCEPT !.pc = "conflict"]]
  /\ UNCHANGED <<chats, members, messages, outbox, lastEvent, calls, replies>>

\* The chat was deleted after the membership check: the INSERT violates the foreign key
\* and the call ends with an error.
InsertOrphan(h) ==
  /\ call[h].pc = "checked"
  /\ call[h].chat \notin chats
  /\ lastSeq' = lastSeq + 1
  /\ call' = [call EXCEPT ![h] = Idle]
  /\ UNCHANGED <<chats, members, messages, outbox, lastEvent, calls, replies>>

\* Mutant: an absent row is not told from a found one.
ReturnUnchecked(h) ==
  LET found == StoredUnder(call[h].chat, call[h].cid) IN
  /\ call[h].pc = "conflict"
  /\ \E s \in IF found = {} THEN {Null} ELSE found :
       call' = [call EXCEPT ![h] = [@ EXCEPT !.pc = "respond", !.seq = s]]
  /\ UNCHANGED <<tables, calls, replies>>

\* Mutant: the winner's row is polled for until it appears.
ReturnWhenFound(h) ==
  /\ call[h].pc = "conflict"
  /\ \E s \in StoredUnder(call[h].chat, call[h].cid) :
       call' = [call EXCEPT ![h] = [@ EXCEPT !.pc = "respond", !.seq = s]]
  /\ UNCHANGED <<tables, calls, replies>>

\* After a conflict the message that holds the key is read back in a statement of its
\* own.  It may be gone by then, with its chat: the call then ends with an error.
ReturnExisting(h) ==
  LET found == StoredUnder(call[h].chat, call[h].cid) IN
  /\ call[h].pc = "conflict"
  /\ \/ \E s \in found :
          call' = [call EXCEPT ![h] = [@ EXCEPT !.pc = "respond", !.seq = s]]
     \/ found = {} /\ call' = [call EXCEPT ![h] = Idle]
  /\ UNCHANGED <<tables, calls, replies>>

\* Mutant: the handler answers without tx.Commit.
EnqueueUncommitted(h) ==
  /\ call[h].pc = "inserted"
  /\ lastEvent' = lastEvent + 1
  /\ call' = [call EXCEPT ![h] =
                [@ EXCEPT !.pc = "respond", !.event = lastEvent + 1, !.isNew = TRUE]]
  /\ UNCHANGED <<chats, members, messages, outbox, lastSeq, calls, replies>>

\* GetByID reads the transaction's own row back, and the outbox event is inserted in the
\* same transaction.
EnqueueEvent(h) ==
  /\ call[h].pc = "inserted"
  /\ lastEvent' = lastEvent + 1
  /\ call' = [call EXCEPT ![h] = [@ EXCEPT !.pc = "enqueued", !.event = lastEvent + 1]]
  /\ UNCHANGED <<chats, members, messages, outbox, lastSeq, calls, replies>>

\* Mutant: the event was written outside the transaction and lost.
CommitMessageOnly(h) ==
  /\ messages' = WithRow(messages, call[h].seq,
                   [chat |-> call[h].chat, sender |-> call[h].user, cid |-> call[h].cid])
  /\ UNCHANGED <<chats, members, outbox, lastSeq, lastEvent, calls, replies>>

\* What COMMIT makes visible: the message and its outbox event, together.
CommitRows(h) ==
  /\ messages' = WithRow(messages, call[h].seq,
                   [chat |-> call[h].chat, sender |-> call[h].user, cid |-> call[h].cid])
  /\ outbox' = WithRow(outbox, call[h].event,
                   [msg |-> call[h].seq, chat |-> call[h].chat, status |-> "pending",
                    attempts |-> 0, due |-> TRUE])
  /\ UNCHANGED <<chats, members, lastSeq, lastEvent, calls, replies>>

Commit(h) ==
  /\ call[h].pc = "enqueued"
  /\ CommitRows(h)
  /\ call' = [call EXCEPT ![h] = [@ EXCEPT !.pc = "respond", !.isNew = TRUE]]

\* The database commits, but the connection breaks before it says so: the caller gets
\* an error for a message that is stored.
CommitUnacknowledged(h) ==
  /\ call[h].pc = "enqueued"
  /\ CommitRows(h)
  /\ call' = [call EXCEPT ![h] = Idle]

\* The handler answers with the message.
Respond(h) ==
  /\ call[h].pc = "respond"
  /\ replies' = replies \cup {Answer(h)}
  /\ call' = [call EXCEPT ![h] = Idle]
  /\ UNCHANGED <<tables, calls>>

\* Any statement can fail, and the process can stop between any two of them: the
\* deferred Rollback, or the database itself, undoes what was not committed.
Fail(h) ==
  /\ call[h].pc # "idle"
  /\ call' = [call EXCEPT ![h] = Idle]
  /\ UNCHANGED <<tables, calls, replies>>

-----------------------------------------------------------------------------
(* DELETE /chats/{id} of a direct chat by one of its members, one statement.  Its   *)
(* messages and members go by ON DELETE CASCADE; outbox_events has no foreign key.  *)
DeleteDirect(c) ==
  /\ c \in DirectChats \cap chats
  /\ \E u \in Users : <<c, u>> \in members
  /\ ~ChatLocked(c)
  /\ chats' = chats \ {c}
  /\ members' = {m \in members : m[1] # c}
  /\ messages' = WithoutChat(messages, c)
  /\ UNCHANGED <<outbox, lastSeq, lastEvent, call, calls, replies>>

\* What a handler does by itself once its call has begun.
Proceed(h) ==
  \/ InsertRow(h)
  \/ InsertConflict(h)
  \/ InsertOrphan(h)
  \/ ReturnExisting(h)
  \/ EnqueueEvent(h)
  \/ Commit(h)
  \/ Respond(h)

\* The bound on calls is used up and every call has ended.
Rest ==
  /\ calls = MaxCalls
  /\ \A h \in Handlers : call[h].pc = "idle"
  /\ UNCHANGED vars

Next ==
  \/ \E h \in Handlers :
       \/ \E c \in Chats, u \in Users, k \in ClientIds \cup {Null}, field \in IdFields :
            CheckMember(h, c, u, k, field)
       \/ Proceed(h)
       \/ CommitUnacknowledged(h)
       \/ Fail(h)
  \/ \E c \in Chats : DeleteDirect(c)
  \/ Rest

Spec == Init /\ [][Next]_vars

\* The Go scheduler runs every handler, and the database answers every statement.
FairSpec == Spec /\ \A h \in Handlers : WF_vars(Proceed(h))

-----------------------------------------------------------------------------
(* Properties *)

\* However retries race, a chat never stores two messages under one client message id
\* (INSERT ... ON CONFLICT DO NOTHING against idx_messages_client_msg).
UniqueClientId ==
  \A s, t \in DOMAIN messages :
    messages[s].chat = messages[t].chat /\ messages[s].cid = messages[t].cid
      /\ messages[s].cid # Null
    => s = t

\* All callers that used one client message id in one chat are told of the same message,
\* and at most one of them is told that the message is new: the others are retries.
AnswersAgree ==
  \A a, b \in replies :
    a.chat = b.chat /\ a.cid = b.cid /\ a.cid # Null
    => a.seq = b.seq /\ (a.isNew /\ b.isNew => a.n = b.n)

\* The transactional outbox: a stored message has exactly one outbox event, which names
\* the message's chat, and an event's message is missing only if its chat was deleted.
TransactionalOutbox ==
  /\ \A s \in DOMAIN messages : \E e \in DOMAIN outbox :
       outbox[e].msg = s /\ outbox[e].chat = messages[s].chat
  /\ \A e, f \in DOMAIN outbox : outbox[e].msg = outbox[f].msg => e = f
  /\ \A e \in DOMAIN outbox : outbox[e].chat \in chats => outbox[e].msg \in DOMAIN messages

\* A message that a caller was told of stays stored, under the id the caller used, for as
\* long as its chat exists: nothing is answered before it is committed.
AnsweredIsStored ==
  \A a \in replies : a.chat \in chats =>
    /\ a.seq \in DOMAIN messages
    /\ messages[a.seq].chat = a.chat
    /\ messages[a.seq].cid = a.cid

\* Every call ends: a retry that waits for the transaction holding its key is released
\* when that transaction ends, and a chat deleted under a call does not hang it.
EveryCallEnds == \A h \in Handlers : call[h].pc # "idle" ~> call[h].pc = "idle"

LogOf(c) == INSTANCE MessageLog WITH
  drawn <- lastSeq,
  open <- {call[h].seq : h \in {g \in Writers : call[g].chat = c}},
  stored <- {s \in DOMAIN messages : messages[s].chat = c},
  exists <- c \in chats

\* To those who read a chat, SendMessage and the deletion of the chat are MessageLog: a
\* message appears once, when its transaction commits, and never in a chat that is gone.
ImplementsMessageLog ==
  /\ \A c \in Chats : LogOf(c)!Init
  /\ [][\A c \in Chats : [LogOf(c)!Next]_(LogOf(c)!vars)]_vars

Feed == INSTANCE OutboxWorker WITH
  Workers <- {}, Messages <- 1 .. MaxCalls, Events <- 1 .. MaxCalls,
  MaxAttempts <- 1, BatchSize <- 1, MaxFaults <- 0,
  stored <- DOMAIN messages,
  published <- [e \in 1 .. MaxCalls |-> 0],
  pc <- [w \in {} |-> "idle"], claimed <- [w \in {} |-> 0], faults <- 0

\* To the workers, SendMessage and the deletion of chats do nothing but what OutboxWorker
\* lets its tables do: commit a new message together with its event, in any order of ids,
\* and drop the messages of a chat while their events stay.
FeedsOutbox == Feed!Spec

=============================================================================
