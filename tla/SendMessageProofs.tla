------------------------- MODULE SendMessageProofs -------------------------
(***************************************************************************)
(* The inductive invariant of SendMessage, the safety properties that      *)
(* follow from it for any number of handlers, users, chats and client      *)
(* message ids, and what the other components may assume of SendMessage.   *)
(*                                                                         *)
(* For every chat it implements MessageLog: the refinement that lets       *)
(* MessageHistory study the readers without the writers' detail.  The      *)
(* mapping takes a chat's open messages from the handlers' records and its *)
(* stored ones from the messages table.  That no two open transactions     *)
(* hold one seq, a part of the inductive invariant, is what makes a commit *)
(* or a rollback take exactly one message out of the open ones.            *)
(*                                                                         *)
(* And it is an OutboxWorker without workers: it does nothing to the       *)
(* tables but what OutboxWorker lets the rest of the program do to them.   *)
(***************************************************************************)
EXTENDS SendMessage, FiniteSetTheorems, TLAPS

\* A call that has begun knows its chat and its sender, and is told that its message is
\* new only when it answers.
Begun ==
  \A h \in Handlers :
    /\ call[h].pc # "idle" => call[h].chat \in Chats /\ call[h].user \in Users
    /\ call[h].pc # "respond" => ~call[h].isNew

\* The seq that an open transaction drew for its message is nobody else's.
FreshSeq ==
  /\ \A h \in Writers :
       /\ call[h].seq \in 1 .. lastSeq
       /\ call[h].seq \notin DOMAIN messages
       /\ \A e \in DOMAIN outbox : outbox[e].msg # call[h].seq
       /\ \A g \in Writers : call[g].seq = call[h].seq => g = h
  /\ \A e \in DOMAIN outbox : outbox[e].msg \in 1 .. lastSeq

\* Open transactions that have enqueued their event.
Enqueued == {h \in Handlers : call[h].pc = "enqueued"}

\* The id that an open transaction drew for its event is nobody else's.
FreshEvent ==
  \A h \in Enqueued :
    /\ call[h].event \in 1 .. lastEvent
    /\ call[h].event \notin DOMAIN outbox
    /\ \A g \in Enqueued : call[g].event = call[h].event => g = h

\* An open transaction is alone with its key.
KeyExclusive ==
  \A h \in Writers : call[h].cid # Null =>
    /\ StoredUnder(call[h].chat, call[h].cid) = {}
    /\ \A g \in Writers :
         call[g].chat = call[h].chat /\ call[g].cid = call[h].cid => g = h

\* Foreign keys: members, stored messages and open transactions keep their chat alive.
ChatsExist ==
  /\ \A m \in members : m[1] \in chats
  /\ \A s \in DOMAIN messages : messages[s].chat \in chats
  /\ \A h \in Writers : call[h].chat \in chats

\* The answers given and those about to be given.
Answers == replies \cup {Answer(h) : h \in {g \in Handlers : call[g].pc = "respond"}}

AnswersStored ==
  \A a \in Answers : a.chat \in chats =>
    /\ a.seq \in DOMAIN messages
    /\ messages[a.seq].chat = a.chat
    /\ messages[a.seq].cid = a.cid

AnswersConsistent ==
  \A a, b \in Answers :
    a.chat = b.chat /\ a.cid = b.cid /\ a.cid # Null
    => a.seq = b.seq /\ (a.isNew /\ b.isNew => a.n = b.n)

IInv ==
  /\ TypeOK
  /\ Begun
  /\ FreshSeq
  /\ FreshEvent
  /\ KeyExclusive
  /\ ChatsExist
  /\ UniqueClientId
  /\ TransactionalOutbox
  /\ AnswersStored
  /\ AnswersConsistent

-----------------------------------------------------------------------------
(* What each action does to the record of its handler *)

\* Replacing one handler's record leaves the others alone.
LEMMA CallReplaced ==
  ASSUME call \in [Handlers -> Call], NEW h \in Handlers, NEW r \in Call,
         call' = [call EXCEPT ![h] = r]
  PROVE  /\ call' \in [Handlers -> Call]
         /\ call'[h] = r
         /\ \A g \in Handlers : g # h => call'[g] = call[g]
  OBVIOUS

\* The record of an idle handler is well typed.
LEMMA IdleIsCall == Idle \in Call
  BY DEF Idle, Call, Phase

\* A call that begins is recorded with its chat, sender and client message id.
LEMMA CheckMemberDoes ==
  ASSUME TypeOK, NEW h \in Handlers, NEW c \in Chats, NEW u \in Users,
         NEW k \in ClientIds \cup {Null}, NEW field \in IdFields,
         CheckMember(h, c, u, k, field)
  PROVE  /\ call' \in [Handlers -> Call]
         /\ \A g \in Handlers : g # h => call'[g] = call[g]
         /\ call'[h].pc = "checked" /\ call'[h].chat = c /\ call'[h].user = u
         /\ call'[h].isNew = FALSE
<1> DEFINE new == [Idle EXCEPT !.pc = "checked", !.n = calls + 1, !.chat = c,
                     !.user = u, !.cid = DecodedId(field, k)]
<1>1. DecodedId(field, k) \in ClientIds \cup {Null}
  BY DEF DecodedId
<1>2. calls + 1 \in Nat
  BY DEF TypeOK
<1>3. /\ new \in Call /\ new.pc = "checked" /\ new.chat = c /\ new.user = u
      /\ new.isNew = FALSE
  BY <1>1, <1>2, IdleIsCall DEF Idle, Call, Phase
<1>4. call' = [call EXCEPT ![h] = new]
  BY DEF CheckMember
<1> HIDE DEF new
<1> QED
  BY <1>3, <1>4, CallReplaced DEF TypeOK

\* The INSERT opens a transaction with the next seq and keeps the rest of the call.
LEMMA InsertRowDoes ==
  ASSUME TypeOK, NEW h \in Handlers, InsertRow(h)
  PROVE  /\ call' \in [Handlers -> Call]
         /\ \A g \in Handlers : g # h => call'[g] = call[g]
         /\ call'[h].pc = "inserted" /\ call'[h].seq = lastSeq + 1
         /\ call'[h].chat = call[h].chat /\ call'[h].user = call[h].user
         /\ call'[h].cid = call[h].cid /\ call'[h].isNew = call[h].isNew
<1> DEFINE new == [call[h] EXCEPT !.pc = "inserted", !.seq = lastSeq + 1]
<1>1. call[h] \in Call /\ lastSeq + 1 \in Nat
  BY DEF TypeOK
<1>2. /\ new \in Call /\ new.pc = "inserted" /\ new.seq = lastSeq + 1
      /\ new.chat = call[h].chat /\ new.user = call[h].user
      /\ new.cid = call[h].cid /\ new.isNew = call[h].isNew
  BY <1>1 DEF Call, Phase
<1>3. call' = [call EXCEPT ![h] = new]
  BY DEF InsertRow
<1> HIDE DEF new
<1> QED
  BY <1>2, <1>3, CallReplaced DEF TypeOK

\* A conflicting INSERT draws a seq that nothing keeps.
LEMMA InsertConflictDoes ==
  ASSUME TypeOK, NEW h \in Handlers, InsertConflict(h)
  PROVE  /\ call' \in [Handlers -> Call]
         /\ \A g \in Handlers : g # h => call'[g] = call[g]
         /\ call'[h].pc = "conflict"
         /\ call'[h].chat = call[h].chat /\ call'[h].user = call[h].user
         /\ call'[h].isNew = call[h].isNew
<1> DEFINE new == [call[h] EXCEPT !.pc = "conflict"]
<1>1. call[h] \in Call
  BY DEF TypeOK
<1>2. /\ new \in Call /\ new.pc = "conflict"
      /\ new.chat = call[h].chat /\ new.user = call[h].user
      /\ new.isNew = call[h].isNew
  BY <1>1 DEF Call, Phase
<1>3. call' = [call EXCEPT ![h] = new]
  BY DEF InsertConflict
<1> HIDE DEF new
<1> QED
  BY <1>2, <1>3, CallReplaced DEF TypeOK

\* A call that reads the winner's message back answers with one that is stored under its key.
LEMMA ReturnExistingDoes ==
  ASSUME TypeOK, NEW h \in Handlers, ReturnExisting(h), call'[h] # Idle
  PROVE  \E s \in StoredUnder(call[h].chat, call[h].cid) :
           /\ call' \in [Handlers -> Call]
           /\ \A g \in Handlers : g # h => call'[g] = call[g]
           /\ call'[h].pc = "respond" /\ call'[h].seq = s
           /\ call'[h].chat = call[h].chat /\ call'[h].user = call[h].user
           /\ call'[h].cid = call[h].cid /\ call'[h].isNew = call[h].isNew
           /\ call'[h].n = call[h].n
<1>1. PICK s \in StoredUnder(call[h].chat, call[h].cid) :
        call' = [call EXCEPT ![h] = [@ EXCEPT !.pc = "respond", !.seq = s]]
  BY IdleIsCall, CallReplaced DEF TypeOK, ReturnExisting
<1> DEFINE new == [call[h] EXCEPT !.pc = "respond", !.seq = s]
<1>2. call[h] \in Call /\ s \in Nat
  BY DEF TypeOK, StoredUnder
<1>3. /\ new \in Call /\ new.pc = "respond" /\ new.seq = s
      /\ new.chat = call[h].chat /\ new.user = call[h].user
      /\ new.cid = call[h].cid /\ new.isNew = call[h].isNew /\ new.n = call[h].n
  BY <1>2 DEF Call, Phase
<1>4. call' = [call EXCEPT ![h] = new]
  BY <1>1
<1> HIDE DEF new
<1> QED
  BY <1>3, <1>4, CallReplaced DEF TypeOK

\* The outbox INSERT draws the next event id and keeps the rest of the call.
LEMMA EnqueueEventDoes ==
  ASSUME TypeOK, NEW h \in Handlers, EnqueueEvent(h)
  PROVE  /\ call' \in [Handlers -> Call]
         /\ \A g \in Handlers : g # h => call'[g] = call[g]
         /\ call'[h].pc = "enqueued" /\ call'[h].event = lastEvent + 1
         /\ call'[h].chat = call[h].chat /\ call'[h].user = call[h].user
         /\ call'[h].cid = call[h].cid /\ call'[h].isNew = call[h].isNew
         /\ call'[h].seq = call[h].seq
<1> DEFINE new == [call[h] EXCEPT !.pc = "enqueued", !.event = lastEvent + 1]
<1>1. call[h] \in Call /\ lastEvent + 1 \in Nat
  BY DEF TypeOK
<1>2. /\ new \in Call /\ new.pc = "enqueued" /\ new.event = lastEvent + 1
      /\ new.chat = call[h].chat /\ new.user = call[h].user
      /\ new.cid = call[h].cid /\ new.isNew = call[h].isNew /\ new.seq = call[h].seq
  BY <1>1 DEF Call, Phase
<1>3. call' = [call EXCEPT ![h] = new]
  BY DEF EnqueueEvent
<1> HIDE DEF new
<1> QED
  BY <1>2, <1>3, CallReplaced DEF TypeOK

\* The COMMIT answers with the message that the transaction wrote, as a new one.
LEMMA CommitDoes ==
  ASSUME TypeOK, NEW h \in Handlers, Commit(h)
  PROVE  /\ call' \in [Handlers -> Call]
         /\ \A g \in Handlers : g # h => call'[g] = call[g]
         /\ call'[h].pc = "respond" /\ call'[h].isNew = TRUE
         /\ call'[h].chat = call[h].chat /\ call'[h].user = call[h].user
         /\ call'[h].cid = call[h].cid /\ call'[h].seq = call[h].seq
<1> DEFINE new == [call[h] EXCEPT !.pc = "respond", !.isNew = TRUE]
<1>1. call[h] \in Call
  BY DEF TypeOK
<1>2. /\ new \in Call /\ new.pc = "respond" /\ new.isNew = TRUE
      /\ new.chat = call[h].chat /\ new.user = call[h].user
      /\ new.cid = call[h].cid /\ new.seq = call[h].seq
  BY <1>1 DEF Call, Phase
<1>3. call' = [call EXCEPT ![h] = new]
  BY DEF Commit
<1> HIDE DEF new
<1> QED
  BY <1>2, <1>3, CallReplaced DEF TypeOK

\* A step that ends the call of h, with an answer or with an error.
Ends(h) == call' = [call EXCEPT ![h] = Idle]

\* A handler whose call ends is idle, with nothing left of the call.
LEMMA EndsDoes ==
  ASSUME TypeOK, NEW h \in Handlers, Ends(h)
  PROVE  /\ call' \in [Handlers -> Call]
         /\ \A g \in Handlers : g # h => call'[g] = call[g]
         /\ call'[h].pc = "idle" /\ call'[h].isNew = FALSE /\ call'[h] = Idle
<1>1. Idle.pc = "idle" /\ Idle.isNew = FALSE
  BY DEF Idle
<1> QED
  BY <1>1, IdleIsCall, CallReplaced DEF TypeOK, Ends

-----------------------------------------------------------------------------
(* The steps *)

\* The call of h ends with an error and leaves the tables alone, but for a drawn seq.
Abandons(h) ==
  /\ Ends(h)
  /\ lastSeq' \in {lastSeq, lastSeq + 1}
  /\ UNCHANGED <<chats, members, messages, outbox, lastEvent, calls, replies>>

\* A read back that finds nothing ends the call.
LEMMA ReturnExistingAbandons ==
  ASSUME TypeOK, NEW h \in Handlers, ReturnExisting(h), call'[h] = Idle
  PROVE  Abandons(h)
<1>1. ASSUME NEW s \in StoredUnder(call[h].chat, call[h].cid),
             call' = [call EXCEPT ![h] = [@ EXCEPT !.pc = "respond", !.seq = s]]
      PROVE  FALSE
  <2>1. call[h] \in Call /\ s \in Nat
    BY DEF TypeOK, StoredUnder
  <2>2. [call[h] EXCEPT !.pc = "respond", !.seq = s].pc = "respond"
    BY <2>1 DEF Call
  <2>3. call'[h] = [call[h] EXCEPT !.pc = "respond", !.seq = s]
    BY <1>1 DEF TypeOK
  <2>4. Idle.pc = "idle"
    BY DEF Idle
  <2> QED
    BY <2>2, <2>3, <2>4
<1> QED
  BY <1>1 DEF ReturnExisting, Abandons, Ends, tables

\* Every step is one of these.
LEMMA StepCases ==
  ASSUME TypeOK, [Next]_vars
  PROVE  \/ \E h \in Handlers :
              \/ \E c \in Chats, u \in Users, k \in ClientIds \cup {Null}, field \in IdFields :
                   CheckMember(h, c, u, k, field)
              \/ InsertRow(h)
              \/ InsertConflict(h)
              \/ ReturnExisting(h) /\ call'[h] # Idle
              \/ EnqueueEvent(h)
              \/ Commit(h)
              \/ CommitUnacknowledged(h)
              \/ Respond(h)
              \/ Abandons(h)
         \/ \E c \in Chats : DeleteDirect(c)
         \/ UNCHANGED vars
<1>1. ASSUME NEW h \in Handlers, ReturnExisting(h), call'[h] = Idle
      PROVE  Abandons(h)
  BY <1>1, ReturnExistingAbandons
<1>2. ASSUME NEW h \in Handlers, InsertOrphan(h) \/ Fail(h)
      PROVE  Abandons(h)
  BY <1>2 DEF InsertOrphan, Fail, Abandons, Ends, tables
<1> QED
  BY <1>1, <1>2 DEF Next, Proceed, Rest

-----------------------------------------------------------------------------
(* Type correctness *)

\* Every step preserves the types.
LEMMA StepTypes ==
  ASSUME TypeOK, Begun, FreshSeq, FreshEvent, [Next]_vars
  PROVE  TypeOK'
<1>1. ASSUME NEW h \in Handlers, NEW c \in Chats, NEW u \in Users,
             NEW k \in ClientIds \cup {Null}, NEW field \in IdFields,
             CheckMember(h, c, u, k, field)
      PROVE  TypeOK'
  <2>1. call' \in [Handlers -> Call]
    BY <1>1, CheckMemberDoes DEF CheckMember, tables
  <2>2. calls' \in Nat
    BY <1>1 DEF CheckMember, tables, TypeOK
  <2> QED
    BY <1>1, <2>1, <2>2 DEF CheckMember, tables, TypeOK
<1>2. ASSUME NEW h \in Handlers, InsertRow(h)
      PROVE  TypeOK'
  <2>1. call' \in [Handlers -> Call]
    BY <1>2, InsertRowDoes DEF InsertRow
  <2>2. lastSeq' \in Nat /\ 1 .. lastSeq \subseteq 1 .. lastSeq'
    BY <1>2 DEF InsertRow, TypeOK
  <2> QED
    BY <1>2, <2>1, <2>2 DEF InsertRow, TypeOK
<1>3. ASSUME NEW h \in Handlers, InsertConflict(h)
      PROVE  TypeOK'
  <2>1. call' \in [Handlers -> Call]
    BY <1>3, InsertConflictDoes DEF InsertConflict
  <2>2. lastSeq' \in Nat /\ 1 .. lastSeq \subseteq 1 .. lastSeq'
    BY <1>3 DEF InsertConflict, TypeOK
  <2> QED
    BY <1>3, <2>1, <2>2 DEF InsertConflict, TypeOK
<1>4. ASSUME NEW h \in Handlers, ReturnExisting(h), call'[h] # Idle
      PROVE  TypeOK'
  <2>1. call' \in [Handlers -> Call]
    BY <1>4, ReturnExistingDoes DEF ReturnExisting, tables
  <2> QED
    BY <1>4, <2>1 DEF ReturnExisting, tables, TypeOK
<1>5. ASSUME NEW h \in Handlers, EnqueueEvent(h)
      PROVE  TypeOK'
  <2>1. call' \in [Handlers -> Call]
    BY <1>5, EnqueueEventDoes DEF EnqueueEvent
  <2>2. lastEvent' \in Nat /\ 1 .. lastEvent \subseteq 1 .. lastEvent'
    BY <1>5 DEF EnqueueEvent, TypeOK
  <2> QED
    BY <1>5, <2>1, <2>2 DEF EnqueueEvent, TypeOK
<1>6. ASSUME NEW h \in Handlers, Commit(h) \/ CommitUnacknowledged(h)
      PROVE  TypeOK'
  <2>1. call' \in [Handlers -> Call]
    <3>1. CASE Commit(h)
      BY <3>1, CommitDoes
    <3>2. CASE CommitUnacknowledged(h)
      BY <3>2, EndsDoes DEF CommitUnacknowledged, Ends
    <3> QED
      BY <1>6, <3>1, <3>2
  <2>2. CommitRows(h) /\ call[h].pc = "enqueued"
    BY <1>6 DEF Commit, CommitUnacknowledged
  <2>3. /\ call[h] \in Call /\ call[h].chat \in Chats /\ call[h].user \in Users
        /\ call[h].seq \in 1 .. lastSeq /\ call[h].event \in 1 .. lastEvent
    BY <2>2 DEF TypeOK, Begun, FreshSeq, FreshEvent, Enqueued, Writers
  <2>4. /\ messages' \in [DOMAIN messages' -> MessageRow]
        /\ DOMAIN messages' \subseteq 1 .. lastSeq
    <3>1. [chat |-> call[h].chat, sender |-> call[h].user, cid |-> call[h].cid] \in MessageRow
      BY <2>3 DEF MessageRow, Call
    <3> QED
      BY <2>2, <2>3, <3>1 DEF CommitRows, WithRow, TypeOK
  <2>5. /\ outbox' \in [DOMAIN outbox' -> EventRow]
        /\ DOMAIN outbox' \subseteq 1 .. lastEvent
    <3>1. [msg |-> call[h].seq, chat |-> call[h].chat, status |-> "pending",
           attempts |-> 0, due |-> TRUE] \in EventRow
      BY <2>3 DEF EventRow, Call
    <3> QED
      BY <2>2, <2>3, <3>1 DEF CommitRows, WithRow, TypeOK
  <2> QED
    BY <2>1, <2>2, <2>4, <2>5 DEF CommitRows, TypeOK
<1>7. ASSUME NEW h \in Handlers, Respond(h)
      PROVE  TypeOK'
  <2>1. call' \in [Handlers -> Call]
    BY <1>7, EndsDoes DEF Respond, Ends
  <2>2. Answer(h) \in Reply
    BY DEF TypeOK, Answer, Reply, Call
  <2> QED
    BY <1>7, <2>1, <2>2 DEF Respond, tables, TypeOK
<1>8. ASSUME NEW h \in Handlers, Abandons(h)
      PROVE  TypeOK'
  <2>1. call' \in [Handlers -> Call]
    BY <1>8, EndsDoes DEF Abandons
  <2>2. lastSeq' \in Nat /\ 1 .. lastSeq \subseteq 1 .. lastSeq'
    BY <1>8 DEF Abandons, TypeOK
  <2> QED
    BY <1>8, <2>1, <2>2 DEF Abandons, TypeOK
<1>9. ASSUME NEW c \in Chats, DeleteDirect(c)
      PROVE  TypeOK'
  <2>1. /\ messages' \in [DOMAIN messages' -> MessageRow]
        /\ DOMAIN messages' \subseteq DOMAIN messages
    BY <1>9 DEF DeleteDirect, WithoutChat, TypeOK
  <2> QED
    BY <1>9, <2>1 DEF DeleteDirect, TypeOK
<1>10. CASE UNCHANGED vars
  BY <1>10 DEF vars, tables, TypeOK
<1> QED
  BY <1>1, <1>2, <1>3, <1>4, <1>5, <1>6, <1>7, <1>8, <1>9, <1>10, StepCases

\* A call knows its chat and its sender from its first step on.
LEMMA StepBegun ==
  ASSUME TypeOK, Begun, [Next]_vars
  PROVE  Begun'
<1>1. ASSUME NEW h \in Handlers, NEW c \in Chats, NEW u \in Users,
             NEW k \in ClientIds \cup {Null}, NEW field \in IdFields,
             CheckMember(h, c, u, k, field)
      PROVE  Begun'
  <2>1. /\ \A g \in Handlers : g # h => call'[g] = call[g]
        /\ call'[h].pc = "checked" /\ call'[h].chat = c /\ call'[h].user = u
        /\ call'[h].isNew = FALSE
    BY <1>1, CheckMemberDoes
  <2> QED
    BY <2>1 DEF Begun
<1>2. ASSUME NEW h \in Handlers, InsertRow(h)
      PROVE  Begun'
  <2>1. call[h].pc \notin {"idle", "respond"}
    BY <1>2 DEF InsertRow
  <2> QED
    BY <1>2, <2>1, InsertRowDoes DEF Begun
<1>3. ASSUME NEW h \in Handlers, InsertConflict(h)
      PROVE  Begun'
  <2>1. call[h].pc \notin {"idle", "respond"}
    BY <1>3 DEF InsertConflict
  <2> QED
    BY <1>3, <2>1, InsertConflictDoes DEF Begun
<1>4. ASSUME NEW h \in Handlers, ReturnExisting(h), call'[h] # Idle
      PROVE  Begun'
  <2>1. call[h].pc \notin {"idle", "respond"}
    BY <1>4 DEF ReturnExisting, tables
  <2> QED
    BY <1>4, <2>1, ReturnExistingDoes DEF Begun
<1>5. ASSUME NEW h \in Handlers, EnqueueEvent(h)
      PROVE  Begun'
  <2>1. call[h].pc \notin {"idle", "respond"}
    BY <1>5 DEF EnqueueEvent
  <2> QED
    BY <1>5, <2>1, EnqueueEventDoes DEF Begun
<1>6. ASSUME NEW h \in Handlers, Commit(h) \/ CommitUnacknowledged(h)
      PROVE  Begun'
  <2>1. CASE Commit(h)
    <3>1. call[h].pc = "enqueued"
      BY <2>1 DEF Commit
    <3> QED
      BY <2>1, <3>1, CommitDoes DEF Begun
  <2>2. CASE CommitUnacknowledged(h)
    BY <2>2, EndsDoes DEF CommitUnacknowledged, Ends, Begun
  <2> QED
    BY <1>6, <2>1, <2>2
<1>7. ASSUME NEW h \in Handlers, Respond(h)
      PROVE  Begun'
  BY <1>7, EndsDoes DEF Respond, Abandons, Ends, Begun
<1>8. ASSUME NEW h \in Handlers, Abandons(h)
      PROVE  Begun'
  BY <1>8, EndsDoes DEF Respond, Abandons, Ends, Begun
<1>9. ASSUME NEW c \in Chats, DeleteDirect(c)
      PROVE  Begun'
  BY <1>9 DEF DeleteDirect, Begun
<1>10. CASE UNCHANGED vars
  BY <1>10 DEF vars, tables, Begun
<1> QED
  BY <1>1, <1>2, <1>3, <1>4, <1>5, <1>6, <1>7, <1>8, <1>9, <1>10, StepCases

-----------------------------------------------------------------------------
(* Summaries of what a step does to the open transactions and to the tables *)

\* Handler h commits its message and its event, and its transaction is over.
Stores(h) ==
  /\ call[h].pc = "enqueued"
  /\ CommitRows(h)
  /\ h \notin Writers'

\* Handler h has written its message in its own open transaction.
Opens(h) ==
  /\ InsertRow(h)
  /\ Writers' = Writers \cup {h}
  /\ h \notin Writers
  /\ call'[h].seq = lastSeq + 1
  /\ call'[h].chat = call[h].chat
  /\ call'[h].cid = call[h].cid

\* What an open transaction has written does not change.
Keeps(g) ==
  /\ call'[g].chat = call[g].chat
  /\ call'[g].cid = call[g].cid
  /\ call'[g].seq = call[g].seq

WritersStep ==
  \/ \E h \in Handlers : Opens(h) /\ \A g \in Writers : Keeps(g)
  \/ Writers' \subseteq Writers /\ \A g \in Writers' : Keeps(g)

\* A transaction opens with its INSERT; the others keep what they wrote, or end.
LEMMA StepWriters ==
  ASSUME TypeOK, [Next]_vars
  PROVE  WritersStep
<1>1. ASSUME NEW h \in Handlers, NEW c \in Chats, NEW u \in Users,
             NEW k \in ClientIds \cup {Null}, NEW field \in IdFields,
             CheckMember(h, c, u, k, field)
      PROVE  WritersStep
  <2>1. /\ \A g \in Handlers : g # h => call'[g] = call[g]
        /\ call'[h].pc = "checked"
    BY <1>1, CheckMemberDoes DEF CheckMember, tables
  <2> QED
    BY <2>1 DEF Writers, Keeps, WritersStep
<1>2. ASSUME NEW h \in Handlers, InsertRow(h)
      PROVE  WritersStep
  <2>1. /\ \A g \in Handlers : g # h => call'[g] = call[g]
        /\ call'[h].pc = "inserted" /\ call'[h].seq = lastSeq + 1
        /\ call'[h].chat = call[h].chat /\ call'[h].cid = call[h].cid
    BY <1>2, InsertRowDoes
  <2>2. call[h].pc = "checked"
    BY <1>2 DEF InsertRow
  <2>3. Writers' = Writers \cup {h} /\ h \notin Writers
    BY <2>1, <2>2 DEF Writers
  <2> QED
    BY <1>2, <2>1, <2>2, <2>3 DEF Opens, Writers, Keeps, WritersStep
<1>3. ASSUME NEW h \in Handlers, InsertConflict(h)
      PROVE  WritersStep
  <2>1. /\ \A g \in Handlers : g # h => call'[g] = call[g]
        /\ call'[h].pc = "conflict"
    BY <1>3, InsertConflictDoes DEF InsertConflict
  <2> QED
    BY <2>1 DEF Writers, Keeps, WritersStep
<1>4. ASSUME NEW h \in Handlers, ReturnExisting(h), call'[h] # Idle
      PROVE  WritersStep
  <2>1. /\ \A g \in Handlers : g # h => call'[g] = call[g]
        /\ call'[h].pc = "respond"
    BY <1>4, ReturnExistingDoes DEF ReturnExisting, tables
  <2> QED
    BY <2>1 DEF Writers, Keeps, WritersStep
<1>5. ASSUME NEW h \in Handlers, EnqueueEvent(h)
      PROVE  WritersStep
  <2>1. /\ \A g \in Handlers : g # h => call'[g] = call[g]
        /\ call'[h].pc = "enqueued" /\ call'[h].seq = call[h].seq
        /\ call'[h].chat = call[h].chat /\ call'[h].cid = call[h].cid
    BY <1>5, EnqueueEventDoes
  <2>2. call[h].pc = "inserted"
    BY <1>5 DEF EnqueueEvent
  <2> QED
    BY <2>1, <2>2 DEF Writers, Keeps, WritersStep
<1>6. ASSUME NEW h \in Handlers, Commit(h) \/ CommitUnacknowledged(h)
      PROVE  WritersStep
  <2>1. /\ \A g \in Handlers : g # h => call'[g] = call[g]
        /\ call'[h].pc \in {"respond", "idle"}
    BY <1>6, CommitDoes, EndsDoes DEF CommitUnacknowledged, Ends
  <2> QED
    BY <2>1 DEF Writers, Keeps, WritersStep
<1>7. ASSUME NEW h \in Handlers, Respond(h)
      PROVE  WritersStep
  <2>1. /\ \A g \in Handlers : g # h => call'[g] = call[g]
        /\ call'[h].pc = "idle"
    BY <1>7, EndsDoes DEF Respond, Ends, tables
  <2> QED
    BY <2>1 DEF Writers, Keeps, WritersStep
<1>8. ASSUME NEW h \in Handlers, Abandons(h)
      PROVE  WritersStep
  <2>1. /\ \A g \in Handlers : g # h => call'[g] = call[g]
        /\ call'[h].pc = "idle"
    BY <1>8, EndsDoes DEF Abandons
  <2> QED
    BY <2>1 DEF Writers, Keeps, WritersStep
<1>9. ASSUME NEW c \in Chats, DeleteDirect(c)
      PROVE  WritersStep
  BY <1>9 DEF DeleteDirect, Writers, Keeps, WritersStep
<1>10. CASE UNCHANGED vars
  BY <1>10 DEF vars, tables, Writers, Keeps, WritersStep
<1> QED
  BY <1>1, <1>2, <1>3, <1>4, <1>5, <1>6, <1>7, <1>8, <1>9, <1>10, StepCases

\* What a step does to the tables.
TablesStep ==
  \/ \E h \in Handlers : Stores(h)
  \/ \E c \in Chats : DeleteDirect(c)
  \/ UNCHANGED <<chats, members, messages, outbox>>

\* The tables change only by a commit of one handler or by the deletion of one chat.
LEMMA StepTables ==
  ASSUME TypeOK, [Next]_vars
  PROVE  TablesStep
<1>1. ASSUME NEW h \in Handlers, Commit(h) \/ CommitUnacknowledged(h)
      PROVE  Stores(h)
  <2>1. call'[h].pc \in {"respond", "idle"}
    BY <1>1, CommitDoes, EndsDoes DEF CommitUnacknowledged, Ends
  <2> QED
    BY <1>1, <2>1 DEF Commit, CommitUnacknowledged, Stores, Writers
<1>2. CASE \E h \in Handlers : Commit(h) \/ CommitUnacknowledged(h)
  BY <1>1, <1>2 DEF TablesStep
<1>3. CASE ~\E h \in Handlers : Commit(h) \/ CommitUnacknowledged(h)
  BY <1>3, StepCases
  DEF TablesStep, CheckMember, InsertRow, InsertConflict, ReturnExisting, EnqueueEvent,
      Respond, Abandons, vars, tables
<1> QED
  BY <1>2, <1>3

\* What a commit makes visible.
LEMMA StoresDoes ==
  ASSUME NEW h \in Handlers, Stores(h)
  PROVE  /\ DOMAIN messages' = DOMAIN messages \cup {call[h].seq}
         /\ \A s \in DOMAIN messages' : s # call[h].seq => messages'[s] = messages[s]
         /\ messages'[call[h].seq].chat = call[h].chat
         /\ messages'[call[h].seq].cid = call[h].cid
         /\ DOMAIN outbox' = DOMAIN outbox \cup {call[h].event}
         /\ \A e \in DOMAIN outbox' : e # call[h].event => outbox'[e] = outbox[e]
         /\ outbox'[call[h].event].msg = call[h].seq
         /\ outbox'[call[h].event].chat = call[h].chat
<1>1. CommitRows(h)
  BY DEF Stores
<1> QED
  BY <1>1 DEF CommitRows, WithRow

\* What deleting a chat leaves of the messages.
LEMMA DeleteDirectDoes ==
  ASSUME NEW c \in Chats, DeleteDirect(c)
  PROVE  /\ DOMAIN messages' = {s \in DOMAIN messages : messages[s].chat # c}
         /\ \A s \in DOMAIN messages' : messages'[s] = messages[s]
         /\ chats' = chats \ {c}
         /\ outbox' = outbox
<1>1. messages' = WithoutChat(messages, c)
  BY DEF DeleteDirect
<1> QED
  BY <1>1 DEF WithoutChat, DeleteDirect

\* The sequences only grow.
LEMMA StepCounters ==
  ASSUME TypeOK, [Next]_vars
  PROVE  lastSeq' \in {lastSeq, lastSeq + 1} /\ lastEvent' \in {lastEvent, lastEvent + 1}
BY StepCases
DEF CheckMember, InsertRow, InsertConflict, ReturnExisting, EnqueueEvent, Commit,
    CommitUnacknowledged, CommitRows, Respond, Abandons, DeleteDirect, vars, tables

\* An event is drawn by the transaction that enqueues it; the others keep theirs.
EnqueuedStep ==
  \/ \E h \in Handlers :
       /\ EnqueueEvent(h)
       /\ Enqueued' = Enqueued \cup {h}
       /\ h \notin Enqueued
       /\ call'[h].event = lastEvent + 1
       /\ \A g \in Enqueued : call'[g].event = call[g].event
  \/ Enqueued' \subseteq Enqueued /\ \A g \in Enqueued' : call'[g].event = call[g].event

\* An event id of an open transaction stays its own until the transaction ends.
LEMMA StepEnqueued ==
  ASSUME TypeOK, [Next]_vars
  PROVE  EnqueuedStep
<1>1. ASSUME NEW h \in Handlers, EnqueueEvent(h)
      PROVE  EnqueuedStep
  <2>1. /\ \A g \in Handlers : g # h => call'[g] = call[g]
        /\ call'[h].pc = "enqueued" /\ call'[h].event = lastEvent + 1
    BY <1>1, EnqueueEventDoes
  <2>2. call[h].pc = "inserted"
    BY <1>1 DEF EnqueueEvent
  <2> QED
    BY <1>1, <2>1, <2>2 DEF Enqueued, EnqueuedStep
<1>2. ASSUME NEW h \in Handlers,
             \A g \in Handlers : g # h => call'[g] = call[g],
             call'[h].pc # "enqueued"
      PROVE  EnqueuedStep
  BY <1>2 DEF Enqueued, EnqueuedStep
<1>3. ASSUME NEW h \in Handlers, NEW c \in Chats, NEW u \in Users,
             NEW k \in ClientIds \cup {Null}, NEW field \in IdFields,
             CheckMember(h, c, u, k, field)
      PROVE  EnqueuedStep
  BY <1>2, <1>3, CheckMemberDoes
<1>4. ASSUME NEW h \in Handlers, InsertRow(h) \/ InsertConflict(h) \/ Commit(h)
      PROVE  EnqueuedStep
  BY <1>2, <1>4, InsertRowDoes, InsertConflictDoes, CommitDoes
<1>5. ASSUME NEW h \in Handlers, ReturnExisting(h), call'[h] # Idle
      PROVE  EnqueuedStep
  BY <1>2, <1>5, ReturnExistingDoes
<1>6. ASSUME NEW h \in Handlers, CommitUnacknowledged(h) \/ Respond(h) \/ Abandons(h)
      PROVE  EnqueuedStep
  BY <1>2, <1>6, EndsDoes DEF CommitUnacknowledged, Respond, Abandons, Ends
<1>7. CASE call' = call
  BY <1>7 DEF Enqueued, EnqueuedStep
<1> QED
  BY <1>1, <1>3, <1>4, <1>5, <1>6, <1>7, StepCases DEF DeleteDirect, vars

-----------------------------------------------------------------------------
(* Every step preserves every part of the inductive invariant *)

\* Seqs of open transactions stay distinct and are not those of stored messages.
LEMMA StepFreshSeq ==
  ASSUME TypeOK, FreshSeq, [Next]_vars
  PROVE  FreshSeq'
<1> lastSeq \in Nat /\ lastSeq' \in {lastSeq, lastSeq + 1}
  BY StepCounters DEF TypeOK
<1>1. ASSUME NEW h \in Handlers, Opens(h), \A g \in Writers : Keeps(g)
      PROVE  FreshSeq'
  <2>1. \A g \in Writers : call[g].seq \in 1 .. lastSeq
    BY DEF FreshSeq
  <2>2. UNCHANGED <<messages, outbox>> /\ lastSeq' = lastSeq + 1
    BY <1>1 DEF Opens, InsertRow
  <2>3. \A s \in DOMAIN messages : s \in 1 .. lastSeq
    BY DEF TypeOK
  <2> QED
    BY <1>1, <2>1, <2>2, <2>3 DEF FreshSeq, Opens, Keeps
<1>2. ASSUME Writers' \subseteq Writers, \A g \in Writers' : Keeps(g)
      PROVE  FreshSeq'
  <2>1. ASSUME NEW h \in Handlers, Stores(h)
        PROVE  FreshSeq'
    <3>1. h \in Writers /\ h \notin Writers' /\ lastSeq' = lastSeq
      BY <2>1 DEF Stores, Writers, CommitRows
    <3>2. DOMAIN messages' = DOMAIN messages \cup {call[h].seq}
      BY <2>1, StoresDoes
    <3>3. /\ DOMAIN outbox' = DOMAIN outbox \cup {call[h].event}
          /\ \A e \in DOMAIN outbox' : e # call[h].event => outbox'[e] = outbox[e]
          /\ outbox'[call[h].event].msg = call[h].seq
      BY <2>1, StoresDoes
    <3> QED
      BY <1>2, <3>1, <3>2, <3>3 DEF FreshSeq, Keeps
  <2>2. ASSUME NEW c \in Chats, DeleteDirect(c)
        PROVE  FreshSeq'
    <3>1. DOMAIN messages' \subseteq DOMAIN messages /\ outbox' = outbox /\ lastSeq' = lastSeq
      BY <2>2, DeleteDirectDoes DEF DeleteDirect
    <3> QED
      BY <1>2, <3>1 DEF FreshSeq, Keeps
  <2>3. CASE UNCHANGED <<chats, members, messages, outbox>>
    BY <1>2, <2>3 DEF FreshSeq, Keeps
  <2> QED
    BY <2>1, <2>2, <2>3, StepTables DEF TablesStep
<1> QED
  BY <1>1, <1>2, StepWriters DEF WritersStep

\* Event ids of open transactions stay distinct and are not those of stored events.
LEMMA StepFreshEvent ==
  ASSUME TypeOK, FreshEvent, [Next]_vars
  PROVE  FreshEvent'
<1> lastEvent \in Nat /\ lastEvent' \in {lastEvent, lastEvent + 1}
  BY StepCounters DEF TypeOK
<1>1. ASSUME NEW h \in Handlers, EnqueueEvent(h), Enqueued' = Enqueued \cup {h},
             call'[h].event = lastEvent + 1, h \notin Enqueued,
             \A g \in Enqueued : call'[g].event = call[g].event
      PROVE  FreshEvent'
  <2>1. \A g \in Enqueued : call[g].event \in 1 .. lastEvent
    BY DEF FreshEvent
  <2>2. outbox' = outbox /\ lastEvent' = lastEvent + 1
    BY <1>1 DEF EnqueueEvent
  <2>3. \A e \in DOMAIN outbox : e \in 1 .. lastEvent
    BY DEF TypeOK
  <2> QED
    BY <1>1, <2>1, <2>2, <2>3 DEF FreshEvent
<1>2. ASSUME Enqueued' \subseteq Enqueued, \A g \in Enqueued' : call'[g].event = call[g].event
      PROVE  FreshEvent'
  <2>1. ASSUME NEW h \in Handlers, Stores(h)
        PROVE  FreshEvent'
    <3>1. h \in Enqueued /\ h \notin Enqueued' /\ lastEvent' = lastEvent
      BY <2>1 DEF Stores, Writers, Enqueued, CommitRows
    <3>2. DOMAIN outbox' = DOMAIN outbox \cup {call[h].event}
      BY <2>1, StoresDoes
    <3> QED
      BY <1>2, <3>1, <3>2 DEF FreshEvent
  <2>2. CASE outbox' = outbox
    BY <1>2, <2>2 DEF FreshEvent
  <2> QED
    BY <2>1, <2>2, StepTables DEF TablesStep, DeleteDirect
<1> QED
  BY <1>1, <1>2, StepEnqueued DEF EnqueuedStep

\* A client message id stays with one open transaction or one stored message.
LEMMA StepKeyExclusive ==
  ASSUME TypeOK, KeyExclusive, [Next]_vars
  PROVE  KeyExclusive'
<1>1. ASSUME NEW h \in Handlers, Opens(h), \A g \in Writers : Keeps(g)
      PROVE  KeyExclusive'
  <2>1. messages' = messages
    BY <1>1 DEF Opens, InsertRow
  <2>2. call[h].cid # Null =>
          /\ StoredUnder(call[h].chat, call[h].cid) = {}
          /\ ~KeyLocked(call[h].chat, call[h].cid)
    BY <1>1 DEF Opens, InsertRow
  <2> QED
    BY <1>1, <2>1, <2>2 DEF KeyExclusive, Opens, Keeps, KeyLocked, StoredUnder
<1>2. ASSUME Writers' \subseteq Writers, \A g \in Writers' : Keeps(g)
      PROVE  KeyExclusive'
  <2>1. ASSUME NEW h \in Handlers, Stores(h)
        PROVE  KeyExclusive'
    <3>1. h \in Writers /\ h \notin Writers'
      BY <2>1 DEF Stores, Writers
    <3>2. ASSUME NEW g \in Writers', call[g].cid # Null
          PROVE  StoredUnder(call[g].chat, call[g].cid)' = {}
      <4>1. g \in Writers /\ g # h /\ Keeps(g)
        BY <1>2, <3>1, <3>2
      <4>2. call[h].chat # call[g].chat \/ call[h].cid # call[g].cid
        BY <3>1, <3>2, <4>1 DEF KeyExclusive
      <4>3. \A s \in DOMAIN messages :
              messages[s].chat # call[g].chat \/ messages[s].cid # call[g].cid
        BY <3>2, <4>1 DEF KeyExclusive, StoredUnder
      <4>4. \A s \in DOMAIN messages' :
              messages'[s].chat # call[g].chat \/ messages'[s].cid # call[g].cid
        <5>1. /\ \A s \in DOMAIN messages' : s # call[h].seq => messages'[s] = messages[s]
              /\ DOMAIN messages' = DOMAIN messages \cup {call[h].seq}
              /\ messages'[call[h].seq].chat = call[h].chat
              /\ messages'[call[h].seq].cid = call[h].cid
          BY <2>1, StoresDoes
        <5> QED
          BY <4>2, <4>3, <5>1
      <4> QED
        BY <4>1, <4>4 DEF StoredUnder, Keeps
    <3> QED
      BY <1>2, <3>2 DEF KeyExclusive, Keeps
  <2>2. ASSUME NEW c \in Chats, DeleteDirect(c)
        PROVE  KeyExclusive'
    <3>1. /\ DOMAIN messages' \subseteq DOMAIN messages
          /\ \A s \in DOMAIN messages' : messages'[s] = messages[s]
      BY <2>2, DeleteDirectDoes
    <3> QED
      BY <1>2, <3>1 DEF KeyExclusive, Keeps, StoredUnder
  <2>3. CASE UNCHANGED <<chats, members, messages, outbox>>
    BY <1>2, <2>3 DEF KeyExclusive, Keeps, StoredUnder
  <2> QED
    BY <2>1, <2>2, <2>3, StepTables DEF TablesStep
<1> QED
  BY <1>1, <1>2, StepWriters DEF WritersStep

\* A chat that is stored in, or being written to, is not deleted.
LEMMA StepChatsExist ==
  ASSUME TypeOK, ChatsExist, [Next]_vars
  PROVE  ChatsExist'
<1>1. ASSUME NEW h \in Handlers, Opens(h), \A g \in Writers : Keeps(g)
      PROVE  ChatsExist'
  <2>1. UNCHANGED <<chats, members, messages>> /\ call[h].chat \in chats
    BY <1>1 DEF Opens, InsertRow
  <2> QED
    BY <1>1, <2>1 DEF ChatsExist, Opens, Keeps
<1>2. ASSUME Writers' \subseteq Writers, \A g \in Writers' : Keeps(g)
      PROVE  ChatsExist'
  <2>1. ASSUME NEW h \in Handlers, Stores(h)
        PROVE  ChatsExist'
    <3>1. UNCHANGED <<chats, members>> /\ h \in Writers
      BY <2>1 DEF Stores, CommitRows, Writers
    <3>2. \A s \in DOMAIN messages' : messages'[s].chat \in chats
      <4>1. /\ \A s \in DOMAIN messages' : s # call[h].seq => messages'[s] = messages[s]
            /\ DOMAIN messages' = DOMAIN messages \cup {call[h].seq}
            /\ messages'[call[h].seq].chat = call[h].chat
        BY <2>1, StoresDoes
      <4> QED
        BY <3>1, <4>1 DEF ChatsExist
    <3> QED
      BY <1>2, <3>1, <3>2 DEF ChatsExist, Keeps
  <2>2. ASSUME NEW c \in Chats, DeleteDirect(c)
        PROVE  ChatsExist'
    <3>1. /\ \A s \in DOMAIN messages' : s \in DOMAIN messages /\ messages[s].chat # c
          /\ \A s \in DOMAIN messages' : messages'[s] = messages[s]
      BY <2>2, DeleteDirectDoes
    <3>2. /\ chats' = chats \ {c}
          /\ \A m \in members' : m \in members /\ m[1] # c
          /\ \A g \in Writers : call[g].chat # c
      BY <2>2 DEF DeleteDirect, ChatLocked
    <3> QED
      BY <1>2, <3>1, <3>2 DEF ChatsExist, Keeps
  <2>3. CASE UNCHANGED <<chats, members, messages, outbox>>
    BY <1>2, <2>3 DEF ChatsExist, Keeps
  <2> QED
    BY <2>1, <2>2, <2>3, StepTables DEF TablesStep
<1> QED
  BY <1>1, <1>2, StepWriters DEF WritersStep

\* Every step keeps stored client message ids unique within their chats.
LEMMA StepUniqueClientId ==
  ASSUME TypeOK, KeyExclusive, UniqueClientId, [Next]_vars
  PROVE  UniqueClientId'
<1>1. ASSUME NEW h \in Handlers, Stores(h)
      PROVE  UniqueClientId'
  <2>1. h \in Writers
    BY <1>1 DEF Stores, Writers
  <2>2. \A s \in DOMAIN messages : call[h].cid # Null =>
          messages[s].chat # call[h].chat \/ messages[s].cid # call[h].cid
    BY <2>1 DEF KeyExclusive, StoredUnder
  <2>3. /\ \A s \in DOMAIN messages' : s # call[h].seq => messages'[s] = messages[s]
        /\ DOMAIN messages' = DOMAIN messages \cup {call[h].seq}
        /\ messages'[call[h].seq].chat = call[h].chat
        /\ messages'[call[h].seq].cid = call[h].cid
    BY <1>1, StoresDoes
  <2> QED
    BY <2>2, <2>3 DEF UniqueClientId
<1>2. ASSUME NEW c \in Chats, DeleteDirect(c)
      PROVE  UniqueClientId'
  <2>1. /\ DOMAIN messages' \subseteq DOMAIN messages
        /\ \A s \in DOMAIN messages' : messages'[s] = messages[s]
    BY <1>2, DeleteDirectDoes
  <2> QED
    BY <2>1 DEF UniqueClientId
<1>3. CASE UNCHANGED <<chats, members, messages, outbox>>
  BY <1>3 DEF UniqueClientId
<1> QED
  BY <1>1, <1>2, <1>3, StepTables DEF TablesStep

\* Every step keeps messages and outbox events together.
LEMMA StepTransactionalOutbox ==
  ASSUME TypeOK, FreshSeq, FreshEvent, ChatsExist, TransactionalOutbox, [Next]_vars
  PROVE  TransactionalOutbox'
<1>1. ASSUME NEW h \in Handlers, Stores(h)
      PROVE  TransactionalOutbox'
  <2>1. /\ call[h].seq \notin DOMAIN messages
        /\ \A e \in DOMAIN outbox : outbox[e].msg # call[h].seq
        /\ call[h].event \notin DOMAIN outbox
    BY <1>1 DEF Stores, FreshSeq, FreshEvent, Writers, Enqueued
  <2>2. chats' = chats
    BY <1>1 DEF Stores, CommitRows
  <2>6. /\ \A s \in DOMAIN messages' : s # call[h].seq => messages'[s] = messages[s]
        /\ DOMAIN messages' = DOMAIN messages \cup {call[h].seq}
        /\ messages'[call[h].seq].chat = call[h].chat
        /\ \A e \in DOMAIN outbox' : e # call[h].event => outbox'[e] = outbox[e]
        /\ DOMAIN outbox' = DOMAIN outbox \cup {call[h].event}
        /\ outbox'[call[h].event].msg = call[h].seq
        /\ outbox'[call[h].event].chat = call[h].chat
    BY <1>1, StoresDoes
  <2>3. (\A s \in DOMAIN messages : \E e \in DOMAIN outbox :
          outbox[e].msg = s /\ outbox[e].chat = messages[s].chat)'
    <3>1. ASSUME NEW s \in DOMAIN messages', s # call[h].seq
          PROVE  \E e \in DOMAIN outbox' : outbox'[e].msg = s /\ outbox'[e].chat = messages'[s].chat
      <4>1. s \in DOMAIN messages /\ messages'[s] = messages[s]
        BY <2>6, <3>1
      <4>2. PICK e \in DOMAIN outbox : outbox[e].msg = s /\ outbox[e].chat = messages[s].chat
        BY <4>1 DEF TransactionalOutbox
      <4>3. e \in DOMAIN outbox' /\ outbox'[e] = outbox[e]
        BY <2>1, <2>6
      <4> QED
        BY <4>1, <4>2, <4>3
    <3>2. \E e \in DOMAIN outbox' :
            /\ outbox'[e].msg = call[h].seq
            /\ outbox'[e].chat = messages'[call[h].seq].chat
      BY <2>6
    <3> QED
      BY <3>1, <3>2, <2>6
  <2>4. (\A e, f \in DOMAIN outbox : outbox[e].msg = outbox[f].msg => e = f)'
    BY <2>1, <2>6 DEF TransactionalOutbox
  <2>5. (\A e \in DOMAIN outbox : outbox[e].chat \in chats => outbox[e].msg \in DOMAIN messages)'
    BY <2>1, <2>2, <2>6 DEF TransactionalOutbox
  <2> QED
    BY <2>3, <2>4, <2>5 DEF TransactionalOutbox
<1>2. ASSUME NEW c \in Chats, DeleteDirect(c)
      PROVE  TransactionalOutbox'
  <2>1. /\ DOMAIN messages' = {s \in DOMAIN messages : messages[s].chat # c}
        /\ \A s \in DOMAIN messages' : messages'[s] = messages[s]
        /\ outbox' = outbox
        /\ chats' = chats \ {c}
    BY <1>2, DeleteDirectDoes
  <2>2. \A e \in DOMAIN outbox : outbox[e].msg \in DOMAIN messages =>
          messages[outbox[e].msg].chat = outbox[e].chat
    <3>1. ASSUME NEW e \in DOMAIN outbox, outbox[e].msg \in DOMAIN messages
          PROVE  messages[outbox[e].msg].chat = outbox[e].chat
      <4>1. PICK f \in DOMAIN outbox : /\ outbox[f].msg = outbox[e].msg
                                       /\ outbox[f].chat = messages[outbox[e].msg].chat
        BY <3>1 DEF TransactionalOutbox
      <4> QED
        BY <4>1 DEF TransactionalOutbox
    <3> QED
      BY <3>1
  <2> QED
    BY <2>1, <2>2 DEF TransactionalOutbox
<1>3. CASE UNCHANGED <<chats, members, messages, outbox>>
  BY <1>3 DEF TransactionalOutbox
<1> QED
  BY <1>1, <1>2, <1>3, StepTables DEF TablesStep

\* A new answer comes from a commit or from a message read back; Respond only moves one.
Answering(h) ==
  \/ Commit(h)
  \/ ReturnExisting(h) /\ call'[h] # Idle

AnswersStep ==
  \/ \E h \in Handlers :
       /\ Answering(h)
       /\ Answers' \subseteq Answers \cup {Answer(h)'}
  \/ Answers' \subseteq Answers

\* The answers given or due grow only by one that a commit or a read back makes due.
LEMMA StepAnswers ==
  ASSUME TypeOK, [Next]_vars
  PROVE  AnswersStep
<1>1. ASSUME NEW h \in Handlers, replies' = replies,
             \A g \in Handlers : g # h => call'[g] = call[g]
      PROVE  Answers' \subseteq Answers \cup {Answer(h)'}
  BY <1>1 DEF Answers, Answer
<1>2. ASSUME NEW h \in Handlers, replies' = replies,
             \A g \in Handlers : g # h => call'[g] = call[g],
             call'[h].pc # "respond"
      PROVE  AnswersStep
  BY <1>2 DEF Answers, Answer, AnswersStep
<1>3. ASSUME NEW h \in Handlers, Commit(h)
      PROVE  AnswersStep
  <2>1. replies' = replies /\ \A g \in Handlers : g # h => call'[g] = call[g]
    BY <1>3, CommitDoes DEF Commit, CommitRows
  <2> QED
    BY <1>1, <1>3, <2>1 DEF AnswersStep, Answering
<1>4. ASSUME NEW h \in Handlers, ReturnExisting(h), call'[h] # Idle
      PROVE  AnswersStep
  <2>1. replies' = replies /\ \A g \in Handlers : g # h => call'[g] = call[g]
    BY <1>4, ReturnExistingDoes DEF ReturnExisting
  <2> QED
    BY <1>1, <1>4, <2>1 DEF AnswersStep, Answering
<1>5. ASSUME NEW h \in Handlers, Respond(h)
      PROVE  AnswersStep
  <2>1. /\ \A g \in Handlers : g # h => call'[g] = call[g]
        /\ call'[h].pc = "idle"
    BY <1>5, EndsDoes DEF Respond, Ends
  <2>2. replies' = replies \cup {Answer(h)} /\ call[h].pc = "respond"
    BY <1>5 DEF Respond
  <2> QED
    BY <2>1, <2>2 DEF Answers, Answer, AnswersStep
<1>6. ASSUME NEW h \in Handlers, NEW c \in Chats, NEW u \in Users,
             NEW k \in ClientIds \cup {Null}, NEW field \in IdFields,
             CheckMember(h, c, u, k, field)
      PROVE  AnswersStep
  <2>1. /\ replies' = replies
        /\ \A g \in Handlers : g # h => call'[g] = call[g]
        /\ call'[h].pc = "checked"
    BY <1>6, CheckMemberDoes DEF CheckMember
  <2> QED
    BY <1>2, <2>1
<1>7. ASSUME NEW h \in Handlers, InsertRow(h) \/ InsertConflict(h) \/ EnqueueEvent(h)
      PROVE  AnswersStep
  <2>1. /\ replies' = replies
        /\ \A g \in Handlers : g # h => call'[g] = call[g]
        /\ call'[h].pc \in {"inserted", "conflict", "enqueued"}
    BY <1>7, InsertRowDoes, InsertConflictDoes, EnqueueEventDoes
    DEF InsertRow, InsertConflict, EnqueueEvent
  <2> QED
    BY <1>2, <2>1
<1>8. ASSUME NEW h \in Handlers, CommitUnacknowledged(h) \/ Abandons(h)
      PROVE  AnswersStep
  <2>1. /\ replies' = replies
        /\ \A g \in Handlers : g # h => call'[g] = call[g]
        /\ call'[h].pc = "idle"
    BY <1>8, EndsDoes DEF CommitUnacknowledged, CommitRows, Abandons, Ends
  <2> QED
    BY <1>2, <2>1
<1>9. CASE UNCHANGED <<call, replies>>
  BY <1>9 DEF Answers, Answer, AnswersStep
<1> QED
  BY <1>3, <1>4, <1>5, <1>6, <1>7, <1>8, <1>9, StepCases DEF DeleteDirect, vars

\* Messages of a chat that still exists are never removed or rewritten.
LEMMA StoredStays ==
  ASSUME TypeOK, FreshSeq, [Next]_vars,
         NEW s \in DOMAIN messages, messages[s].chat \in chats'
  PROVE  s \in DOMAIN messages' /\ messages'[s] = messages[s]
<1>1. ASSUME NEW h \in Handlers, Stores(h)
      PROVE  s \in DOMAIN messages' /\ messages'[s] = messages[s]
  <2>1. call[h].seq \notin DOMAIN messages
    BY <1>1 DEF Stores, FreshSeq, Writers
  <2>2. /\ DOMAIN messages' = DOMAIN messages \cup {call[h].seq}
        /\ \A t \in DOMAIN messages' : t # call[h].seq => messages'[t] = messages[t]
    BY <1>1, StoresDoes
  <2> QED
    BY <2>1, <2>2
<1>2. ASSUME NEW c \in Chats, DeleteDirect(c)
      PROVE  s \in DOMAIN messages' /\ messages'[s] = messages[s]
  <2>1. /\ DOMAIN messages' = {t \in DOMAIN messages : messages[t].chat # c}
        /\ \A t \in DOMAIN messages' : messages'[t] = messages[t]
        /\ chats' = chats \ {c}
    BY <1>2, DeleteDirectDoes
  <2> QED
    BY <2>1
<1> QED
  BY <1>1, <1>2, StepTables DEF TablesStep

\* An answer that a commit or a read back makes is stored under its own key, and one that
\* a read back makes is not new.
LEMMA NewAnswer ==
  ASSUME TypeOK, Begun, FreshSeq, ChatsExist, [Next]_vars, NEW h \in Handlers,
         Answering(h)
  PROVE  LET a == Answer(h)' IN
         /\ a.chat = call[h].chat /\ a.cid = call[h].cid
         /\ a.seq \in DOMAIN messages' /\ messages'[a.seq].chat = a.chat
         /\ messages'[a.seq].cid = a.cid
         /\ a.chat \in chats /\ a.chat \in chats'
         /\ ReturnExisting(h) => ~a.isNew
<1> DEFINE a == Answer(h)'
<1>1. /\ a.chat = call'[h].chat /\ a.cid = call'[h].cid /\ a.seq = call'[h].seq
      /\ a.isNew = call'[h].isNew
  BY DEF Answer
<1>2. CASE Commit(h)
  <2>1. /\ call'[h].chat = call[h].chat /\ call'[h].cid = call[h].cid
        /\ call'[h].seq = call[h].seq /\ call'[h].pc = "respond"
    BY <1>2, CommitDoes
  <2>2. Stores(h)
    BY <1>2, <2>1 DEF Stores, Commit, Writers
  <2>3. /\ DOMAIN messages' = DOMAIN messages \cup {call[h].seq}
        /\ messages'[call[h].seq].chat = call[h].chat
        /\ messages'[call[h].seq].cid = call[h].cid
    BY <2>2, StoresDoes
  <2>4. call[h].chat \in chats /\ chats' = chats
    BY <1>2 DEF Commit, CommitRows, ChatsExist, Writers
  <2>5. ~ReturnExisting(h)
    BY <1>2 DEF Commit, ReturnExisting
  <2> QED
    BY <1>1, <2>1, <2>3, <2>4, <2>5
<1>3. CASE ReturnExisting(h) /\ call'[h] # Idle
  <2>1. PICK s \in StoredUnder(call[h].chat, call[h].cid) :
          /\ call'[h].seq = s
          /\ call'[h].chat = call[h].chat /\ call'[h].cid = call[h].cid
          /\ call'[h].isNew = call[h].isNew
    BY <1>3, ReturnExistingDoes
  <2>2. s \in DOMAIN messages /\ messages[s].chat = call[h].chat /\ messages[s].cid = call[h].cid
    BY DEF StoredUnder
  <2>3. UNCHANGED <<chats, messages>> /\ call[h].pc = "conflict"
    BY <1>3 DEF ReturnExisting, tables
  <2>4. call[h].chat \in chats /\ ~call[h].isNew
    BY <2>2, <2>3 DEF ChatsExist, Begun
  <2> QED
    BY <1>1, <2>1, <2>2, <2>3, <2>4
<1> QED
  BY <1>2, <1>3 DEF Answering

\* Answers, and those about to be given, stay true of the messages table.
LEMMA StepAnswersStored ==
  ASSUME TypeOK, Begun, FreshSeq, ChatsExist, AnswersStored, [Next]_vars
  PROVE  AnswersStored'
<1>1. ASSUME NEW a \in Answers, a.chat \in chats'
      PROVE  /\ a.seq \in DOMAIN messages'
             /\ messages'[a.seq].chat = a.chat
             /\ messages'[a.seq].cid = a.cid
  <2>1. chats' \subseteq chats
    BY StepTables DEF TablesStep, Stores, CommitRows, DeleteDirect
  <2>2. /\ a.seq \in DOMAIN messages
        /\ messages[a.seq].chat = a.chat
        /\ messages[a.seq].cid = a.cid
    BY <1>1, <2>1 DEF AnswersStored
  <2> QED
    BY <1>1, <2>2, StoredStays
<1>2. ASSUME NEW h \in Handlers, Answering(h),
             NEW a, a = Answer(h)'
      PROVE  /\ a.seq \in DOMAIN messages'
             /\ messages'[a.seq].chat = a.chat
             /\ messages'[a.seq].cid = a.cid
  BY <1>2, NewAnswer
<1> QED
  BY <1>1, <1>2, StepAnswers DEF AnswersStep, AnswersStored

\* Answers for one client message id keep naming one message, once as new.
LEMMA StepAnswersConsistent ==
  ASSUME TypeOK, Begun, FreshSeq, KeyExclusive, ChatsExist, UniqueClientId,
         AnswersStored, AnswersConsistent, UniqueClientId', [Next]_vars
  PROVE  AnswersConsistent'
<1> DEFINE Agree(a, b) ==
      a.chat = b.chat /\ a.cid = b.cid /\ a.cid # Null
      => a.seq = b.seq /\ (a.isNew /\ b.isNew => a.n = b.n)
<1>1. \A a, b \in Answers : Agree(a, b)
  BY DEF AnswersConsistent
<1>2. ASSUME NEW h \in Handlers, Answering(h),
             NEW a, a = Answer(h)', NEW b \in Answers,
             a.chat = b.chat, a.cid = b.cid, a.cid # Null
      PROVE  a.seq = b.seq /\ ~a.isNew
  <2>1. /\ a.chat = call[h].chat /\ a.cid = call[h].cid
        /\ a.seq \in DOMAIN messages' /\ messages'[a.seq].chat = a.chat
        /\ messages'[a.seq].cid = a.cid
        /\ a.chat \in chats /\ a.chat \in chats'
        /\ ReturnExisting(h) => ~a.isNew
    BY <1>2, NewAnswer
  <2>2. /\ b.seq \in DOMAIN messages
        /\ messages[b.seq].chat = b.chat
        /\ messages[b.seq].cid = b.cid
    BY <1>2, <2>1 DEF AnswersStored
  <2>3. ~Commit(h)
    <3>1. b.seq \in StoredUnder(call[h].chat, call[h].cid)
      BY <1>2, <2>1, <2>2 DEF StoredUnder
    <3>2. Commit(h) => h \in Writers
      BY DEF Commit, Writers
    <3> QED
      BY <1>2, <2>1, <3>1, <3>2 DEF KeyExclusive
  <2>4. b.seq \in DOMAIN messages' /\ messages'[b.seq] = messages[b.seq]
    BY <1>2, <2>1, <2>2, StoredStays
  <2>5. a.seq = b.seq
    BY <1>2, <2>1, <2>2, <2>4 DEF UniqueClientId
  <2> QED
    BY <1>2, <2>1, <2>3, <2>5 DEF Answering
<1>3. ASSUME NEW h \in Handlers, Answering(h),
             Answers' \subseteq Answers \cup {Answer(h)'},
             NEW a \in Answers', NEW b \in Answers'
      PROVE  Agree(a, b)
  <2>1. CASE a \in Answers /\ b \in Answers
    BY <1>1, <2>1
  <2>2. CASE a = Answer(h)' /\ b \in Answers
    BY <1>2, <1>3, <2>2
  <2>3. CASE a \in Answers /\ b = Answer(h)'
    BY <1>2, <1>3, <2>3
  <2>4. CASE a = Answer(h)' /\ b = Answer(h)'
    BY <2>4
  <2> QED
    BY <1>3, <2>1, <2>2, <2>3, <2>4
<1>4. CASE Answers' \subseteq Answers
  BY <1>1, <1>4 DEF AnswersConsistent
<1> QED
  BY <1>3, <1>4, StepAnswers DEF AnswersStep, AnswersConsistent

-----------------------------------------------------------------------------
(* The theorems *)

\* The inductive invariant holds initially.
LEMMA InitIInv == Init => IInv
<1> SUFFICES ASSUME Init PROVE IInv
  OBVIOUS
<1>1. /\ messages = [s \in {} |-> Null] /\ outbox = [e \in {} |-> Null]
      /\ lastSeq = 0 /\ lastEvent = 0 /\ calls = 0 /\ replies = {}
      /\ chats = Chats /\ members = Membership
      /\ call = [h \in Handlers |-> Idle]
  BY DEF Init
<1>2. TypeOK
  <2>1. call \in [Handlers -> Call]
    BY <1>1, IdleIsCall
  <2>2. messages \in [DOMAIN messages -> MessageRow] /\ DOMAIN messages \subseteq 1 .. lastSeq
    BY <1>1
  <2>3. outbox \in [DOMAIN outbox -> EventRow] /\ DOMAIN outbox \subseteq 1 .. lastEvent
    BY <1>1
  <2>4. replies \in SUBSET Reply
    BY <1>1
  <2> QED
    BY <1>1, <2>1, <2>2, <2>3, <2>4, SendMessageAssumption DEF TypeOK
<1>3. \A h \in Handlers : call[h].pc = "idle" /\ call[h].isNew = FALSE
  BY <1>1 DEF Idle
<1>4. Begun
  BY <1>3 DEF Begun
<1>5. Writers = {} /\ Enqueued = {} /\ Answers = {}
  BY <1>1, <1>3 DEF Writers, Enqueued, Answers
<1>6. FreshSeq /\ FreshEvent /\ KeyExclusive
  BY <1>1, <1>5 DEF FreshSeq, FreshEvent, KeyExclusive
<1>7. ChatsExist
  BY <1>1, <1>5, SendMessageAssumption DEF ChatsExist
<1>8. UniqueClientId /\ TransactionalOutbox /\ AnswersStored /\ AnswersConsistent
  BY <1>1, <1>5 DEF UniqueClientId, TransactionalOutbox, AnswersStored, AnswersConsistent
<1> QED
  BY <1>2, <1>4, <1>6, <1>7, <1>8 DEF IInv

\* Every step preserves the inductive invariant.
LEMMA StepIInv == IInv /\ [Next]_vars => IInv'
<1> SUFFICES ASSUME IInv, [Next]_vars PROVE IInv'
  OBVIOUS
<1> USE DEF IInv
<1>1. TypeOK' /\ Begun' /\ FreshSeq' /\ FreshEvent'
  BY StepTypes, StepBegun, StepFreshSeq, StepFreshEvent
<1>2. KeyExclusive' /\ ChatsExist' /\ UniqueClientId' /\ TransactionalOutbox'
  BY StepKeyExclusive, StepChatsExist, StepUniqueClientId, StepTransactionalOutbox
<1>3. AnswersStored'
  BY StepAnswersStored
<1>4. AnswersConsistent'
  BY <1>2, StepAnswersConsistent
<1> QED
  BY <1>1, <1>2, <1>3, <1>4

\* The inductive invariant holds in every reachable state.
THEOREM Invariance == Spec => []IInv
  BY InitIInv, StepIInv, PTL DEF Spec

\* Every reachable state of the message tables and the handlers is well typed.
THEOREM TypeCorrect == Spec => []TypeOK
<1>1. IInv => TypeOK
  BY DEF IInv
<1> QED
  BY <1>1, Invariance, PTL

\* Retries that race never store two messages under one client message id.
THEOREM ClientIdsAreUnique == Spec => []UniqueClientId
<1>1. IInv => UniqueClientId
  BY DEF IInv
<1> QED
  BY <1>1, Invariance, PTL

\* A stored message always has exactly one outbox event.
THEOREM OutboxIsTransactional == Spec => []TransactionalOutbox
<1>1. IInv => TransactionalOutbox
  BY DEF IInv
<1> QED
  BY <1>1, Invariance, PTL

\* Callers that used one client message id are told of one message, once as new.
THEOREM RetriesAgree == Spec => []AnswersAgree
<1>1. IInv => AnswersAgree
  BY DEF IInv, AnswersConsistent, Answers, AnswersAgree
<1> QED
  BY <1>1, Invariance, PTL

\* A message that a caller was told of stays stored while its chat exists.
THEOREM AnswersAreDurable == Spec => []AnsweredIsStored
<1>1. IInv => AnsweredIsStored
  BY DEF IInv, AnswersStored, Answers, AnsweredIsStored
<1> QED
  BY <1>1, Invariance, PTL

-----------------------------------------------------------------------------
(* What the readers of a chat see *)

\* What LogOf(c) maps open and stored to.
OpenOf(c) == {call[h].seq : h \in {g \in Writers : call[g].chat = c}}
StoredOf(c) == {s \in DOMAIN messages : messages[s].chat = c}

-----------------------------------------------------------------------------
(* What a step of MessageLog looks like through the mapping *)

\* A step that changes nothing of the chat's log is a stutter or a burned seq.
LEMMA LogUnchanged ==
  ASSUME NEW c \in Chats, lastSeq' \in {lastSeq, lastSeq + 1},
         OpenOf(c)' = OpenOf(c), StoredOf(c)' = StoredOf(c), (c \in chats)' = (c \in chats)
  PROVE  [LogOf(c)!Next]_(LogOf(c)!vars)
BY DEF LogOf!Next, LogOf!Burn, LogOf!vars, OpenOf, StoredOf

\* A message is inserted.
LEMMA LogInserted ==
  ASSUME NEW c \in Chats, c \in chats, lastSeq' = lastSeq + 1,
         OpenOf(c)' = OpenOf(c) \cup {lastSeq + 1}, StoredOf(c)' = StoredOf(c),
         (c \in chats)' = (c \in chats)
  PROVE  LogOf(c)!Next
BY DEF LogOf!Next, LogOf!Insert, OpenOf, StoredOf

\* An open message becomes a stored one, or disappears.
LEMMA LogEnded ==
  ASSUME NEW c \in Chats, NEW s \in OpenOf(c), lastSeq' = lastSeq,
         OpenOf(c)' = OpenOf(c) \ {s},
         StoredOf(c)' \in {StoredOf(c), StoredOf(c) \cup {s}},
         (c \in chats)' = (c \in chats)
  PROVE  LogOf(c)!Next
BY DEF LogOf!Next, LogOf!Commit, LogOf!Abort, OpenOf, StoredOf

\* The chat is deleted.
LEMMA LogCleared ==
  ASSUME NEW c \in Chats, c \in chats, OpenOf(c) = {}, OpenOf(c)' = {},
         StoredOf(c)' = {}, (c \in chats)' = FALSE, lastSeq' = lastSeq
  PROVE  LogOf(c)!Next
BY DEF LogOf!Next, LogOf!Clear, OpenOf, StoredOf

-----------------------------------------------------------------------------
(* What the steps of SendMessage do to the open messages *)

\* A call of a handler that writes neither before nor after changes no open message.
LEMMA OpenUnchanged ==
  ASSUME NEW c \in Chats, NEW h \in Handlers,
         \A g \in Handlers : g # h => call'[g] = call[g],
         h \in Writers <=> h \in Writers',
         h \in Writers => call'[h].seq = call[h].seq /\ call'[h].chat = call[h].chat
  PROVE  OpenOf(c)' = OpenOf(c)
<1>1. Writers' = Writers
  BY DEF Writers
<1>2. \A g \in Writers : call'[g].seq = call[g].seq /\ call'[g].chat = call[g].chat
  BY DEF Writers
<1> QED
  BY <1>1, <1>2 DEF OpenOf

\* When a transaction ends, its message is no longer open, and the others stay so.
LEMMA OpenEnded ==
  ASSUME FreshSeq, NEW c \in Chats, NEW h \in Writers, h \notin Writers',
         \A g \in Handlers : g # h => call'[g] = call[g]
  PROVE  OpenOf(c)' = IF call[h].chat = c THEN OpenOf(c) \ {call[h].seq} ELSE OpenOf(c)
<1>1. Writers' = Writers \ {h}
  BY DEF Writers
<1>2. \A g \in Writers \ {h} : call'[g].seq = call[g].seq /\ call'[g].chat = call[g].chat
  BY DEF Writers
<1>3. \A g \in Writers \ {h} : call[g].seq # call[h].seq
  BY DEF FreshSeq
<1> QED
  BY <1>1, <1>2, <1>3 DEF OpenOf

-----------------------------------------------------------------------------
(* The refinement *)

\* Every step maps to a step of the chat's log or to a stutter.
LEMMA StepLog ==
  ASSUME IInv, [Next]_vars, NEW c \in Chats
  PROVE  [LogOf(c)!Next]_(LogOf(c)!vars)
<1> USE DEF IInv
<1>1. ASSUME NEW h \in Handlers, NEW d \in Chats, NEW u \in Users,
             NEW k \in ClientIds \cup {Null}, NEW field \in IdFields,
             CheckMember(h, d, u, k, field)
      PROVE  OpenOf(c)' = OpenOf(c)
  <2>1. /\ \A g \in Handlers : g # h => call'[g] = call[g]
        /\ call[h].pc = "idle" /\ call'[h].pc = "checked"
    BY <1>1, CheckMemberDoes DEF CheckMember
  <2> QED
    BY <2>1, OpenUnchanged DEF Writers
<1>2. ASSUME NEW h \in Handlers, InsertConflict(h)
      PROVE  OpenOf(c)' = OpenOf(c)
  <2>1. /\ \A g \in Handlers : g # h => call'[g] = call[g]
        /\ call[h].pc = "checked" /\ call'[h].pc = "conflict"
    BY <1>2, InsertConflictDoes DEF InsertConflict
  <2> QED
    BY <2>1, OpenUnchanged DEF Writers
<1>3. ASSUME NEW h \in Handlers, ReturnExisting(h), call'[h] # Idle
      PROVE  OpenOf(c)' = OpenOf(c)
  <2>1. /\ \A g \in Handlers : g # h => call'[g] = call[g]
        /\ call[h].pc = "conflict" /\ call'[h].pc = "respond"
    BY <1>3, ReturnExistingDoes DEF ReturnExisting
  <2> QED
    BY <2>1, OpenUnchanged DEF Writers
<1>4. ASSUME NEW h \in Handlers, EnqueueEvent(h)
      PROVE  OpenOf(c)' = OpenOf(c)
  <2>1. /\ \A g \in Handlers : g # h => call'[g] = call[g]
        /\ call[h].pc = "inserted" /\ call'[h].pc = "enqueued"
        /\ call'[h].seq = call[h].seq /\ call'[h].chat = call[h].chat
    BY <1>4, EnqueueEventDoes DEF EnqueueEvent
  <2> QED
    BY <2>1, OpenUnchanged DEF Writers
<1>5. ASSUME NEW h \in Handlers, InsertRow(h)
      PROVE  [LogOf(c)!Next]_(LogOf(c)!vars)
  <2>1. /\ \A g \in Handlers : g # h => call'[g] = call[g]
        /\ call'[h].pc = "inserted" /\ call'[h].seq = lastSeq + 1
        /\ call'[h].chat = call[h].chat
    BY <1>5, InsertRowDoes
  <2>2. /\ call[h].pc = "checked" /\ call[h].chat \in chats
        /\ lastSeq' = lastSeq + 1 /\ UNCHANGED <<chats, messages>>
    BY <1>5 DEF InsertRow
  <2>3. Writers' = Writers \cup {h} /\ h \notin Writers
    BY <2>1, <2>2 DEF Writers
  <2>4. \A g \in Writers : call'[g].seq = call[g].seq /\ call'[g].chat = call[g].chat
    BY <2>1, <2>3 DEF Writers
  <2>5. StoredOf(c)' = StoredOf(c) /\ (c \in chats)' = (c \in chats)
    BY <2>2 DEF StoredOf
  <2>6. CASE call[h].chat = c
    <3>1. OpenOf(c)' = OpenOf(c) \cup {lastSeq + 1}
      BY <2>1, <2>3, <2>4, <2>6 DEF OpenOf
    <3> QED
      BY <2>2, <2>5, <2>6, <3>1, LogInserted
  <2>7. CASE call[h].chat # c
    <3>1. OpenOf(c)' = OpenOf(c)
      BY <2>1, <2>3, <2>4, <2>7 DEF OpenOf
    <3> QED
      BY <2>2, <2>5, <3>1, LogUnchanged
  <2> QED
    BY <2>6, <2>7
<1>6. ASSUME NEW h \in Handlers, Commit(h) \/ CommitUnacknowledged(h)
      PROVE  [LogOf(c)!Next]_(LogOf(c)!vars)
  <2>1. /\ \A g \in Handlers : g # h => call'[g] = call[g]
        /\ call[h].pc = "enqueued" /\ call'[h].pc \in {"respond", "idle"}
    BY <1>6, CommitDoes, EndsDoes DEF Commit, CommitUnacknowledged, Ends
  <2>2. h \in Writers /\ h \notin Writers'
    BY <2>1 DEF Writers
  <2>3. Stores(h) /\ lastSeq' = lastSeq /\ chats' = chats
    <3>1. CommitRows(h)
      BY <1>6 DEF Commit, CommitUnacknowledged
    <3>2. lastSeq' = lastSeq /\ chats' = chats
      BY <3>1 DEF CommitRows
    <3> QED
      BY <2>1, <2>2, <3>1, <3>2 DEF Stores
  <2>4. /\ OpenOf(c)' = IF call[h].chat = c THEN OpenOf(c) \ {call[h].seq} ELSE OpenOf(c)
        /\ (c \in chats)' = (c \in chats)
    BY <2>1, <2>2, <2>3, OpenEnded
  <2>5. /\ DOMAIN messages' = DOMAIN messages \cup {call[h].seq}
        /\ \A s \in DOMAIN messages' : s # call[h].seq => messages'[s] = messages[s]
        /\ messages'[call[h].seq].chat = call[h].chat
    BY <2>3, StoresDoes
  <2>6. call[h].seq \notin DOMAIN messages
    BY <2>2 DEF FreshSeq
  <2>7. CASE call[h].chat = c
    <3>1. StoredOf(c)' = StoredOf(c) \cup {call[h].seq}
      BY <2>5, <2>6, <2>7 DEF StoredOf
    <3>2. call[h].seq \in OpenOf(c)
      BY <2>2, <2>7 DEF OpenOf
    <3> QED
      BY <2>3, <2>4, <2>7, <3>1, <3>2, LogEnded
  <2>8. CASE call[h].chat # c
    <3>1. StoredOf(c)' = StoredOf(c)
      BY <2>5, <2>6, <2>8 DEF StoredOf
    <3> QED
      BY <2>3, <2>4, <2>8, <3>1, LogUnchanged
  <2> QED
    BY <2>7, <2>8
<1>7. ASSUME NEW h \in Handlers, InsertOrphan(h) \/ Fail(h) \/ Respond(h)
                                   \/ (ReturnExisting(h) /\ call'[h] = Idle)
      PROVE  [LogOf(c)!Next]_(LogOf(c)!vars)
  <2>1. /\ \A g \in Handlers : g # h => call'[g] = call[g]
        /\ call'[h].pc = "idle"
    <3>1. CASE ReturnExisting(h) /\ call'[h] = Idle
      <4>1. Abandons(h)
        BY <3>1, ReturnExistingAbandons
      <4> QED
        BY <4>1, EndsDoes DEF Abandons
    <3> QED
      BY <1>7, <3>1, EndsDoes DEF InsertOrphan, Fail, Respond, Ends
  <2>2. UNCHANGED <<chats, messages>>
    BY <1>7 DEF InsertOrphan, Fail, Respond, ReturnExisting, tables
  <2>3. StoredOf(c)' = StoredOf(c) /\ (c \in chats)' = (c \in chats)
    BY <2>2 DEF StoredOf
  <2>4. h \notin Writers'
    BY <2>1 DEF Writers
  <2>5. CASE h \in Writers
    <3>1. lastSeq' = lastSeq
      BY <1>7, <2>5 DEF Writers, InsertOrphan, Fail, Respond, ReturnExisting, tables
    <3>2. OpenOf(c)' = IF call[h].chat = c THEN OpenOf(c) \ {call[h].seq} ELSE OpenOf(c)
      BY <2>1, <2>4, <2>5, OpenEnded
    <3>3. call[h].chat = c => call[h].seq \in OpenOf(c)
      BY <2>5 DEF OpenOf
    <3> QED
      BY <2>3, <3>1, <3>2, <3>3, LogEnded, LogUnchanged
  <2>6. CASE h \notin Writers
    <3>1. OpenOf(c)' = OpenOf(c)
      BY <2>1, <2>4, <2>6, OpenUnchanged
    <3>2. lastSeq' \in {lastSeq, lastSeq + 1}
      BY StepCounters
    <3> QED
      BY <2>3, <3>1, <3>2, LogUnchanged
  <2> QED
    BY <2>5, <2>6
<1>8. ASSUME NEW d \in Chats, DeleteDirect(d)
      PROVE  [LogOf(c)!Next]_(LogOf(c)!vars)
  <2>1. /\ d \in chats /\ chats' = chats \ {d} /\ lastSeq' = lastSeq /\ call' = call
        /\ \A g \in Writers : call[g].chat # d
    BY <1>8 DEF DeleteDirect, ChatLocked
  <2>2. /\ DOMAIN messages' = {s \in DOMAIN messages : messages[s].chat # d}
        /\ \A s \in DOMAIN messages' : messages'[s] = messages[s]
    BY <1>8, DeleteDirectDoes
  <2>3. OpenOf(c)' = OpenOf(c)
    BY <2>1 DEF OpenOf, Writers
  <2>4. CASE d = c
    <3>1. OpenOf(c) = {} /\ StoredOf(c)' = {}
      BY <2>1, <2>2, <2>4 DEF OpenOf, StoredOf
    <3>2. c \in chats /\ (c \in chats)' = FALSE /\ OpenOf(c)' = {}
      BY <2>1, <2>3, <2>4, <3>1
    <3> QED
      BY <2>1, <3>1, <3>2, LogCleared
  <2>5. CASE d # c
    <3>1. StoredOf(c)' = StoredOf(c)
      BY <2>2, <2>5 DEF StoredOf
    <3> QED
      BY <2>1, <2>3, <2>5, <3>1, LogUnchanged
  <2> QED
    BY <2>4, <2>5
<1>9. CASE OpenOf(c)' = OpenOf(c) /\ UNCHANGED <<chats, messages>>
  <2>1. StoredOf(c)' = StoredOf(c) /\ (c \in chats)' = (c \in chats)
    BY <1>9 DEF StoredOf
  <2>2. lastSeq' \in {lastSeq, lastSeq + 1}
    BY StepCounters
  <2> QED
    BY <1>9, <2>1, <2>2, LogUnchanged
<1>10. CASE UNCHANGED vars
  <2>1. OpenOf(c)' = OpenOf(c) /\ UNCHANGED <<chats, messages>>
    BY <1>10 DEF vars, tables, OpenOf, Writers
  <2> QED
    BY <2>1, <1>9
<1>11. \/ \E h \in Handlers, d \in Chats, u \in Users, k \in ClientIds \cup {Null},
              field \in IdFields : CheckMember(h, d, u, k, field)
       \/ \E h \in Handlers : InsertConflict(h) \/ EnqueueEvent(h)
       \/ \E h \in Handlers : ReturnExisting(h) /\ call'[h] # Idle
       => UNCHANGED <<chats, messages>>
  BY DEF CheckMember, InsertConflict, EnqueueEvent, ReturnExisting, tables
<1> QED
  BY <1>1, <1>2, <1>3, <1>4, <1>5, <1>6, <1>7, <1>8, <1>9, <1>10, <1>11
  DEF Next, Proceed, Rest

\* SendMessage and the deletion of chats implement MessageLog for every chat: readers that
\* rely only on MessageLog may rely on SendMessage.
THEOREM ReadersSeeMessageLog == Spec => ImplementsMessageLog
<1>1. Init => \A c \in Chats : LogOf(c)!Init
  BY DEF Init, Idle, LogOf!Init, Writers
<1>2. IInv /\ [Next]_vars => \A c \in Chats : [LogOf(c)!Next]_(LogOf(c)!vars)
  BY StepLog
<1>3. IInv /\ [Next]_vars => [\A c \in Chats : [LogOf(c)!Next]_(LogOf(c)!vars)]_vars
  BY <1>2
<1> QED
  BY <1>1, <1>3, Invariance, PTL DEF Spec, ImplementsMessageLog

-----------------------------------------------------------------------------
(* The ids drawn stay within the calls begun *)

\* Calls that may still draw a seq, and calls that may still draw an event id.
BeforeInsert == {h \in Handlers : call[h].pc = "checked"}
BeforeEnqueue == {h \in Handlers : call[h].pc \in {"checked", "inserted"}}

DrawsBounded ==
  /\ calls \in 0 .. MaxCalls
  /\ IsFiniteSet(BeforeInsert) /\ lastSeq + Cardinality(BeforeInsert) <= calls
  /\ IsFiniteSet(BeforeEnqueue) /\ lastEvent + Cardinality(BeforeEnqueue) <= calls

\* A call that begins may draw one id, and one that is past it has drawn one at most.
LEMMA DrawOne ==
  ASSUME NEW S, IsFiniteSet(S), NEW h, NEW last \in Nat, NEW n \in Nat,
         last + Cardinality(S) <= n,
         NEW T, NEW last2, NEW n2,
         \/ T = S /\ last2 = last /\ n2 = n
         \/ T = S \cup {h} /\ last2 = last /\ n2 = n + 1
         \/ T = S \ {h} /\ n2 = n /\ (last2 = last \/ (h \in S /\ last2 = last + 1))
  PROVE  IsFiniteSet(T) /\ last2 + Cardinality(T) <= n2
<1>1. Cardinality(S) \in Nat
  BY FS_CardinalityType
<1>2. CASE T = S /\ last2 = last /\ n2 = n
  BY <1>2
<1>3. CASE T = S \cup {h} /\ last2 = last /\ n2 = n + 1
  BY <1>1, <1>3, FS_AddElement
<1>4. CASE T = S \ {h} /\ n2 = n /\ (last2 = last \/ (h \in S /\ last2 = last + 1))
  <2>1. IsFiniteSet(T) /\ Cardinality(T) = IF h \in S THEN Cardinality(S) - 1 ELSE Cardinality(S)
    BY <1>4, FS_RemoveElement
  <2> QED BY <1>1, <1>4, <2>1
<1> QED BY <1>2, <1>3, <1>4

\* A step of handler h takes it from one phase to another, and draws at most one id.
StepOf(h) ==
  /\ \A g \in Handlers : g # h => call'[g] = call[g]
  /\ \/ /\ call[h].pc = "idle" /\ call'[h].pc = "checked"
        /\ calls < MaxCalls /\ calls' = calls + 1 /\ UNCHANGED <<lastSeq, lastEvent>>
     \/ /\ call[h].pc = "checked" /\ call'[h].pc = "inserted"
        /\ lastSeq' = lastSeq + 1 /\ UNCHANGED <<lastEvent, calls>>
     \/ /\ call[h].pc = "checked" /\ call'[h].pc \in {"conflict", "idle"}
        /\ lastSeq' = lastSeq + 1 /\ UNCHANGED <<lastEvent, calls>>
     \/ /\ call[h].pc = "inserted" /\ call'[h].pc = "enqueued"
        /\ lastEvent' = lastEvent + 1 /\ UNCHANGED <<lastSeq, calls>>
     \/ /\ call'[h].pc \in {"respond", "idle"} /\ UNCHANGED <<lastSeq, lastEvent, calls>>

LEMMA EveryStepIsOne ==
  ASSUME IInv, [Next]_vars
  PROVE  (\E h \in Handlers : StepOf(h)) \/ UNCHANGED <<call, calls, lastSeq, lastEvent>>
<1> USE DEF IInv
<1>1. ASSUME NEW h \in Handlers, NEW c \in Chats, NEW u \in Users,
             NEW k \in ClientIds \cup {Null}, NEW field \in IdFields,
             CheckMember(h, c, u, k, field)
      PROVE  StepOf(h)
  BY <1>1, CheckMemberDoes DEF StepOf, CheckMember, tables
<1>2. ASSUME NEW h \in Handlers, InsertRow(h) PROVE StepOf(h)
  BY <1>2, InsertRowDoes DEF StepOf, InsertRow
<1>3. ASSUME NEW h \in Handlers, InsertConflict(h) PROVE StepOf(h)
  BY <1>3, InsertConflictDoes DEF StepOf, InsertConflict
<1>4. ASSUME NEW h \in Handlers, InsertOrphan(h) PROVE StepOf(h)
  <2>1. Ends(h)
    BY <1>4 DEF InsertOrphan, Ends
  <2> QED BY <2>1, <1>4, EndsDoes DEF StepOf, InsertOrphan
<1>5. ASSUME NEW h \in Handlers, ReturnExisting(h) PROVE StepOf(h)
  <2>1. CASE call'[h] = Idle
    <3>1. Ends(h)
      BY <2>1, <1>5, ReturnExistingAbandons DEF Abandons
    <3> QED BY <3>1, <1>5, EndsDoes DEF StepOf, ReturnExisting, tables
  <2>2. CASE call'[h] # Idle
    BY <2>2, <1>5, ReturnExistingDoes DEF StepOf, ReturnExisting, tables
  <2> QED BY <2>1, <2>2
<1>6. ASSUME NEW h \in Handlers, EnqueueEvent(h) PROVE StepOf(h)
  BY <1>6, EnqueueEventDoes DEF StepOf, EnqueueEvent
<1>7. ASSUME NEW h \in Handlers, Commit(h) PROVE StepOf(h)
  BY <1>7, CommitDoes DEF StepOf, Commit, CommitRows
<1>8. ASSUME NEW h \in Handlers, CommitUnacknowledged(h) PROVE StepOf(h)
  <2>1. Ends(h)
    BY <1>8 DEF CommitUnacknowledged, Ends
  <2> QED BY <2>1, <1>8, EndsDoes DEF StepOf, CommitUnacknowledged, CommitRows
<1>9. ASSUME NEW h \in Handlers, Respond(h) \/ Fail(h) PROVE StepOf(h)
  <2>1. Ends(h)
    BY <1>9 DEF Respond, Fail, Ends
  <2> QED BY <2>1, <1>9, EndsDoes DEF StepOf, Respond, Fail, tables
<1>10. ASSUME NEW c \in Chats, DeleteDirect(c)
       PROVE  UNCHANGED <<call, calls, lastSeq, lastEvent>>
  BY <1>10 DEF DeleteDirect
<1>11. ASSUME UNCHANGED vars PROVE UNCHANGED <<call, calls, lastSeq, lastEvent>>
  BY <1>11 DEF vars, tables
<1> QED
  BY <1>1, <1>2, <1>3, <1>4, <1>5, <1>6, <1>7, <1>8, <1>9, <1>10, <1>11 DEF Next, Proceed, Rest

LEMMA StepDrawsBounded ==
  ASSUME IInv, DrawsBounded, [Next]_vars
  PROVE  DrawsBounded'
<1>1. /\ lastSeq \in Nat /\ lastEvent \in Nat /\ calls \in Nat /\ MaxCalls \in Nat
  BY SendMessageAssumption DEF IInv, TypeOK
<1>2. CASE UNCHANGED <<call, calls, lastSeq, lastEvent>>
  BY <1>2 DEF DrawsBounded, BeforeInsert, BeforeEnqueue
<1>3. ASSUME NEW h \in Handlers, StepOf(h)
      PROVE  DrawsBounded'
  <2>1. calls' \in 0 .. MaxCalls
    BY <1>1, <1>3 DEF StepOf, DrawsBounded
  <2>2. \/ BeforeInsert' = BeforeInsert /\ lastSeq' = lastSeq /\ calls' = calls
        \/ BeforeInsert' = BeforeInsert \cup {h} /\ lastSeq' = lastSeq /\ calls' = calls + 1
        \/ /\ BeforeInsert' = BeforeInsert \ {h} /\ calls' = calls
           /\ lastSeq' = lastSeq \/ (h \in BeforeInsert /\ lastSeq' = lastSeq + 1)
    BY <1>3 DEF StepOf, BeforeInsert
  <2>3. \/ BeforeEnqueue' = BeforeEnqueue /\ lastEvent' = lastEvent /\ calls' = calls
        \/ BeforeEnqueue' = BeforeEnqueue \cup {h} /\ lastEvent' = lastEvent /\ calls' = calls + 1
        \/ /\ BeforeEnqueue' = BeforeEnqueue \ {h} /\ calls' = calls
           /\ lastEvent' = lastEvent \/ (h \in BeforeEnqueue /\ lastEvent' = lastEvent + 1)
    BY <1>3 DEF StepOf, BeforeEnqueue
  <2>4. IsFiniteSet(BeforeInsert)' /\ (lastSeq + Cardinality(BeforeInsert) <= calls)'
    BY <1>1, <2>2, DrawOne DEF DrawsBounded
  <2>5. IsFiniteSet(BeforeEnqueue)' /\ (lastEvent + Cardinality(BeforeEnqueue) <= calls)'
    BY <1>1, <2>3, DrawOne DEF DrawsBounded
  <2> QED BY <2>1, <2>4, <2>5 DEF DrawsBounded
<1> QED BY <1>2, <1>3, EveryStepIsOne

LEMMA InitDrawsBounded == Init => DrawsBounded
<1> SUFFICES ASSUME Init PROVE DrawsBounded
  OBVIOUS
<1>1. BeforeInsert = {} /\ BeforeEnqueue = {}
  BY DEF Init, Idle, BeforeInsert, BeforeEnqueue
<1> QED BY <1>1, FS_EmptySet, SendMessageAssumption DEF Init, DrawsBounded

\* So every id in the tables and in the open transactions is one the outbox has room for.
LEMMA IdsInBounds ==
  ASSUME IInv, DrawsBounded
  PROVE  lastSeq \in 0 .. MaxCalls /\ lastEvent \in 0 .. MaxCalls
<1>1. Cardinality(BeforeInsert) \in Nat /\ Cardinality(BeforeEnqueue) \in Nat
  BY FS_CardinalityType DEF DrawsBounded
<1> QED BY <1>1, SendMessageAssumption DEF DrawsBounded, IInv, TypeOK

-----------------------------------------------------------------------------
(* What the outbox is fed *)

\* A commit.
LEMMA CommitFeeds ==
  ASSUME IInv, DrawsBounded, NEW h \in Handlers, call[h].pc = "enqueued", CommitRows(h)
  PROVE  Feed!CommitEvent(call[h].event, call[h].seq, call[h].chat)
<1> DEFINE e == call[h].event
           m == call[h].seq
           c == call[h].chat
<1>1. h \in Writers /\ h \in Enqueued
  BY DEF Writers, Enqueued
<1>2. e \notin DOMAIN outbox /\ m \notin DOMAIN messages /\ \A f \in DOMAIN outbox : outbox[f].msg # m
  BY <1>1 DEF IInv, FreshSeq, FreshEvent
<1>3. outbox' = [f \in DOMAIN outbox \cup {e} |->
                   IF f = e THEN [msg |-> m, chat |-> c, status |-> "pending",
                                  attempts |-> 0, due |-> TRUE]
                   ELSE outbox[f]]
  BY DEF CommitRows, WithRow
<1>4. DOMAIN messages' = DOMAIN messages \cup {m}
  BY DEF CommitRows, WithRow
<1> QED BY <1>2, <1>3, <1>4 DEF Feed!CommitEvent, Feed!workers

\* A deletion, of a chat that has messages or of one that has none.
LEMMA DeleteFeeds ==
  ASSUME IInv, NEW c \in Chats, DeleteDirect(c)
  PROVE  Feed!DeleteChat(c) \/ UNCHANGED Feed!vars
<1>1. /\ DOMAIN messages' = {s \in DOMAIN messages : messages[s].chat # c}
      /\ outbox' = outbox
  BY DeleteDirectDoes
<1>2. \A s \in DOMAIN messages :
        messages[s].chat = c <=> \E f \in DOMAIN outbox : outbox[f].chat = c /\ outbox[f].msg = s
  <2> SUFFICES ASSUME NEW s \in DOMAIN messages
               PROVE  messages[s].chat = c <=>
                        \E f \in DOMAIN outbox : outbox[f].chat = c /\ outbox[f].msg = s
    OBVIOUS
  <2>1. PICK e \in DOMAIN outbox : outbox[e].msg = s /\ outbox[e].chat = messages[s].chat
    BY DEF IInv, TransactionalOutbox
  <2>2. \A f \in DOMAIN outbox : outbox[f].msg = s => f = e
    BY <2>1 DEF IInv, TransactionalOutbox
  <2> QED BY <2>1, <2>2
<1>3. DOMAIN messages' =
        DOMAIN messages \ {outbox[f].msg : f \in {g \in DOMAIN outbox : outbox[g].chat = c}}
  BY <1>1, <1>2
<1>4. CASE \E f \in DOMAIN outbox : outbox[f].chat = c /\ outbox[f].msg \in DOMAIN messages
  BY <1>1, <1>3, <1>4 DEF Feed!DeleteChat, Feed!workers
<1>5. CASE ~\E f \in DOMAIN outbox : outbox[f].chat = c /\ outbox[f].msg \in DOMAIN messages
  <2>1. DOMAIN messages' = DOMAIN messages
    BY <1>3, <1>5
  <2> QED BY <2>1, <1>1 DEF Feed!vars, Feed!rows, Feed!workers
<1> QED BY <1>4, <1>5

LEMMA StepFeeds ==
  ASSUME IInv, DrawsBounded, [Next]_vars
  PROVE  [Feed!Next]_(Feed!vars)
<1>1. ASSUME NEW h \in Handlers, Commit(h) \/ CommitUnacknowledged(h)
      PROVE  Feed!Next
  <2>1. call[h].pc = "enqueued" /\ CommitRows(h)
    BY <1>1 DEF Commit, CommitUnacknowledged
  <2>2. call[h].event \in 1 .. MaxCalls /\ call[h].seq \in 1 .. MaxCalls /\ call[h].chat \in Chats
    <3>1. h \in Writers /\ h \in Enqueued
      BY <2>1 DEF Writers, Enqueued
    <3>2. call[h].event \in 1 .. lastEvent /\ call[h].seq \in 1 .. lastSeq
      BY <3>1 DEF IInv, FreshSeq, FreshEvent
    <3>3. lastSeq \in 0 .. MaxCalls /\ lastEvent \in 0 .. MaxCalls /\ MaxCalls \in Nat
      BY IdsInBounds, SendMessageAssumption
    <3>4. call[h].chat \in Chats
      BY <2>1 DEF IInv, Begun
    <3> QED BY <3>2, <3>3, <3>4
  <2> QED BY <2>1, <2>2, CommitFeeds DEF Feed!Next
<1>2. ASSUME NEW c \in Chats, DeleteDirect(c)
      PROVE  [Feed!Next]_(Feed!vars)
  BY <1>2, DeleteFeeds DEF Feed!Next
<1>3. CASE UNCHANGED <<messages, outbox>>
  BY <1>3 DEF Feed!vars, Feed!rows, Feed!workers
<1>4. \/ \E h \in Handlers : Commit(h) \/ CommitUnacknowledged(h)
      \/ \E c \in Chats : DeleteDirect(c)
      \/ UNCHANGED <<messages, outbox>>
  BY StepCases DEF IInv, CheckMember, InsertRow, InsertConflict, ReturnExisting, EnqueueEvent,
                   Respond, Abandons, vars, tables
<1> QED BY <1>1, <1>2, <1>3, <1>4

\* To the workers, SendMessage and the deletion of chats only commit a new message together
\* with its event, or drop the messages of a chat: OutboxWorker assumes nothing that does
\* not hold of them.
THEOREM WorkersSeeOutbox == Spec => FeedsOutbox
<1>1. Init => Feed!Init
  BY DEF Init, Feed!Init, Feed!NoEvents
<1>2. IInv /\ DrawsBounded /\ [Next]_vars => DrawsBounded'
  BY StepDrawsBounded
<1>3. IInv /\ DrawsBounded /\ [Next]_vars => [Feed!Next]_(Feed!vars)
  BY StepFeeds
<1> QED
  BY <1>1, <1>2, <1>3, InitDrawsBounded, Invariance, PTL DEF Spec, FeedsOutbox, Feed!Spec

=============================================================================
