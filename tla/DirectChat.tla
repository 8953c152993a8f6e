----------------------------- MODULE DirectChat -----------------------------
(***************************************************************************)
(* ChatHandler.CreateChat and DeleteDirectChat, run by concurrent request  *)
(* handlers.  CreateChat is a chain of autocommitted statements, not a     *)
(* transaction: look for the pair's chat, insert the chat row, insert its  *)
(* members one by one, read the chat back.  Only the unique index          *)
(* uq_direct_chats_pair ties two requests for one pair together.  A        *)
(* member must have a row in users, which is written when a user signs in. *)
(***************************************************************************)
EXTENDS Naturals, Sequences, FiniteSets, Functions

CONSTANTS
  Handlers,     \* request goroutines that can run at the same time
  Users,        \* user ids
  Lists,        \* participantIds of the requests, the caller appended where it was absent
  MaxRequests,  \* bound on the number of CreateChat requests
  MaxDeletes,   \* bound on the number of DeleteDirectChat requests that delete
  MaxFaults     \* bound on the number of failed statements and crashes

ASSUME DirectChatAssumption ==
  /\ IsFiniteSet(Users)
  /\ Lists \subseteq Seq(Users) \ {<<>>}
  /\ MaxRequests \in Nat
  /\ MaxDeletes \in Nat
  /\ MaxFaults \in Nat

VARIABLES
  users,     \* ids that have a row in users: they have signed in
  chats,     \* rows of chats, by creation: the participants (of a direct chat, its
             \* member_a and member_b) and is_group
  members,   \* rows of chat_members
  lastChat,  \* chats created so far
  call,      \* what each handler is doing
  requests,  \* requests begun so far
  replies,   \* what the callers were answered
  strangers, \* (history) chats for which a participant without a row in users was named
  deletes,   \* chats deleted so far
  faults     \* failed statements and crashes so far

tables == <<chats, members, lastChat>>
counters == <<requests, deletes, faults>>
vars == <<users, tables, call, replies, strangers, counters>>

Phase == {"idle", "find", "create", "findAgain", "add", "getExisting", "getWinner",
          "getCreated"}

Call == [pc : Phase, user : Users, who : Lists, chat : Nat, added : Nat]

Reply == [who : SUBSET Users, isGroup : BOOLEAN, chat : Nat, result : {"chat", "empty", "error"}]

Idle == [pc |-> "idle"]

\* Rows, handlers and replies have their types, and members belong to existing chats and
\* to users.
TypeOK ==
  /\ users \subseteq Users
  /\ chats \in [DOMAIN chats -> [who : SUBSET Users, isGroup : BOOLEAN]]
  /\ DOMAIN chats \subseteq 1 .. lastChat
  /\ members \subseteq (DOMAIN chats) \X users
  /\ lastChat \in Nat
  /\ call \in [Handlers -> Call \cup {Idle}]
  /\ \A h \in Handlers : call[h] # Idle => call[h].added \in 0 .. Len(call[h].who)
  /\ requests \in 0 .. MaxRequests
  /\ replies \subseteq Reply
  /\ strangers \subseteq 1 .. lastChat
  /\ deletes \in 0 .. MaxDeletes
  /\ faults \in 0 .. MaxFaults

\* Users may have signed in before.
Init ==
  /\ users \in SUBSET Users
  /\ chats = [c \in {} |-> 0]
  /\ members = {}
  /\ lastChat = 0
  /\ call = [h \in Handlers |-> Idle]
  /\ requests = 0
  /\ replies = {}
  /\ strangers = {}
  /\ deletes = 0
  /\ faults = 0

IsGroup(L) == Len(L) > 2

MembersOf(c) == {u \in Users : <<c, u>> \in members}

\* FindDirectChat: the direct chats that have both users among their members.
DirectChatsOf(P) == {c \in DOMAIN chats : ~chats[c].isGroup /\ P \subseteq MembersOf(c)}

\* GetByID finds a chat for one of its members if it has another member, and returns an
\* empty chat, not an error, otherwise.
Visible(c, u) == u \in MembersOf(c) /\ MembersOf(c) # {u}

\* Handler h moves on to phase p, or is done with an answer.
Goto(h, p) == call' = [call EXCEPT ![h].pc = p]

Answered(h, c, result) ==
  /\ replies' = replies \cup {[who |-> Range(call[h].who), isGroup |-> IsGroup(call[h].who),
                               chat |-> c, result |-> result]}
  /\ call' = [call EXCEPT ![h] = Idle]

-----------------------------------------------------------------------------
(* One CreateChat request *)

\* GoogleAuth, before any handler, and HandleWS: whoever comes with a valid token has a
\* row in users from then on.
SignIn(u) ==
  /\ users' = users \cup {u}
  /\ UNCHANGED <<tables, call, replies, strangers, counters>>

\* A user who is signed in asks for a chat.  Two entries make a direct chat, which may exist
\* already; more make a group.
Request(h, u, L) ==
  /\ call[h] = Idle
  /\ requests < MaxRequests
  /\ u \in users
  /\ u \in Range(L)
  /\ Len(L) > 1
  /\ requests' = requests + 1
  /\ call' = [call EXCEPT ![h] = [pc |-> IF IsGroup(L) THEN "create" ELSE "find",
                                  user |-> u, who |-> L, chat |-> 0, added |-> 0]]
  /\ UNCHANGED <<users, tables, replies, strangers, deletes, faults>>

\* The caller is the only entry: ParticipantIds[1] panics, and the request ends with a 500
\* before anything is written.
RequestPanics(h, u) ==
  /\ call[h] = Idle
  /\ requests < MaxRequests
  /\ u \in users
  /\ <<u>> \in Lists
  /\ requests' = requests + 1
  /\ replies' = replies \cup {[who |-> {u}, isGroup |-> FALSE, chat |-> 0, result |-> "error"]}
  /\ UNCHANGED <<users, tables, call, strangers, deletes, faults>>

\* The first two entries of the list, which FindDirectChat and CreateDirect are called with.
Pair(h) == {call[h].who[1], call[h].who[2]}

\* The oldest chat of the pair is taken; without one the handler creates it.
Find(h) ==
  LET found == DirectChatsOf(Pair(h)) IN
  /\ call[h].pc = "find"
  /\ \/ found = {} /\ Goto(h, "create")
     \/ \E c \in found :
          /\ \A d \in found : c <= d
          /\ call' = [call EXCEPT ![h] = [@ EXCEPT !.pc = "getExisting", !.chat = c]]
  /\ UNCHANGED <<users, tables, replies, strangers, counters>>

NotTaken(P) == TRUE  \* mutant: no unique index, only the check before the INSERT

\* uq_direct_chats_pair: no direct chat records this pair.
PairFree(P) == \A c \in DOMAIN chats : chats[c].isGroup \/ chats[c].who # P

\* The chat row is inserted, with its members still to be added.
Create(h) ==
  /\ call[h].pc = "create"
  /\ IsGroup(call[h].who) \/ PairFree(Pair(h))
  /\ lastChat' = lastChat + 1
  /\ chats' = [c \in DOMAIN chats \cup {lastChat + 1} |->
                 IF c \in DOMAIN chats THEN chats[c]
                 ELSE [who |-> Range(call[h].who), isGroup |-> IsGroup(call[h].who)]]
  /\ call' = [call EXCEPT ![h] = [@ EXCEPT !.pc = "add", !.chat = lastChat + 1,
                              !.added = 0]]
  /\ UNCHANGED <<users, members, replies, strangers, counters>>

\* The unique index rejects the row.
CreateConflict(h) ==
  /\ call[h].pc = "create"
  /\ ~IsGroup(call[h].who)
  /\ ~PairFree(Pair(h))
  /\ Goto(h, "findAgain")
  /\ UNCHANGED <<users, tables, replies, strangers, counters>>

\* After a failed insert, of a group too, the handler looks for a direct chat of the first
\* two participants and otherwise gives up.
FindAgain(h) ==
  LET found == DirectChatsOf(Pair(h)) IN
  /\ call[h].pc = "findAgain"
  /\ \/ found = {} /\ Answered(h, 0, "error")
     \/ \E c \in found :
          /\ \A d \in found : c <= d
          /\ call' = [call EXCEPT ![h] = [@ EXCEPT !.pc = "getWinner", !.chat = c]]
          /\ UNCHANGED replies
  /\ UNCHANGED <<users, tables, strangers, counters>>

\* The entry that AddMembers comes to next.
NextMember(h) == call[h].who[call[h].added + 1]

AnyMember(h) == call[h].pc = "add" /\ call[h].added < Len(call[h].who)  \* mutant: no foreign keys

\* The row satisfies its foreign keys: chats(id) and users(id).
MayInsert(h) ==
  /\ call[h].pc = "add"
  /\ call[h].added < Len(call[h].who)
  /\ call[h].chat \in DOMAIN chats
  /\ NextMember(h) \in users

\* AddMembers inserts the next member, unless the list has it twice.
AddMember(h) ==
  /\ MayInsert(h)
  /\ members' = members \cup {<<call[h].chat, NextMember(h)>>}
  /\ call' = [call EXCEPT ![h].added = @ + 1]
  /\ UNCHANGED <<users, chats, lastChat, replies, strangers, counters>>

\* A foreign key fails: a member who was added already has deleted the chat, or the next
\* one has never signed in.  What was inserted stays.
AddMemberFails(h) ==
  /\ call[h].pc = "add"
  /\ call[h].added < Len(call[h].who)
  /\ ~MayInsert(h)
  /\ Answered(h, 0, "error")
  /\ strangers' = IF NextMember(h) \in users THEN strangers ELSE strangers \cup {call[h].chat}
  /\ UNCHANGED <<users, tables, counters>>

AnsweredEarly(h) == call[h].added + 1 >= Len(call[h].who)  \* mutant: stops before the last one

MembersAdded(h) == call[h].added = Len(call[h].who)

\* All members are in.
FinishAdd(h) ==
  /\ call[h].pc = "add"
  /\ MembersAdded(h)
  /\ Goto(h, "getCreated")
  /\ UNCHANGED <<users, tables, replies, strangers, counters>>

\* GetByID and the answer.  Of a new group only the id is answered.
Get(h) ==
  LET c == call[h].chat
      newGroup == call[h].pc = "getCreated" /\ IsGroup(call[h].who)
  IN
  /\ call[h].pc \in {"getExisting", "getWinner", "getCreated"}
  /\ IF newGroup \/ Visible(c, call[h].user)
     THEN Answered(h, c, "chat")
     ELSE Answered(h, 0, "empty")
  /\ UNCHANGED <<users, tables, strangers, counters>>

\* A statement fails.  A failed look-up or read of an existing chat is passed over in
\* favour of creating it, a failed INSERT of the chat leads to the second look-up, and
\* any other failure is the answer.
Fails(h) ==
  /\ faults < MaxFaults
  /\ faults' = faults + 1
  /\ \/ call[h].pc \in {"find", "getExisting"} /\ Goto(h, "create") /\ UNCHANGED replies
     \/ call[h].pc = "create" /\ Goto(h, "findAgain") /\ UNCHANGED replies
     \/ call[h].pc \in {"findAgain", "getWinner"} /\ Answered(h, 0, "error")
     \/ call[h].pc = "add" /\ ~MembersAdded(h) /\ Answered(h, 0, "error")
     \/ call[h].pc = "getCreated" /\ ~IsGroup(call[h].who) /\ Answered(h, 0, "error")
  /\ UNCHANGED <<users, tables, strangers, requests, deletes>>

\* The process stops in the middle of a request; what was inserted stays.
Crash(h) ==
  /\ faults < MaxFaults
  /\ faults' = faults + 1
  /\ call[h] # Idle
  /\ call' = [call EXCEPT ![h] = Idle]
  /\ UNCHANGED <<users, tables, replies, strangers, requests, deletes>>

-----------------------------------------------------------------------------

\* DELETE of a direct chat by one of its members; members go with it.
DeleteDirect(c, u) ==
  /\ deletes < MaxDeletes
  /\ c \in DOMAIN chats
  /\ ~chats[c].isGroup
  /\ u \in MembersOf(c)
  /\ deletes' = deletes + 1
  /\ chats' = [d \in DOMAIN chats \ {c} |-> chats[d]]
  /\ members' = {m \in members : m[1] # c}
  /\ UNCHANGED <<users, lastChat, call, replies, strangers, requests, faults>>

Proceed(h) ==
  \/ Find(h)
  \/ Create(h)
  \/ CreateConflict(h)
  \/ FindAgain(h)
  \/ AddMember(h)
  \/ AddMemberFails(h)
  \/ FinishAdd(h)
  \/ Get(h)

\* The bound on requests is used up and all of them have been answered.
Rest ==
  /\ requests = MaxRequests
  /\ \A h \in Handlers : call[h] = Idle
  /\ UNCHANGED vars

Next ==
  \/ \E h \in Handlers :
       \/ \E u \in Users, L \in Lists : Request(h, u, L)
       \/ \E u \in Users : RequestPanics(h, u)
       \/ Proceed(h)
       \/ Fails(h)
       \/ Crash(h)
  \/ \E u \in Users : SignIn(u)
  \/ \E c \in 1 .. lastChat, u \in Users : DeleteDirect(c, u)
  \/ Rest

Spec == Init /\ [][Next]_vars

-----------------------------------------------------------------------------
(* Properties *)

\* repository/chat.go:103-105: at most one direct chat has both users of a pair as members,
\* however many requests for the pair race, fail half way or delete it in between, so what
\* FindDirectChat returns does not depend on which row it takes.
OneChatPerPair ==
  \A u, v \in Users : u # v => \A c, d \in DirectChatsOf({u, v}) : c = d

\* Who is answered with a chat is answered with a complete one, and with the one asked for,
\* for as long as it exists.  A group whose insert failed may be answered with a direct chat
\* of its first two entries, and who names only himself, twice, with any direct chat of his.
AnswerIsComplete ==
  \A a \in replies : a.result = "chat" /\ a.chat \in DOMAIN chats =>
    /\ MembersOf(a.chat) = chats[a.chat].who
    /\ \/ chats[a.chat].who = a.who /\ chats[a.chat].isGroup = a.isGroup
       \/ faults > 0 /\ a.isGroup /\ ~chats[a.chat].isGroup
       \/ \E u \in Users : a.who = {u} /\ u \in chats[a.chat].who

\* A chat that lacks members is one that a handler is still adding them to, unless a
\* failure left it behind or one of its participants had never signed in.  In these two
\* cases the code does leave it, and the pair blocked for good; no race and no deletion
\* does.
HalfCreatedHasOwner ==
  \A c \in DOMAIN chats : MembersOf(c) # chats[c].who =>
    \/ faults > 0
    \/ c \in strangers
    \/ \E h \in Handlers : call[h] # Idle /\ call[h].pc = "add" /\ call[h].chat = c

\* handler/chat.go:73-74, "A concurrent request may have just created the same direct
\* chat ... Return the winner.": without failures, deletions and unknown participants,
\* every request for two users is answered with a chat.
LoserGetsWinner ==
  faults = 0 /\ deletes = 0 /\ strangers = {} =>
    \A a \in replies : Cardinality(a.who) = 2 => a.result = "chat"

=============================================================================
