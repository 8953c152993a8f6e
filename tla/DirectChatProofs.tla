-------------------------- MODULE DirectChatProofs --------------------------
(***************************************************************************)
(* DirectChat, for any handlers, users and participant lists, and any      *)
(* number of requests, deletions, failed statements and crashes.           *)
(***************************************************************************)
EXTENDS DirectChat, TLAPS

\* What a handler has done so far: the chat it goes on with was there, and it still holds
\* what the handler found or put into it unless it was deleted meanwhile.
Sound(h) ==
  call[h] # Idle =>
    /\ call[h].pc # "idle"
    /\ Len(call[h].who) > 1
    /\ call[h].chat <= lastChat
    /\ call[h].pc = "add" => call[h].chat # 0
    /\ call[h].pc \in {"find", "getExisting"} => ~IsGroup(call[h].who)
    /\ call[h].pc \in {"findAgain", "getWinner"} /\ IsGroup(call[h].who) => faults > 0
    /\ call[h].pc \in {"getExisting", "getWinner"} /\ call[h].chat \in DOMAIN chats =>
         ~chats[call[h].chat].isGroup /\ Pair(h) \subseteq MembersOf(call[h].chat)
    /\ call[h].pc \in {"add", "getCreated"} /\ call[h].chat \in DOMAIN chats =>
         /\ chats[call[h].chat] = [who |-> Range(call[h].who), isGroup |-> IsGroup(call[h].who)]
         /\ \A i \in 1 .. call[h].added : call[h].who[i] \in MembersOf(call[h].chat)
    /\ call[h].pc = "getCreated" => call[h].added = Len(call[h].who)

CallsSound == \A h \in Handlers : Sound(h)

\* Members are participants, and no two direct chats are for the same one or two users.
ChatsSound ==
  /\ \A c \in DOMAIN chats :
       /\ MembersOf(c) \subseteq chats[c].who
       /\ ~chats[c].isGroup => \E u, v \in Users : chats[c].who = {u, v}
  /\ \A c, d \in DOMAIN chats :
       ~chats[c].isGroup /\ ~chats[d].isGroup /\ chats[c].who = chats[d].who => c = d

\* A reply names a chat that was created, and a complete one.
AnswerSound(a) ==
  /\ a.chat <= lastChat
  /\ a.result = "chat" /\ a.chat \in DOMAIN chats =>
       /\ MembersOf(a.chat) = chats[a.chat].who
       /\ \/ chats[a.chat].who = a.who /\ chats[a.chat].isGroup = a.isGroup
          \/ faults > 0 /\ a.isGroup /\ ~chats[a.chat].isGroup
          \/ \E u \in Users : a.who = {u} /\ u \in chats[a.chat].who

AnswersSound == \A a \in replies : AnswerSound(a)

IInv ==
  /\ TypeOK
  /\ CallsSound
  /\ ChatsSound
  /\ AnswersSound
  /\ HalfCreatedHasOwner

-----------------------------------------------------------------------------
(* Lemmas *)

LEMMA OnlyTwo == \A k \in Nat : k > 1 /\ ~(k > 2) => k = 2
OBVIOUS

LEMMA IdleIsNoCall == Idle \notin Call
BY DEF Idle, Call

\* A handler in a phase has a request.
LEMMA ActiveHasCall ==
  ASSUME TypeOK, NEW h \in Handlers, call[h].pc # "idle"
  PROVE  /\ call[h] # Idle /\ call[h] \in Call
         /\ call[h].added \in 0 .. Len(call[h].who)
BY DEF TypeOK, Idle

\* The entries of a list.
LEMMA ListFacts ==
  ASSUME NEW L \in Lists
  PROVE  /\ Len(L) \in Nat
         /\ \A i \in 1 .. Len(L) : L[i] \in Users
         /\ \A x : x \in Range(L) <=> \E i \in 1 .. Len(L) : x = L[i]
         /\ Range(L) \in SUBSET Users
         /\ Len(L) = 2 => Range(L) = {L[1], L[2]}
         /\ IsGroup(L) \in BOOLEAN
<1>1. L \in Seq(Users)
  BY DirectChatAssumption
<1>2. /\ Len(L) \in Nat
      /\ DOMAIN L = 1 .. Len(L)
      /\ \A i \in 1 .. Len(L) : L[i] \in Users
  BY <1>1
<1>3. \A x : x \in Range(L) <=> \E i \in 1 .. Len(L) : x = L[i]
  BY <1>2 DEF Range
<1>4. Range(L) \in SUBSET Users
  BY <1>2, <1>3
<1>5. ASSUME Len(L) = 2 PROVE Range(L) = {L[1], L[2]}
  BY <1>3, <1>5
<1> QED
  BY <1>2, <1>3, <1>4, <1>5 DEF IsGroup

\* What no step takes from a chat that it does not delete.
Kept ==
  /\ lastChat' \in Nat /\ lastChat <= lastChat'
  /\ faults' \in Nat /\ faults <= faults'
  /\ 0 \notin DOMAIN chats'
  /\ \A c \in 1 .. lastChat : c \in DOMAIN chats' =>
       c \in DOMAIN chats /\ chats'[c] = chats[c] /\ MembersOf(c) \subseteq MembersOf(c)'

\* So what a handler that does nothing knows stays true, ...
LEMMA SoundKept ==
  ASSUME TypeOK, Kept, NEW h \in Handlers, call'[h] = call[h], Sound(h)
  PROVE  Sound(h)'
<1> SUFFICES ASSUME call[h] # Idle PROVE Sound(h)'
  BY DEF Sound
<1>1. call[h] \in Call
  BY DEF TypeOK
<1>2. call[h].chat \in Nat /\ call[h].chat <= lastChat
  BY <1>1 DEF Call, Sound
<1>3. lastChat \in Nat /\ faults \in Nat
  BY DEF TypeOK
<1>4. call[h].chat \in DOMAIN chats' =>
        /\ call[h].chat \in DOMAIN chats /\ chats'[call[h].chat] = chats[call[h].chat]
        /\ \A u \in Users : <<call[h].chat, u>> \in members => <<call[h].chat, u>> \in members'
  BY <1>2, <1>3 DEF Kept, MembersOf
<1>5. call'[h].chat <= lastChat'
  BY <1>2, <1>3 DEF Kept
<1>6. Pair(h)' = Pair(h)
  BY DEF Pair
<1>7. faults > 0 => faults' > 0
  BY <1>3 DEF Kept
<1>8. Pair(h) \subseteq MembersOf(call[h].chat) /\ call[h].chat \in DOMAIN chats' =>
        Pair(h)' \subseteq MembersOf(call[h].chat)'
  BY <1>4, <1>6 DEF MembersOf
<1>9. call[h].chat \in DOMAIN chats' =>
        \A u \in MembersOf(call[h].chat) : u \in MembersOf(call[h].chat)'
  BY <1>4 DEF MembersOf
<1> QED
  BY <1>4, <1>5, <1>7, <1>8, <1>9 DEF Sound

LEMMA OthersSound ==
  ASSUME IInv, Kept, NEW h \in Handlers, \A g \in Handlers \ {h} : call'[g] = call[g], Sound(h)'
  PROVE  CallsSound'
BY SoundKept DEF IInv, CallsSound

\* ... and so does a reply, as long as the members that are added are participants.
LEMMA RepliesKept ==
  ASSUME IInv, Kept, ChatsSound', NEW a \in replies
  PROVE  AnswerSound(a)'
<1>1. AnswerSound(a) /\ a \in Reply
  BY DEF IInv, AnswersSound, TypeOK
<1>2. a.chat \in Nat /\ a.chat <= lastChat /\ lastChat \in Nat /\ faults \in Nat
  BY <1>1 DEF AnswerSound, Reply, IInv, TypeOK
<1>3. a.chat <= lastChat' /\ (faults > 0 => faults' > 0)
  BY <1>2 DEF Kept
<1>4. a.chat \in DOMAIN chats' =>
        /\ a.chat \in DOMAIN chats /\ chats'[a.chat] = chats[a.chat]
        /\ MembersOf(a.chat) \subseteq MembersOf(a.chat)'
        /\ MembersOf(a.chat)' \subseteq chats[a.chat].who
  BY <1>2 DEF Kept, ChatsSound
<1> QED
  BY <1>1, <1>3, <1>4 DEF AnswerSound

-----------------------------------------------------------------------------
(* Steps that leave the tables alone *)

LEMMA TablesStay ==
  ASSUME IInv, UNCHANGED tables, faults' \in Nat, faults <= faults'
  PROVE  /\ Kept
         /\ ChatsSound'
         /\ \A c : MembersOf(c)' = MembersOf(c)
<1>1. \A c : MembersOf(c)' = MembersOf(c)
  BY DEF MembersOf, tables
<1>2. Kept
  BY <1>1 DEF Kept, tables, IInv, TypeOK
<1>3. ChatsSound'
  BY <1>1 DEF ChatsSound, tables, IInv
<1> QED
  BY <1>1, <1>2, <1>3

\* A handler moves on without an effect on the tables: what is to be shown of the step is
\* what the handler now knows, what it answers, and that it abandons no incomplete chat.
LEMMA HandlerMoves ==
  ASSUME IInv, TypeOK', UNCHANGED tables, faults <= faults', NEW h \in Handlers,
         \A g \in Handlers \ {h} : call'[g] = call[g],
         Sound(h)',
         strangers \subseteq strangers',
         \A a \in replies' \ replies : AnswerSound(a)',
         \A c \in DOMAIN chats :
           MembersOf(c) # chats[c].who /\ call[h] # Idle /\ call[h].pc = "add" /\ call[h].chat = c =>
             faults' > 0 \/ c \in strangers'
  PROVE  IInv'
<1>1. faults \in Nat /\ faults' \in Nat
  BY DEF IInv, TypeOK
<1>2. Kept /\ ChatsSound' /\ \A c : MembersOf(c)' = MembersOf(c)
  BY <1>1, TablesStay
<1>3. CallsSound'
  BY <1>2, OthersSound
<1>4. AnswersSound'
  BY <1>2, RepliesKept DEF AnswersSound
<1>5. HalfCreatedHasOwner'
  <2> SUFFICES ASSUME NEW c \in DOMAIN chats, MembersOf(c) # chats[c].who
               PROVE  \/ faults' > 0
                      \/ c \in strangers'
                      \/ \E g \in Handlers :
                           call'[g] # Idle /\ call'[g].pc = "add" /\ call'[g].chat = c
    BY <1>2 DEF HalfCreatedHasOwner, tables
  <2>1. faults > 0 => faults' > 0
    BY <1>1
  <2>2. \/ faults > 0
        \/ c \in strangers
        \/ \E g \in Handlers : call[g] # Idle /\ call[g].pc = "add" /\ call[g].chat = c
    BY DEF IInv, HalfCreatedHasOwner
  <2> QED
    BY <2>1, <2>2
<1> QED
  BY <1>2, <1>3, <1>4, <1>5 DEF IInv

\* A handler is done without naming a chat.
LEMMA EndsWithoutChat ==
  ASSUME IInv, TypeOK', UNCHANGED tables, faults <= faults', NEW h \in Handlers,
         \A g \in Handlers \ {h} : call'[g] = call[g],
         call'[h] = Idle,
         strangers \subseteq strangers',
         \A a \in replies' \ replies : a.chat = 0 /\ a.result # "chat",
         \A c \in DOMAIN chats :
           MembersOf(c) # chats[c].who /\ call[h] # Idle /\ call[h].pc = "add" /\ call[h].chat = c =>
             faults' > 0 \/ c \in strangers'
  PROVE  IInv'
<1>1. Sound(h)'
  BY DEF Sound
<1>2. 0 <= lastChat'
  BY DEF TypeOK
<1>3. \A a \in replies' \ replies : AnswerSound(a)'
  BY <1>2 DEF AnswerSound
<1> QED
  BY <1>1, <1>3, HandlerMoves

\* The handler goes on to phase p with chat c, of which n members are in.
Moves(h, p, c, n) ==
  call' = [call EXCEPT ![h] = [call[h] EXCEPT !.pc = p, !.chat = c, !.added = n]]

\* The call of a handler that does, and its type.
LEMMA MovedCall ==
  ASSUME TypeOK, NEW h \in Handlers, call[h].pc # "idle", NEW p \in Phase, NEW c \in Nat,
         NEW n \in 0 .. Len(call[h].who), Moves(h, p, c, n)
  PROVE  /\ call' \in [Handlers -> Call \cup {Idle}]
         /\ \A g \in Handlers : call'[g] # Idle => call'[g].added \in 0 .. Len(call'[g].who)
         /\ \A g \in Handlers \ {h} : call'[g] = call[g]
         /\ call'[h] \in Call
         /\ call'[h].pc = p /\ call'[h].chat = c /\ call'[h].added = n
         /\ call'[h].who = call[h].who
         /\ Pair(h)' = Pair(h)
<1> USE DEF Moves
<1>1. call[h] \in Call
  BY ActiveHasCall
<1>2. /\ call'[h] \in Call
      /\ call'[h].pc = p /\ call'[h].chat = c /\ call'[h].added = n
      /\ call'[h].who = call[h].who
  <2>1. call'[h] = [call[h] EXCEPT !.pc = p, !.chat = c, !.added = n]
    BY DEF TypeOK
  <2>2. n \in Nat
    BY <1>1, ListFacts DEF Call
  <2>3. \A e \in Call : [e EXCEPT !.pc = p, !.chat = c, !.added = n] \in Call
    BY <2>2 DEF Call
  <2> QED
    BY <1>1, <2>1, <2>3 DEF Call
<1>3. \A g \in Handlers \ {h} : call'[g] = call[g]
  BY DEF TypeOK
<1>4. call' \in [Handlers -> Call \cup {Idle}]
  BY <1>1, <1>2 DEF TypeOK, Call
<1>5. \A g \in Handlers : call'[g] # Idle => call'[g].added \in 0 .. Len(call'[g].who)
  BY <1>2, <1>3 DEF TypeOK
<1>6. Pair(h)' = Pair(h)
  BY <1>2 DEF Pair
<1> QED
  BY <1>2, <1>3, <1>4, <1>5, <1>6

\* The handler moves on to phase p of chat c.
LEMMA MovesOn ==
  ASSUME IInv, NEW h \in Handlers, call[h].pc \notin {"idle", "add"},
         NEW p \in Phase, NEW c \in Nat, NEW n \in 0 .. Len(call[h].who), Moves(h, p, c, n),
         UNCHANGED <<users, tables, replies, strangers, requests, deletes>>,
         faults' \in 0 .. MaxFaults, faults <= faults',
         Sound(h)'
  PROVE  IInv'
<1>1. /\ call' \in [Handlers -> Call \cup {Idle}]
      /\ \A g \in Handlers : call'[g] # Idle => call'[g].added \in 0 .. Len(call'[g].who)
      /\ \A g \in Handlers \ {h} : call'[g] = call[g]
  BY MovedCall DEF IInv
<1>2. TypeOK'
  BY <1>1 DEF IInv, TypeOK, tables
<1> QED
  BY <1>1, <1>2, HandlerMoves

LEMMA GotoMoves ==
  ASSUME TypeOK, NEW h \in Handlers, call[h].pc # "idle", NEW p \in Phase, Goto(h, p)
  PROVE  /\ call[h].chat \in Nat /\ call[h].added \in 0 .. Len(call[h].who)
         /\ Moves(h, p, call[h].chat, call[h].added)
<1>1. call[h] \in Call /\ call[h].added \in 0 .. Len(call[h].who)
  BY ActiveHasCall
<1>2. \A e \in Call : [e EXCEPT !.pc = p] = [e EXCEPT !.pc = p, !.chat = e.chat, !.added = e.added]
  BY DEF Call
<1>3. [call[h] EXCEPT !.pc = p] =
        [call[h] EXCEPT !.pc = p, !.chat = call[h].chat, !.added = call[h].added]
  BY <1>1, <1>2
<1>4. call' = [call EXCEPT ![h] = [call[h] EXCEPT !.pc = p]]
  BY DEF Goto
<1> QED
  BY <1>1, <1>3, <1>4 DEF Call, Moves

\* A look-up found chat c.
Found(h, p, c) == call' = [call EXCEPT ![h] = [@ EXCEPT !.pc = p, !.chat = c]]

LEMMA FoundMoves ==
  ASSUME TypeOK, NEW h \in Handlers, call[h].pc # "idle", NEW p \in Phase, NEW c \in Nat,
         Found(h, p, c)
  PROVE  /\ call[h].added \in 0 .. Len(call[h].who)
         /\ Moves(h, p, c, call[h].added)
<1>1. call[h] \in Call /\ call[h].added \in 0 .. Len(call[h].who)
  BY ActiveHasCall
<1>2. \A e \in Call : [e EXCEPT !.pc = p, !.chat = c] =
        [e EXCEPT !.pc = p, !.chat = c, !.added = e.added]
  BY DEF Call
<1>3. [call[h] EXCEPT !.pc = p, !.chat = c] =
        [call[h] EXCEPT !.pc = p, !.chat = c, !.added = call[h].added]
  BY <1>1, <1>2
<1>4. call' = [call EXCEPT ![h] = [call[h] EXCEPT !.pc = p, !.chat = c]]
  BY DEF Found
<1> QED
  BY <1>1, <1>3, <1>4 DEF Moves

\* An answer without a chat.
LEMMA AnswersNoChat ==
  ASSUME IInv, NEW h \in Handlers, call[h].pc # "idle",
         NEW result \in {"empty", "error"}, Answered(h, 0, result),
         UNCHANGED <<users, tables, requests, deletes>>,
         faults' \in 0 .. MaxFaults, faults <= faults',
         strangers \subseteq strangers', strangers' \subseteq 1 .. lastChat,
         \A c \in DOMAIN chats :
           MembersOf(c) # chats[c].who /\ call[h].pc = "add" /\ call[h].chat = c =>
             faults' > 0 \/ c \in strangers'
  PROVE  IInv'
<1>1. call[h] \in Call
  BY ActiveHasCall DEF IInv
<1>2. [who |-> Range(call[h].who), isGroup |-> IsGroup(call[h].who), chat |-> 0,
       result |-> result] \in Reply
  BY <1>1, ListFacts DEF Call, Reply
<1>3. TypeOK'
  BY <1>2 DEF IInv, TypeOK, Answered, tables
<1>4. /\ \A g \in Handlers \ {h} : call'[g] = call[g]
      /\ call'[h] = Idle
      /\ \A a \in replies' \ replies : a.chat = 0 /\ a.result # "chat"
  BY DEF Answered, IInv, TypeOK
<1> QED
  BY <1>3, <1>4, EndsWithoutChat DEF tables

LEMMA RequestIInv ==
  ASSUME IInv, NEW h \in Handlers, NEW u \in Users, NEW L \in Lists, Request(h, u, L)
  PROVE  IInv'
<1> DEFINE e == [pc |-> IF IsGroup(L) THEN "create" ELSE "find",
                 user |-> u, who |-> L, chat |-> 0, added |-> 0]
<1>1. Len(L) \in Nat /\ Len(L) > 1
  BY ListFacts DEF Request
<1>2. e \in Call
  BY DEF Call, Phase
<1>3. call' = [call EXCEPT ![h] = e] /\ call[h] = Idle
  BY DEF Request
<1>4. e.added \in 0 .. Len(e.who) /\ e.who = L /\ e.chat = 0
      /\ e.pc = IF IsGroup(L) THEN "create" ELSE "find"
  BY <1>1
<1> HIDE DEF e
<1>5. requests' \in 0 .. MaxRequests
  BY DirectChatAssumption DEF Request, IInv, TypeOK
<1>6. TypeOK'
  BY <1>2, <1>3, <1>4, <1>5 DEF Request, IInv, TypeOK, tables
<1>7. /\ \A g \in Handlers \ {h} : call'[g] = call[g]
      /\ call'[h] = e
  BY <1>3 DEF IInv, TypeOK
<1>8. 0 <= lastChat'
  BY <1>6 DEF TypeOK
<1>9. Sound(h)'
  BY <1>1, <1>4, <1>7, <1>8 DEF Sound
<1>10. UNCHANGED tables /\ UNCHANGED <<faults, replies, strangers>> /\ faults <= faults'
  BY DEF Request, IInv, TypeOK
<1> QED
  BY <1>3, <1>6, <1>7, <1>9, <1>10, HandlerMoves

LEMMA RequestPanicsIInv ==
  ASSUME IInv, NEW h \in Handlers, NEW u \in Users, RequestPanics(h, u)
  PROVE  IInv'
<1>1. [who |-> {u}, isGroup |-> FALSE, chat |-> 0, result |-> "error"] \in Reply
  BY DEF Reply
<1>2. requests' \in 0 .. MaxRequests
  BY DirectChatAssumption DEF RequestPanics, IInv, TypeOK
<1>3. TypeOK'
  BY <1>1, <1>2 DEF RequestPanics, IInv, TypeOK, tables
<1>4. /\ call' = call /\ call[h] = Idle
      /\ \A a \in replies' \ replies : a.chat = 0 /\ a.result # "chat"
      /\ UNCHANGED <<tables, strangers>> /\ faults <= faults'
  BY DEF RequestPanics, IInv, TypeOK
<1> QED
  BY <1>3, <1>4, EndsWithoutChat

LEMMA FaultsStay ==
  ASSUME IInv, UNCHANGED faults
  PROVE  faults' \in 0 .. MaxFaults /\ faults <= faults'
BY DEF IInv, TypeOK

LEMMA FindIInv ==
  ASSUME IInv, NEW h \in Handlers, Find(h)
  PROVE  IInv'
<1>1. /\ call[h].pc = "find" /\ faults' \in 0 .. MaxFaults /\ faults <= faults'
      /\ UNCHANGED <<users, tables, replies, strangers, requests, deletes>>
      /\ UNCHANGED faults
  BY FaultsStay DEF Find, counters
<1>2. Sound(h) /\ call[h] # Idle
  BY <1>1, ActiveHasCall DEF IInv, CallsSound
<1>3. CASE Goto(h, "create")
  <2>1. /\ call[h].chat \in Nat /\ call[h].added \in 0 .. Len(call[h].who)
        /\ Moves(h, "create", call[h].chat, call[h].added)
    BY <1>1, <1>3, GotoMoves DEF IInv, Phase
  <2>2. call'[h].pc = "create" /\ call'[h].who = call[h].who /\ call'[h].chat = call[h].chat
    BY <1>1, <2>1, MovedCall DEF IInv, Phase
  <2>3. Sound(h)'
    BY <1>1, <1>2, <2>2 DEF Sound, tables
  <2> QED
    BY <1>1, <2>1, <2>3, MovesOn DEF Phase
<1>4. ASSUME NEW c \in DirectChatsOf(Pair(h)),
             call' = [call EXCEPT ![h] = [@ EXCEPT !.pc = "getExisting", !.chat = c]]
      PROVE  IInv'
  <2>1. c \in DOMAIN chats /\ c \in 1 .. lastChat /\ lastChat \in Nat
    BY DEF DirectChatsOf, IInv, TypeOK
  <2>2. /\ call[h].added \in 0 .. Len(call[h].who)
        /\ Moves(h, "getExisting", c, call[h].added)
    <3>1. Found(h, "getExisting", c)
      BY <1>4 DEF Found
    <3> QED
      BY <1>1, <2>1, <3>1, FoundMoves DEF IInv, Phase
  <2>3. /\ call'[h].pc = "getExisting" /\ call'[h].who = call[h].who /\ call'[h].chat = c
        /\ Pair(h)' = Pair(h)
    BY <1>1, <2>1, <2>2, MovedCall DEF IInv, Phase
  <2>4. MembersOf(c)' = MembersOf(c)
    BY <1>1 DEF MembersOf, tables
  <2>5. Sound(h)'
    BY <1>1, <1>2, <2>1, <2>3, <2>4 DEF Sound, tables, DirectChatsOf
  <2> QED
    BY <1>1, <2>1, <2>2, <2>5, MovesOn DEF Phase
<1> QED
  BY <1>3, <1>4 DEF Find

LEMMA CreateConflictIInv ==
  ASSUME IInv, NEW h \in Handlers, CreateConflict(h)
  PROVE  IInv'
<1>1. /\ call[h].pc = "create" /\ faults' \in 0 .. MaxFaults /\ faults <= faults'
      /\ ~IsGroup(call[h].who)
      /\ UNCHANGED <<users, tables, replies, strangers, requests, deletes>>
      /\ UNCHANGED faults
      /\ Goto(h, "findAgain")
  BY FaultsStay DEF CreateConflict, counters
<1>2. Sound(h) /\ call[h] # Idle
  BY <1>1, ActiveHasCall DEF IInv, CallsSound
<1>3. /\ call[h].chat \in Nat /\ call[h].added \in 0 .. Len(call[h].who)
      /\ Moves(h, "findAgain", call[h].chat, call[h].added)
  BY <1>1, GotoMoves DEF IInv, Phase
<1>4. call'[h].pc = "findAgain" /\ call'[h].who = call[h].who /\ call'[h].chat = call[h].chat
  BY <1>1, <1>3, MovedCall DEF IInv, Phase
<1>5. Sound(h)'
  BY <1>1, <1>2, <1>4 DEF Sound, tables
<1> QED
  BY <1>1, <1>3, <1>5, MovesOn DEF Phase

LEMMA FindAgainIInv ==
  ASSUME IInv, NEW h \in Handlers, FindAgain(h)
  PROVE  IInv'
<1>1. /\ call[h].pc = "findAgain" /\ faults' \in 0 .. MaxFaults /\ faults <= faults'
      /\ UNCHANGED <<users, tables, strangers, requests, deletes>>
      /\ UNCHANGED faults
  BY FaultsStay DEF FindAgain, counters
<1>2. Sound(h) /\ call[h] # Idle
  BY <1>1, ActiveHasCall DEF IInv, CallsSound
<1>3. CASE Answered(h, 0, "error")
  BY <1>1, <1>3, AnswersNoChat DEF IInv, TypeOK
<1>4. ASSUME NEW c \in DirectChatsOf(Pair(h)), UNCHANGED replies,
             call' = [call EXCEPT ![h] = [@ EXCEPT !.pc = "getWinner", !.chat = c]]
      PROVE  IInv'
  <2>1. c \in DOMAIN chats /\ c \in 1 .. lastChat /\ lastChat \in Nat
    BY DEF DirectChatsOf, IInv, TypeOK
  <2>2. /\ call[h].added \in 0 .. Len(call[h].who)
        /\ Moves(h, "getWinner", c, call[h].added)
    <3>1. Found(h, "getWinner", c)
      BY <1>4 DEF Found
    <3> QED
      BY <1>1, <2>1, <3>1, FoundMoves DEF IInv, Phase
  <2>3. /\ call'[h].pc = "getWinner" /\ call'[h].who = call[h].who /\ call'[h].chat = c
        /\ Pair(h)' = Pair(h)
    BY <1>1, <2>1, <2>2, MovedCall DEF IInv, Phase
  <2>4. MembersOf(c)' = MembersOf(c)
    BY <1>1 DEF MembersOf, tables
  <2>5. Sound(h)'
    BY <1>1, <1>2, <2>1, <2>3, <2>4 DEF Sound, tables, DirectChatsOf
  <2> QED
    BY <1>1, <1>4, <2>1, <2>2, <2>5, MovesOn DEF Phase
<1> QED
  BY <1>3, <1>4 DEF FindAgain

LEMMA AddMemberFailsIInv ==
  ASSUME IInv, NEW h \in Handlers, AddMemberFails(h)
  PROVE  IInv'
<1>1. /\ call[h].pc = "add" /\ call[h].added < Len(call[h].who) /\ ~MayInsert(h)
      /\ Answered(h, 0, "error")
      /\ strangers' = IF NextMember(h) \in users THEN strangers ELSE strangers \cup {call[h].chat}
      /\ UNCHANGED <<users, tables, requests, deletes, faults>>
  BY DEF AddMemberFails, counters
<1>2. faults' \in 0 .. MaxFaults /\ faults <= faults'
  BY <1>1, FaultsStay
<1>3. /\ call[h] # Idle /\ call[h] \in Call
      /\ call[h].chat \in Nat /\ call[h].chat <= lastChat
  BY <1>1, ActiveHasCall DEF IInv, CallsSound, Sound, Call
<1>4. ASSUME NEW c \in DOMAIN chats, call[h].chat = c PROVE c \in strangers'
  BY <1>1, <1>4 DEF MayInsert
<1>5. CASE NextMember(h) \in users
  <2>1. strangers' = strangers /\ strangers \subseteq 1 .. lastChat
    BY <1>1, <1>5 DEF IInv, TypeOK
  <2> QED
    BY <1>1, <1>2, <1>4, <2>1, AnswersNoChat
<1>6. CASE NextMember(h) \notin users
  <2>1. call[h].chat \in 1 .. lastChat
    <3>1. call[h].chat # 0
      BY <1>1, <1>3 DEF IInv, CallsSound, Sound
    <3>2. lastChat \in Nat
      BY DEF IInv, TypeOK
    <3> QED
      BY <1>3, <3>1, <3>2
  <2>2. strangers \subseteq strangers' /\ strangers' \subseteq 1 .. lastChat
    BY <1>1, <2>1 DEF IInv, TypeOK
  <2> QED
    BY <1>1, <1>2, <1>4, <2>2, AnswersNoChat
<1> QED
  BY <1>5, <1>6

\* The members are in, so the chat is complete.
LEMMA AllIn ==
  ASSUME IInv, NEW h \in Handlers, call[h].pc \in {"add", "getCreated"}, MembersAdded(h),
         call[h].chat \in DOMAIN chats
  PROVE  /\ MembersOf(call[h].chat) = chats[call[h].chat].who
         /\ chats[call[h].chat].who = Range(call[h].who)
         /\ chats[call[h].chat].isGroup = IsGroup(call[h].who)
<1>1. call[h] \in Call /\ call[h] # Idle /\ Sound(h)
  BY ActiveHasCall DEF IInv, CallsSound
<1>2. /\ chats[call[h].chat].who = Range(call[h].who)
      /\ chats[call[h].chat].isGroup = IsGroup(call[h].who)
      /\ \A i \in 1 .. Len(call[h].who) : call[h].who[i] \in MembersOf(call[h].chat)
  BY <1>1 DEF Sound, MembersAdded
<1>3. Range(call[h].who) \subseteq MembersOf(call[h].chat)
  BY <1>1, <1>2, ListFacts DEF Call
<1>4. MembersOf(call[h].chat) \subseteq chats[call[h].chat].who
  BY DEF IInv, ChatsSound
<1> QED
  BY <1>2, <1>3, <1>4

LEMMA FinishAddIInv ==
  ASSUME IInv, NEW h \in Handlers, FinishAdd(h)
  PROVE  IInv'
<1>1. /\ call[h].pc = "add" /\ MembersAdded(h)
      /\ Goto(h, "getCreated")
      /\ UNCHANGED <<users, tables, replies, strangers, requests, deletes>>
      /\ UNCHANGED faults
  BY DEF FinishAdd, counters
<1>2. faults' \in 0 .. MaxFaults /\ faults <= faults'
  BY <1>1, FaultsStay
<1>3. Sound(h) /\ call[h] # Idle /\ call[h] \in Call
  BY <1>1, ActiveHasCall DEF IInv, CallsSound
<1>4. /\ call[h].chat \in Nat /\ call[h].added \in 0 .. Len(call[h].who)
      /\ Moves(h, "getCreated", call[h].chat, call[h].added)
  BY <1>1, GotoMoves DEF IInv, Phase
<1>5. /\ call' \in [Handlers -> Call \cup {Idle}]
      /\ \A g \in Handlers : call'[g] # Idle => call'[g].added \in 0 .. Len(call'[g].who)
      /\ \A g \in Handlers \ {h} : call'[g] = call[g]
      /\ call'[h].pc = "getCreated" /\ call'[h].chat = call[h].chat
      /\ call'[h].added = call[h].added /\ call'[h].who = call[h].who
  BY <1>1, <1>4, MovedCall DEF IInv, Phase
<1>6. TypeOK'
  BY <1>1, <1>2, <1>5 DEF IInv, TypeOK, tables
<1>7. Sound(h)'
  <2>1. \A c : MembersOf(c)' = MembersOf(c)
    BY <1>1 DEF MembersOf, tables
  <2> QED
    BY <1>1, <1>3, <1>5, <2>1 DEF Sound, tables, MembersAdded
<1>8. \A c \in DOMAIN chats : call[h].chat = c => MembersOf(c) = chats[c].who
  BY <1>1, AllIn
<1> QED
  BY <1>1, <1>2, <1>5, <1>6, <1>7, <1>8, HandlerMoves

\* What GetByID shows of a chat that a look-up found is the whole chat.
LEMMA FoundIsComplete ==
  ASSUME IInv, NEW h \in Handlers, call[h].pc \in {"getExisting", "getWinner"},
         call[h].chat \in DOMAIN chats, Visible(call[h].chat, call[h].user)
  PROVE  /\ MembersOf(call[h].chat) = chats[call[h].chat].who
         /\ \/ /\ chats[call[h].chat].who = Range(call[h].who)
               /\ chats[call[h].chat].isGroup = IsGroup(call[h].who)
            \/ faults > 0 /\ IsGroup(call[h].who) /\ ~chats[call[h].chat].isGroup
            \/ \E u \in Users : Range(call[h].who) = {u} /\ u \in chats[call[h].chat].who
<1> DEFINE c == call[h].chat
           L == call[h].who
<1>1. call[h] \in Call /\ call[h] # Idle /\ Sound(h)
  BY ActiveHasCall DEF IInv, CallsSound
<1>2. /\ Len(L) \in Nat /\ Len(L) > 1 /\ L[1] \in Users /\ L[2] \in Users
      /\ Len(L) = 2 => Range(L) = {L[1], L[2]}
      /\ IsGroup(L) \in BOOLEAN
  BY <1>1, ListFacts DEF Call, Sound
<1>3. /\ ~chats[c].isGroup /\ chats[c].isGroup \in BOOLEAN
      /\ L[1] \in MembersOf(c) /\ L[2] \in MembersOf(c)
      /\ IsGroup(L) => faults > 0
  BY <1>1 DEF Sound, Pair, IInv, TypeOK
<1>4. PICK u \in Users, v \in Users : chats[c].who = {u, v}
  BY <1>3 DEF IInv, ChatsSound
<1>5. MembersOf(c) \subseteq {u, v}
  BY <1>4 DEF IInv, ChatsSound
<1>6. \E x, y \in MembersOf(c) : x # y
  BY DEF Visible
<1>7. MembersOf(c) = chats[c].who
  BY <1>4, <1>5, <1>6
<1>8. CASE IsGroup(L)
  BY <1>3, <1>7, <1>8
<1>9. CASE ~IsGroup(L) /\ L[1] # L[2]
  <2>1. Len(L) = 2
    <3>1. ~(Len(L) > 2)
      BY <1>9 DEF IsGroup
    <3> QED
      BY <1>2, <3>1, OnlyTwo
  <2>2. Range(L) = {L[1], L[2]}
    BY <1>2, <2>1
  <2>3. {L[1], L[2]} = {u, v}
    BY <1>3, <1>5, <1>9
  <2> QED
    BY <1>2, <1>3, <1>4, <1>7, <1>9, <2>2, <2>3
<1>10. CASE ~IsGroup(L) /\ L[1] = L[2]
  <2>1. Len(L) = 2
    <3>1. ~(Len(L) > 2)
      BY <1>10 DEF IsGroup
    <3> QED
      BY <1>2, <3>1, OnlyTwo
  <2>2. Range(L) = {L[1]} /\ L[1] \in chats[c].who
    BY <1>2, <1>3, <1>7, <1>10, <2>1
  <2> QED
    BY <1>2, <1>7, <2>2
<1> QED
  BY <1>8, <1>9, <1>10

LEMMA GetIInv ==
  ASSUME IInv, NEW h \in Handlers, Get(h)
  PROVE  IInv'
<1>1. /\ call[h].pc \in {"getExisting", "getWinner", "getCreated"}
      /\ UNCHANGED <<users, tables, strangers, requests, deletes, faults>>
  BY DEF Get, counters
<1>2. faults' \in 0 .. MaxFaults /\ faults <= faults'
  BY <1>1, FaultsStay
<1>3. call[h] \in Call /\ call[h] # Idle /\ Sound(h) /\ call[h].chat \in Nat
  BY <1>1, ActiveHasCall DEF IInv, CallsSound, Call
<1>4. CASE Answered(h, 0, "empty")
  BY <1>1, <1>2, <1>4, AnswersNoChat DEF IInv, TypeOK
<1>5. ASSUME Answered(h, call[h].chat, "chat"),
             \/ call[h].pc = "getCreated" /\ IsGroup(call[h].who)
             \/ Visible(call[h].chat, call[h].user)
      PROVE  IInv'
  <2> DEFINE a == [who |-> Range(call[h].who), isGroup |-> IsGroup(call[h].who),
                   chat |-> call[h].chat, result |-> "chat"]
  <2>1. a \in Reply
    BY <1>3, ListFacts DEF Call, Reply
  <2>2. replies' = replies \cup {a} /\ call' = [call EXCEPT ![h] = Idle]
    BY <1>5 DEF Answered
  <2>3. /\ a.who = Range(call[h].who) /\ a.isGroup = IsGroup(call[h].who)
        /\ a.chat = call[h].chat /\ a.result = "chat"
    OBVIOUS
  <2> HIDE DEF a
  <2>4. TypeOK'
    BY <1>1, <1>2, <2>1, <2>2 DEF IInv, TypeOK, tables
  <2>5. /\ \A g \in Handlers \ {h} : call'[g] = call[g]
        /\ call'[h] = Idle
    BY <2>2 DEF IInv, TypeOK
  <2>6. Sound(h)'
    BY <2>5 DEF Sound
  <2>7. \A c : MembersOf(c)' = MembersOf(c)
    BY <1>1 DEF MembersOf, tables
  <2>8. ASSUME call[h].chat \in DOMAIN chats
        PROVE  /\ MembersOf(a.chat) = chats[a.chat].who
               /\ \/ chats[a.chat].who = a.who /\ chats[a.chat].isGroup = a.isGroup
                  \/ faults > 0 /\ a.isGroup /\ ~chats[a.chat].isGroup
                  \/ \E u \in Users : a.who = {u} /\ u \in chats[a.chat].who
    <3>1. CASE call[h].pc = "getCreated"
      <4>1. MembersAdded(h)
        BY <1>3, <3>1 DEF Sound, MembersAdded
      <4> QED
        BY <2>3, <2>8, <3>1, <4>1, AllIn
    <3>2. CASE call[h].pc # "getCreated"
      <4>1. call[h].pc \in {"getExisting", "getWinner"} /\ Visible(call[h].chat, call[h].user)
        BY <1>1, <1>5, <3>2
      <4> QED
        BY <2>3, <2>8, <4>1, FoundIsComplete
    <3> QED
      BY <3>1, <3>2
  <2>9. a.chat <= lastChat
    BY <1>3, <2>3 DEF Sound
  <2>10. ASSUME NEW b \in replies' \ replies PROVE AnswerSound(b)'
    <3>1. b = a
      BY <2>2
    <3> QED
      BY <1>1, <2>3, <2>7, <2>8, <2>9, <3>1 DEF AnswerSound, tables
  <2> QED
    BY <1>1, <1>2, <2>4, <2>5, <2>6, <2>10, HandlerMoves
<1> QED
  BY <1>4, <1>5 DEF Get

LEMMA FailsIInv ==
  ASSUME IInv, NEW h \in Handlers, Fails(h)
  PROVE  IInv'
<1>1. /\ faults' = faults + 1 /\ faults < MaxFaults
      /\ UNCHANGED <<users, tables, strangers, requests, deletes>>
  BY DEF Fails
<1>2. faults' \in 0 .. MaxFaults /\ faults <= faults' /\ faults' > 0
  BY <1>1, DirectChatAssumption DEF IInv, TypeOK
<1>3. call[h].pc # "idle"
  BY DEF Fails
<1>4. Sound(h) /\ call[h] # Idle
  BY <1>3, ActiveHasCall DEF IInv, CallsSound
<1>5. ASSUME NEW p \in {"create", "findAgain"}, call[h].pc # "add", Goto(h, p), UNCHANGED replies
      PROVE  IInv'
  <2>1. p \in Phase
    BY DEF Phase
  <2>2. /\ call[h].chat \in Nat /\ call[h].added \in 0 .. Len(call[h].who)
        /\ Moves(h, p, call[h].chat, call[h].added)
    BY <1>3, <1>5, <2>1, GotoMoves DEF IInv
  <2>3. call'[h].pc = p /\ call'[h].who = call[h].who /\ call'[h].chat = call[h].chat
    BY <1>3, <2>1, <2>2, MovedCall DEF IInv
  <2>4. Sound(h)'
    BY <1>1, <1>2, <1>4, <2>3 DEF Sound, tables
  <2> QED
    BY <1>1, <1>2, <1>3, <1>5, <2>1, <2>2, <2>4, MovesOn
<1>6. CASE Answered(h, 0, "error")
  BY <1>1, <1>2, <1>3, <1>6, AnswersNoChat DEF IInv, TypeOK
<1> QED
  BY <1>5, <1>6 DEF Fails

LEMMA CrashIInv ==
  ASSUME IInv, NEW h \in Handlers, Crash(h)
  PROVE  IInv'
<1>1. faults' \in 0 .. MaxFaults /\ faults <= faults' /\ faults' > 0
  BY DirectChatAssumption DEF Crash, IInv, TypeOK
<1>2. TypeOK'
  BY <1>1 DEF Crash, IInv, TypeOK, tables
<1>3. /\ \A g \in Handlers \ {h} : call'[g] = call[g]
      /\ call'[h] = Idle
      /\ UNCHANGED <<tables, strangers, replies>>
  BY DEF Crash, IInv, TypeOK
<1> QED
  BY <1>1, <1>2, <1>3, EndsWithoutChat

LEMMA SignInIInv ==
  ASSUME IInv, NEW u \in Users, SignIn(u)
  PROVE  IInv'
<1>1. UNCHANGED <<tables, call, replies, strangers, counters>> /\ UNCHANGED faults
  BY DEF SignIn, counters
<1>2. TypeOK'
  BY DEF SignIn, IInv, TypeOK, tables, counters
<1>3. Kept /\ ChatsSound' /\ \A c : MembersOf(c)' = MembersOf(c)
  BY <1>1, FaultsStay, TablesStay
<1>4. CallsSound'
  BY <1>1, <1>3, SoundKept DEF IInv, CallsSound
<1>5. AnswersSound'
  BY <1>1, <1>3, RepliesKept DEF AnswersSound
<1>6. HalfCreatedHasOwner'
  BY <1>1, <1>3 DEF IInv, HalfCreatedHasOwner, tables
<1> QED
  BY <1>2, <1>3, <1>4, <1>5, <1>6 DEF IInv

-----------------------------------------------------------------------------
(* Steps that change the tables *)

\* The unique index keeps the pairs apart, and the handler owns the chat it created.
LEMMA CreateIInv ==
  ASSUME IInv, NEW h \in Handlers, Create(h)
  PROVE  IInv'
<1> DEFINE n == lastChat + 1
           row == [who |-> Range(call[h].who), isGroup |-> IsGroup(call[h].who)]
<1>1. /\ call[h].pc = "create"
      /\ IsGroup(call[h].who) \/ PairFree(Pair(h))
      /\ UNCHANGED <<users, members, replies, strangers, requests, deletes, faults>>
      /\ lastChat' = n
  BY DEF Create, counters
<1>2. /\ call[h] \in Call /\ call[h] # Idle /\ Sound(h)
      /\ lastChat \in Nat
  BY <1>1, ActiveHasCall DEF IInv, CallsSound, TypeOK
<1>3. /\ n \in Nat /\ n > lastChat /\ n \notin DOMAIN chats
      /\ row \in [who : SUBSET Users, isGroup : BOOLEAN]
      /\ row.who = Range(call[h].who) /\ row.isGroup = IsGroup(call[h].who)
  BY <1>2, ListFacts DEF Call, IInv, TypeOK
<1>4. chats' = [c \in DOMAIN chats \cup {n} |-> IF c \in DOMAIN chats THEN chats[c] ELSE row]
  BY DEF Create
<1>5. Moves(h, "add", n, 0)
  BY DEF Create, Moves
<1> HIDE DEF n, row
<1>6. /\ DOMAIN chats' = DOMAIN chats \cup {n}
      /\ chats'[n] = row
      /\ \A c \in DOMAIN chats : chats'[c] = chats[c]
  BY <1>3, <1>4
<1>7. 0 \in 0 .. Len(call[h].who)
  BY <1>2, ListFacts DEF Call
<1>8. /\ call' \in [Handlers -> Call \cup {Idle}]
      /\ \A g \in Handlers : call'[g] # Idle => call'[g].added \in 0 .. Len(call'[g].who)
      /\ \A g \in Handlers \ {h} : call'[g] = call[g]
      /\ call'[h] \in Call
      /\ call'[h].pc = "add" /\ call'[h].chat = n
      /\ call'[h].added = 0 /\ call'[h].who = call[h].who
  BY <1>1, <1>3, <1>5, <1>7, MovedCall DEF IInv, Phase
<1>9. TypeOK'
  <2>1. chats' \in [DOMAIN chats' -> [who : SUBSET Users, isGroup : BOOLEAN]]
    BY <1>3, <1>4, <1>6 DEF IInv, TypeOK
  <2>2. DOMAIN chats' \subseteq 1 .. lastChat'
    BY <1>1, <1>2, <1>3, <1>6 DEF IInv, TypeOK
  <2>3. /\ users' \subseteq Users
        /\ members' \subseteq (DOMAIN chats') \X users'
        /\ strangers' \subseteq 1 .. lastChat'
    BY <1>1, <1>2, <1>3, <1>6 DEF IInv, TypeOK
  <2> QED
    BY <1>1, <1>3, <1>8, <2>1, <2>2, <2>3 DEF IInv, TypeOK
<1>10. \A c : MembersOf(c)' = MembersOf(c)
  BY <1>1 DEF MembersOf
<1>11. MembersOf(n) = {}
  BY <1>3 DEF MembersOf, IInv, TypeOK
<1>12. Kept
  BY <1>1, <1>2, <1>3, <1>6, <1>9, <1>10 DEF Kept, TypeOK
<1>13. Sound(h)'
  <2>1. n # 0 /\ call'[h] # Idle
    BY <1>2, <1>3, <1>8, IdleIsNoCall
  <2>2. row = [who |-> Range(call[h].who), isGroup |-> IsGroup(call[h].who)]
    BY DEF row
  <2> QED
    BY <1>1, <1>2, <1>3, <1>6, <1>8, <2>1, <2>2 DEF Sound
<1>14. CallsSound'
  BY <1>8, <1>12, <1>13, OthersSound
<1>15. ChatsSound'
  <2>1. ASSUME ~IsGroup(call[h].who)
        PROVE  /\ row.who = Pair(h)
               /\ \E u, v \in Users : row.who = {u, v}
    <3>1. Len(call[h].who) = 2
      <4>1. ~(Len(call[h].who) > 2) /\ Len(call[h].who) > 1 /\ Len(call[h].who) \in Nat
        BY <1>2, <2>1, ListFacts DEF IsGroup, Sound, Call
      <4> QED
        BY <4>1, OnlyTwo
    <3>2. Range(call[h].who) = {call[h].who[1], call[h].who[2]}
          /\ call[h].who[1] \in Users /\ call[h].who[2] \in Users
      BY <1>2, <3>1, ListFacts DEF Call
    <3> QED
      BY <1>3, <3>2 DEF Pair
  <2>2. ASSUME NEW c \in DOMAIN chats, ~chats[c].isGroup, ~row.isGroup
        PROVE  chats[c].who # row.who
    BY <1>1, <1>3, <2>1, <2>2 DEF PairFree
  <2>3. ASSUME NEW c \in DOMAIN chats'
        PROVE  /\ MembersOf(c)' \subseteq chats'[c].who
               /\ ~chats'[c].isGroup => \E u, v \in Users : chats'[c].who = {u, v}
    BY <1>3, <1>6, <1>10, <1>11, <2>1, <2>3 DEF IInv, ChatsSound
  <2>4. ASSUME NEW c \in DOMAIN chats', NEW d \in DOMAIN chats',
               ~chats'[c].isGroup, ~chats'[d].isGroup, chats'[c].who = chats'[d].who
        PROVE  c = d
    BY <1>6, <2>2, <2>4 DEF IInv, ChatsSound
  <2> QED
    BY <2>3, <2>4 DEF ChatsSound
<1>16. AnswersSound'
  BY <1>1, <1>12, <1>15, RepliesKept DEF AnswersSound
<1>17. HalfCreatedHasOwner'
  <2> SUFFICES ASSUME NEW c \in DOMAIN chats', MembersOf(c)' # chats'[c].who
               PROVE  \/ faults' > 0
                      \/ c \in strangers'
                      \/ \E g \in Handlers :
                           call'[g] # Idle /\ call'[g].pc = "add" /\ call'[g].chat = c
    BY DEF HalfCreatedHasOwner
  <2>1. CASE c = n
    BY <1>8, <2>1, IdleIsNoCall
  <2>2. CASE c # n
    <3>1. c \in DOMAIN chats /\ MembersOf(c) # chats[c].who
      BY <1>6, <1>10, <2>2
    <3>2. \/ faults > 0
          \/ c \in strangers
          \/ \E g \in Handlers : call[g] # Idle /\ call[g].pc = "add" /\ call[g].chat = c
      BY <3>1 DEF IInv, HalfCreatedHasOwner
    <3> QED
      BY <1>1, <1>8, <3>2
  <2> QED
    BY <2>1, <2>2
<1> QED
  BY <1>9, <1>14, <1>15, <1>16, <1>17 DEF IInv

LEMMA AddMemberIInv ==
  ASSUME IInv, NEW h \in Handlers, AddMember(h)
  PROVE  IInv'
<1> DEFINE k == call[h].chat
           m == NextMember(h)
           n == call[h].added + 1
<1>1. /\ call[h].pc = "add" /\ call[h].added < Len(call[h].who)
      /\ k \in DOMAIN chats /\ m \in users
      /\ members' = members \cup {<<k, m>>}
      /\ UNCHANGED <<users, chats, lastChat, replies, strangers, requests, deletes, faults>>
  BY DEF AddMember, MayInsert, counters
<1>2. /\ call[h] \in Call /\ call[h] # Idle /\ Sound(h)
      /\ call[h].added \in 0 .. Len(call[h].who) /\ Len(call[h].who) \in Nat
      /\ k \in Nat
  BY <1>1, ActiveHasCall, ListFacts DEF IInv, CallsSound, Call
<1>3. n \in 1 .. Len(call[h].who) /\ n \in 0 .. Len(call[h].who)
  BY <1>1, <1>2
<1>4. m = call[h].who[n] /\ m \in Users
  BY <1>1 DEF NextMember, IInv, TypeOK
<1>5. Moves(h, "add", k, n)
  <2>1. \A e \in Call : e.pc = "add" =>
          [e EXCEPT !.added = e.added + 1] =
            [e EXCEPT !.pc = "add", !.chat = e.chat, !.added = e.added + 1]
    BY DEF Call
  <2>2. [call[h] EXCEPT !.added = call[h].added + 1] =
          [call[h] EXCEPT !.pc = "add", !.chat = call[h].chat, !.added = call[h].added + 1]
    BY <1>1, <1>2, <2>1
  <2>3. call' = [call EXCEPT ![h] = [call[h] EXCEPT !.added = call[h].added + 1]]
    BY DEF AddMember
  <2> QED
    BY <2>2, <2>3 DEF Moves
<1> HIDE DEF k, m, n
<1>6. /\ call' \in [Handlers -> Call \cup {Idle}]
      /\ \A g \in Handlers : call'[g] # Idle => call'[g].added \in 0 .. Len(call'[g].who)
      /\ \A g \in Handlers \ {h} : call'[g] = call[g]
      /\ call'[h] \in Call
      /\ call'[h].pc = "add" /\ call'[h].chat = k
      /\ call'[h].added = n /\ call'[h].who = call[h].who
  BY <1>1, <1>2, <1>3, <1>5, MovedCall DEF IInv, Phase
<1>7. TypeOK'
  BY <1>1, <1>6 DEF IInv, TypeOK
<1>8. \A c : MembersOf(c)' = IF c = k THEN MembersOf(c) \cup {m} ELSE MembersOf(c)
  BY <1>1, <1>4 DEF MembersOf
<1>9. /\ chats[k] = [who |-> Range(call[h].who), isGroup |-> IsGroup(call[h].who)]
      /\ \A i \in 1 .. call[h].added : call[h].who[i] \in MembersOf(k)
  BY <1>1, <1>2 DEF Sound, k
<1>10. Kept
  BY <1>1, <1>8 DEF Kept, IInv, TypeOK
<1>11. Sound(h)'
  <2>1. k # 0 /\ k <= lastChat /\ Len(call[h].who) > 1
    BY <1>1, <1>2 DEF Sound, k
  <2>2. \A i \in 1 .. n : i \in 1 .. call[h].added \/ i = n
    BY <1>2 DEF n
  <2>3. \A i \in 1 .. n : call[h].who[i] \in Users /\ <<k, call[h].who[i]>> \in members'
    BY <1>1, <1>4, <1>9, <2>2 DEF MembersOf
  <2>4. \A i \in 1 .. call'[h].added : call'[h].who[i] \in MembersOf(call[h].chat)'
    BY <1>6, <2>3 DEF MembersOf, k
  <2> QED
    BY <1>1, <1>6, <1>9, <2>1, <2>4 DEF Sound, k
<1>12. CallsSound'
  BY <1>6, <1>10, <1>11, OthersSound
<1>13. ChatsSound'
  <2>1. m \in chats[k].who
    <3>1. m \in Range(call[h].who)
      BY <1>2, <1>3, <1>4, ListFacts DEF Call
    <3> QED
      BY <1>9, <3>1
  <2> QED
    BY <1>1, <1>8, <2>1 DEF IInv, ChatsSound
<1>14. AnswersSound'
  BY <1>1, <1>10, <1>13, RepliesKept DEF AnswersSound
<1>15. HalfCreatedHasOwner'
  <2> SUFFICES ASSUME NEW c \in DOMAIN chats, MembersOf(c)' # chats[c].who
               PROVE  \/ faults' > 0
                      \/ c \in strangers'
                      \/ \E g \in Handlers :
                           call'[g] # Idle /\ call'[g].pc = "add" /\ call'[g].chat = c
    BY <1>1 DEF HalfCreatedHasOwner
  <2>1. CASE c = k
    BY <1>6, <2>1, IdleIsNoCall
  <2>2. CASE c # k
    <3>1. \/ faults > 0
          \/ c \in strangers
          \/ \E g \in Handlers : call[g] # Idle /\ call[g].pc = "add" /\ call[g].chat = c
      BY <1>8, <2>2 DEF IInv, HalfCreatedHasOwner
    <3>2. k = call[h].chat
      BY DEF k
    <3> QED
      BY <1>1, <1>6, <2>2, <3>1, <3>2
  <2> QED
    BY <2>1, <2>2
<1> QED
  BY <1>7, <1>12, <1>13, <1>14, <1>15 DEF IInv

LEMMA DeleteDirectIInv ==
  ASSUME IInv, NEW k \in 1 .. lastChat, NEW u \in Users, DeleteDirect(k, u)
  PROVE  IInv'
<1>1. /\ k \in DOMAIN chats
      /\ chats' = [d \in DOMAIN chats \ {k} |-> chats[d]]
      /\ members' = {m \in members : m[1] # k}
      /\ deletes' \in 0 .. MaxDeletes
      /\ UNCHANGED <<users, lastChat, call, replies, strangers, requests, faults>>
  BY DirectChatAssumption DEF DeleteDirect, IInv, TypeOK
<1>2. /\ DOMAIN chats' = DOMAIN chats \ {k}
      /\ \A c \in DOMAIN chats' : chats'[c] = chats[c]
  BY <1>1
<1>3. \A c \in DOMAIN chats' : MembersOf(c)' = MembersOf(c)
  BY <1>1, <1>2 DEF MembersOf
<1>4. TypeOK'
  <2>1. chats' \in [DOMAIN chats' -> [who : SUBSET Users, isGroup : BOOLEAN]]
    BY <1>1, <1>2 DEF IInv, TypeOK
  <2>2. members' \subseteq (DOMAIN chats') \X users'
    BY <1>1, <1>2 DEF IInv, TypeOK
  <2>3. DOMAIN chats' \subseteq 1 .. lastChat'
    BY <1>1, <1>2 DEF IInv, TypeOK
  <2> QED
    BY <1>1, <2>1, <2>2, <2>3 DEF IInv, TypeOK
<1>5. Kept
  <2>1. /\ lastChat' \in Nat /\ lastChat <= lastChat'
        /\ faults' \in Nat /\ faults <= faults'
        /\ 0 \notin DOMAIN chats'
    BY <1>1, <1>2 DEF IInv, TypeOK
  <2> QED
    BY <1>2, <1>3, <2>1 DEF Kept
<1>6. CallsSound'
  BY <1>1, <1>5, SoundKept DEF IInv, CallsSound
<1>7. ChatsSound'
  BY <1>2, <1>3 DEF IInv, ChatsSound
<1>8. AnswersSound'
  BY <1>1, <1>5, <1>7, RepliesKept DEF AnswersSound
<1>9. HalfCreatedHasOwner'
  BY <1>1, <1>2, <1>3 DEF IInv, HalfCreatedHasOwner
<1> QED
  BY <1>4, <1>6, <1>7, <1>8, <1>9 DEF IInv

LEMMA StutterIInv ==
  ASSUME IInv, UNCHANGED vars
  PROVE  IInv'
<1>1. UNCHANGED <<users, tables, call, replies, strangers, requests, deletes, faults>>
  BY DEF vars, counters
<1>2. TypeOK'
  BY <1>1 DEF IInv, TypeOK, tables
<1>3. Kept /\ ChatsSound' /\ \A c : MembersOf(c)' = MembersOf(c)
  BY <1>1, FaultsStay, TablesStay
<1>4. CallsSound'
  BY <1>1, <1>3, SoundKept DEF IInv, CallsSound
<1>5. AnswersSound'
  BY <1>1, <1>3, RepliesKept DEF AnswersSound
<1>6. HalfCreatedHasOwner'
  BY <1>1, <1>3 DEF IInv, HalfCreatedHasOwner, tables
<1> QED
  BY <1>2, <1>3, <1>4, <1>5, <1>6 DEF IInv

-----------------------------------------------------------------------------
(* Theorems *)

LEMMA InitIInv == Init => IInv
<1> SUFFICES ASSUME Init PROVE IInv
  OBVIOUS
<1>1. DOMAIN chats = {} /\ chats \in [DOMAIN chats -> [who : SUBSET Users, isGroup : BOOLEAN]]
  BY DEF Init
<1>2. TypeOK
  BY <1>1, DirectChatAssumption DEF Init, TypeOK
<1> QED
  BY <1>1, <1>2 DEF Init, IInv, CallsSound, Sound, ChatsSound, AnswersSound, HalfCreatedHasOwner

LEMMA NextIInv == IInv /\ [Next]_vars => IInv'
<1> SUFFICES ASSUME IInv, [Next]_vars PROVE IInv'
  OBVIOUS
<1>1. ASSUME NEW h \in Handlers, Proceed(h) PROVE IInv'
  BY <1>1, FindIInv, CreateIInv, CreateConflictIInv, FindAgainIInv, AddMemberIInv,
     AddMemberFailsIInv, FinishAddIInv, GetIInv DEF Proceed
<1> QED
  BY <1>1, RequestIInv, RequestPanicsIInv, FailsIInv, CrashIInv, SignInIInv, DeleteDirectIInv,
     StutterIInv DEF Next, Rest

\* The inductive invariant holds in every reachable state of CreateChat and DeleteDirectChat.
THEOREM Invariance == Spec => []IInv
<1> QED
  BY InitIInv, NextIInv, PTL DEF Spec

\* Rows, handlers and replies have their types, and members belong to existing chats and to
\* users.
THEOREM TypeCorrect == Spec => []TypeOK
BY Invariance, PTL DEF IInv

\* However many requests for a pair race, fail half way or delete it in between, at most one
\* direct chat has both users: the unique index decides, not the look-up.
THEOREM PairsHaveOneChat == Spec => []OneChatPerPair
<1>1. IInv => OneChatPerPair
  <2> SUFFICES ASSUME IInv, NEW u \in Users, NEW v \in Users, u # v,
                      NEW c \in DirectChatsOf({u, v}), NEW d \in DirectChatsOf({u, v})
               PROVE  c = d
    BY DEF OneChatPerPair
  <2>1. ASSUME NEW e \in DirectChatsOf({u, v})
        PROVE  e \in DOMAIN chats /\ ~chats[e].isGroup /\ chats[e].who = {u, v}
    <3>1. /\ e \in DOMAIN chats /\ ~chats[e].isGroup
          /\ u \in MembersOf(e) /\ v \in MembersOf(e)
      BY DEF DirectChatsOf
    <3>2. PICK x \in Users, y \in Users : chats[e].who = {x, y}
      BY <3>1 DEF IInv, ChatsSound
    <3>3. u \in {x, y} /\ v \in {x, y}
      BY <3>1, <3>2 DEF IInv, ChatsSound
    <3> QED
      BY <3>1, <3>2, <3>3
  <2> QED
    BY <2>1 DEF IInv, ChatsSound
<1> QED
  BY <1>1, Invariance, PTL

\* A chat that is answered has all its members, and is the one that was asked for.
THEOREM AnswersAreComplete == Spec => []AnswerIsComplete
<1>1. IInv => AnswerIsComplete
  BY DEF IInv, AnswersSound, AnswerSound, AnswerIsComplete
<1> QED
  BY <1>1, Invariance, PTL

\* Only a failure, or a participant who never signed in, leaves a chat without its members.
THEOREM HalfCreatedIsOwned == Spec => []HalfCreatedHasOwner
BY Invariance, PTL DEF IInv

=============================================================================
