--------------------------- MODULE RoomHubProofs ---------------------------
(***************************************************************************)
(* RoomHub, for any clients, chats and messages, any size of the send      *)
(* buffers, and with Redis and without it.                                 *)
(***************************************************************************)
EXTENDS RoomHub, FiniteSetTheorems, TLAPS

Joining == {c \in Clients : pc[c] = "joining"}

\* Every join that is under way can still make its subscription.
PumpsBounded == lastPump + Cardinality(Joining) <= MaxPumps

BuffersFinite == \A c \in Clients : IsFiniteSet(buffer[c])

\* The two sides of the membership in a room agree while the client is connected, and what
\* is left to unsubscribe from are rooms the client had joined.
Places ==
  \A c \in Clients :
    /\ \A r \in Chats : c \in rooms[r] <=> r \in joined[c] /\ pc[c] \in {"open", "joining", "leaving"}
    /\ pc[c] \in {"new", "gone"} => joined[c] = {}
    /\ pc[c] = "joining" => at[c] \in joined[c]
    /\ pc[c] = "leaving" => at[c] \notin joined[c]
    /\ todo[c] \subseteq joined[c]
    /\ pc[c] # "closing" => todo[c] = {}

\* With Redis every pump is one of a subscription, and without it of a handler that has a
\* stored message; a subscription has one pump, and is not registered any more when it is
\* to be closed.
PumpsSound ==
  /\ ~redisEnabled => lastPump = 0
  /\ \A p \in pumps :
       /\ p.id = 0 <=> ~redisEnabled
       /\ p.id = 0 => \E m \in Messages : p.queue = {m} /\ <<m, p.chat>> \in sent
  /\ \A p, q \in pumps : p.id = q.id /\ p.id # 0 => p = q
  /\ \A r \in Chats : subs[r] \notin closing

\* Messages are owed to clients that have joined and subscribed, and belong to one chat.
OwedSound ==
  /\ \A o \in owed : Settled(o[1], o[2]) /\ <<o[3], o[2]>> \in sent
  /\ \A s, t \in sent : s[1] = t[1] => s = t

IInv ==
  /\ TypeOK
  /\ CountExact
  /\ OccupantsMissNothing
  /\ PumpsBounded
  /\ BuffersFinite
  /\ Places
  /\ PumpsSound
  /\ OwedSound

-----------------------------------------------------------------------------
(* Counting clients *)

LEMMA CountIsNat ==
  ASSUME NEW S \in SUBSET Clients
  PROVE  /\ IsFiniteSet(S)
         /\ Cardinality(S) \in Nat
         /\ Cardinality(S) = 0 <=> S = {}
<1>1. IsFiniteSet(S)
  BY RoomHubAssumption, FS_Subset
<1> QED
  BY <1>1, FS_CardinalityType, FS_EmptySet

\* A client more, and a client less.
LEMMA CountMore ==
  ASSUME NEW S \in SUBSET Clients, NEW c \in Clients, c \notin S, NEW T, T = S \cup {c}
  PROVE  Cardinality(T) = Cardinality(S) + 1
BY CountIsNat, FS_AddElement

LEMMA CountLess ==
  ASSUME NEW S \in SUBSET Clients, NEW c \in Clients, c \in S, NEW T, T = S \ {c}
  PROVE  Cardinality(T) = Cardinality(S) - 1
BY CountIsNat, FS_RemoveElement

LEMMA UsersAreClients ==
  ASSUME NEW r
  PROVE  UsersOf(r) \in SUBSET Clients /\ UsersOf(r)' \in SUBSET Clients
BY DEF UsersOf

-----------------------------------------------------------------------------
(* Rooms *)

\* What joins, leaves and disconnections do in the room itself.
LEMMA RoomsChange ==
  ASSUME IInv, TypeOK', Places', PumpsBounded', BuffersFinite',
         UNCHANGED <<redisEnabled, redis, pumps, sent>>,
         \A r \in Chats : UsersOf(r)' = UsersOf(r),
         \A o \in owed' :
           /\ o \in owed
           /\ Settled(o[1], o[2])'
           /\ o[3] \in buffer[o[1]] => o[3] \in buffer'[o[1]]
  PROVE  IInv'
<1>1. CountExact'
  BY DEF IInv, CountExact, redis
<1>2. PumpsSound'
  BY DEF IInv, PumpsSound, redis
<1>3. OwedSound'
  BY DEF IInv, OwedSound
<1>4. OccupantsMissNothing'
  <2> SUFFICES ASSUME NEW c \in Clients, NEW r \in Chats, NEW m \in Messages, <<c, r, m>> \in owed'
               PROVE  \/ m \in buffer'[c]
                      \/ c \in rooms'[r] /\ \E p \in pumps' : p.id = subs'[r] /\ m \in p.queue
    BY DEF OccupantsMissNothing
  <2>1. /\ <<c, r, m>> \in owed
        /\ Settled(c, r)'
        /\ m \in buffer[c] => m \in buffer'[c]
    OBVIOUS
  <2>2. c \in rooms'[r]
    BY <2>1 DEF Settled
  <2>3. m \in buffer[c] \/ \E p \in pumps : p.id = subs[r] /\ m \in p.queue
    BY <2>1 DEF IInv, OccupantsMissNothing
  <2> QED
    BY <2>1, <2>2, <2>3 DEF redis
<1> QED
  BY <1>1, <1>2, <1>3, <1>4 DEF IInv

LEMMA ConnectIInv ==
  ASSUME IInv, NEW c \in Clients, Connect(c)
  PROVE  IInv'
<1>1. /\ pc[c] = "new" /\ pc' = [pc EXCEPT ![c] = "open"]
      /\ UNCHANGED <<redisEnabled, at, todo, rooms, joined, redis, pumps, sent, buffer, owed>>
  BY DEF Connect, registry, delivery
<1>2. \A d \in Clients : pc'[d] = IF d = c THEN "open" ELSE pc[d]
  BY <1>1 DEF IInv, TypeOK
<1>3. TypeOK'
  BY <1>1 DEF IInv, TypeOK, redis
<1>4. Places'
  BY <1>1, <1>2 DEF IInv, Places
<1>5. \A r \in Chats : c \notin rooms[r]
  BY <1>1 DEF IInv, Places
<1>6. \A r \in Chats, d \in Clients : Settled(d, r)' = Settled(d, r)
  BY <1>1, <1>2 DEF Settled
<1>7. \A r \in Chats : UsersOf(r)' = UsersOf(r)
  BY <1>1, <1>2, <1>6 DEF UsersOf
<1>8. PumpsBounded' /\ BuffersFinite'
  <2>1. Joining' = Joining
    BY <1>1, <1>2 DEF Joining
  <2> QED
    BY <1>1, <2>1 DEF IInv, PumpsBounded, BuffersFinite, redis
<1>9. \A o \in owed' : o \in owed /\ Settled(o[1], o[2])' /\ buffer' = buffer
  <2> SUFFICES ASSUME NEW o \in owed PROVE Settled(o[1], o[2])'
    BY <1>1
  <2>1. o[1] \in Clients /\ o[2] \in Chats /\ Settled(o[1], o[2])
    BY DEF IInv, TypeOK, OwedSound
  <2> QED
    BY <1>6, <2>1
<1> QED
  BY <1>1, <1>3, <1>4, <1>7, <1>8, <1>9, RoomsChange

\* The client is in the room, but not yet a user of the subscription.
LEMMA JoinRoomIInv ==
  ASSUME IInv, Disciplined, NEW c \in Clients, NEW r \in Chats, JoinRoom(c, r)
  PROVE  IInv'
<1>1. /\ pc[c] = "open" /\ r \notin joined[c]
      /\ lastPump + Cardinality(Joining) < MaxPumps
      /\ rooms' = [rooms EXCEPT ![r] = @ \cup {c}]
      /\ joined' = [joined EXCEPT ![c] = @ \cup {r}]
      /\ pc' = [pc EXCEPT ![c] = "joining"]
      /\ at' = [at EXCEPT ![c] = r]
      /\ UNCHANGED <<redisEnabled, todo, redis, pumps, sent, buffer, owed>>
  BY DEF JoinRoom, Joining, delivery
<1>2. /\ \A d \in Clients : pc'[d] = IF d = c THEN "joining" ELSE pc[d]
      /\ \A d \in Clients : at'[d] = IF d = c THEN r ELSE at[d]
      /\ \A d \in Clients : joined'[d] = IF d = c THEN joined[c] \cup {r} ELSE joined[d]
      /\ \A q \in Chats : rooms'[q] = IF q = r THEN rooms[r] \cup {c} ELSE rooms[q]
  BY <1>1 DEF IInv, TypeOK
<1>3. TypeOK'
  BY <1>1 DEF IInv, TypeOK, redis
<1>4. Places'
  BY <1>1, <1>2 DEF IInv, Places
<1>5. c \notin rooms[r]
  BY <1>1 DEF IInv, Places
<1>6. \A q \in Chats, d \in Clients : Settled(d, q)' = Settled(d, q)
  BY <1>1, <1>2, <1>5 DEF Settled
<1>7. \A q \in Chats : UsersOf(q)' = UsersOf(q)
  BY <1>1, <1>2, <1>6 DEF UsersOf
<1>8. PumpsBounded' /\ BuffersFinite'
  <2>1. Joining' = Joining \cup {c} /\ c \notin Joining /\ Joining \in SUBSET Clients
    BY <1>1, <1>2 DEF Joining
  <2>2. Cardinality(Joining') = Cardinality(Joining) + 1 /\ Cardinality(Joining) \in Nat
    BY <2>1, CountMore, CountIsNat
  <2> QED
    BY <1>1, <2>2, RoomHubAssumption DEF IInv, TypeOK, PumpsBounded, BuffersFinite, redis
<1>9. \A o \in owed' : o \in owed /\ Settled(o[1], o[2])' /\ buffer' = buffer
  <2> SUFFICES ASSUME NEW o \in owed PROVE Settled(o[1], o[2])'
    BY <1>1
  <2>1. o[1] \in Clients /\ o[2] \in Chats /\ Settled(o[1], o[2])
    BY DEF IInv, TypeOK, OwedSound
  <2> QED
    BY <1>6, <2>1
<1> QED
  BY <1>1, <1>3, <1>4, <1>7, <1>8, <1>9, RoomsChange

\* The client is out of the room, and still a user of the subscription.
LEMMA LeaveRoomIInv ==
  ASSUME IInv, Disciplined, NEW c \in Clients, NEW r \in Chats, LeaveRoom(c, r)
  PROVE  IInv'
<1>1. /\ pc[c] = "open" /\ r \in joined[c]
      /\ rooms' = [rooms EXCEPT ![r] = @ \ {c}]
      /\ joined' = [joined EXCEPT ![c] = @ \ {r}]
      /\ pc' = [pc EXCEPT ![c] = "leaving"]
      /\ at' = [at EXCEPT ![c] = r]
      /\ owed' = {o \in owed : o[1] # c \/ o[2] # r}
      /\ UNCHANGED <<redisEnabled, todo, redis, pumps, sent, buffer>>
  BY DEF LeaveRoom
<1>2. /\ \A d \in Clients : pc'[d] = IF d = c THEN "leaving" ELSE pc[d]
      /\ \A d \in Clients : at'[d] = IF d = c THEN r ELSE at[d]
      /\ \A d \in Clients : joined'[d] = IF d = c THEN joined[c] \ {r} ELSE joined[d]
      /\ \A q \in Chats : rooms'[q] = IF q = r THEN rooms[r] \ {c} ELSE rooms[q]
  BY <1>1 DEF IInv, TypeOK
<1>3. TypeOK'
  BY <1>1 DEF IInv, TypeOK, redis
<1>4. Places'
  BY <1>1, <1>2 DEF IInv, Places
<1>5. c \in rooms[r]
  BY <1>1 DEF IInv, Places
<1>6. /\ Settled(c, r) /\ ~Settled(c, r)'
      /\ \A q \in Chats, d \in Clients : d # c \/ q # r => Settled(d, q)' = Settled(d, q)
  BY <1>1, <1>2, <1>5 DEF Settled
<1>7. \A q \in Chats : UsersOf(q)' = UsersOf(q)
  <2> SUFFICES ASSUME NEW q \in Chats, NEW d \in Clients
               PROVE  d \in UsersOf(q)' <=> d \in UsersOf(q)
    BY UsersAreClients
  <2>1. CASE d # c
    BY <1>1, <1>2, <1>6, <2>1 DEF UsersOf
  <2>2. CASE d = c
    BY <1>1, <1>2, <1>6, <2>2 DEF UsersOf
  <2> QED
    BY <2>1, <2>2
<1>8. PumpsBounded' /\ BuffersFinite'
  <2>1. Joining' = Joining
    BY <1>1, <1>2 DEF Joining
  <2> QED
    BY <1>1, <2>1 DEF IInv, PumpsBounded, BuffersFinite, redis
<1>9. \A o \in owed' : o \in owed /\ Settled(o[1], o[2])' /\ buffer' = buffer
  <2> SUFFICES ASSUME NEW o \in owed, o[1] # c \/ o[2] # r PROVE Settled(o[1], o[2])'
    BY <1>1
  <2>1. o[1] \in Clients /\ o[2] \in Chats /\ Settled(o[1], o[2])
    BY DEF IInv, TypeOK, OwedSound
  <2> QED
    BY <1>6, <2>1
<1> QED
  BY <1>1, <1>3, <1>4, <1>7, <1>8, <1>9, RoomsChange

\* A client that disconnects is still a user of every subscription it has to give back.
LEMMA UnregisterIInv ==
  ASSUME IInv, NEW c \in Clients, Unregister(c)
  PROVE  IInv'
<1>1. /\ pc[c] = "open"
      /\ rooms' = [r \in Chats |-> IF r \in joined[c] THEN rooms[r] \ {c} ELSE rooms[r]]
      /\ todo' = [todo EXCEPT ![c] = joined[c]]
      /\ pc' = [pc EXCEPT ![c] = "closing"]
      /\ owed' = {o \in owed : o[1] # c}
      /\ UNCHANGED <<redisEnabled, at, joined, redis, pumps, sent, buffer>>
  BY DEF Unregister, RoomsOf
<1>2. /\ \A d \in Clients : pc'[d] = IF d = c THEN "closing" ELSE pc[d]
      /\ \A d \in Clients : todo'[d] = IF d = c THEN joined[c] ELSE todo[d]
      /\ \A q \in Chats : rooms'[q] = rooms[q] \ {c}
  BY <1>1 DEF IInv, TypeOK, Places
<1>3. TypeOK'
  BY <1>1 DEF IInv, TypeOK, redis
<1>4. Places'
  BY <1>1, <1>2 DEF IInv, Places
<1>5. \A q \in Chats : Settled(c, q) <=> q \in joined[c]
  BY <1>1 DEF IInv, Places, Settled
<1>6. /\ \A q \in Chats : ~Settled(c, q)'
      /\ \A q \in Chats, d \in Clients : d # c => Settled(d, q)' = Settled(d, q)
  BY <1>1, <1>2 DEF Settled
<1>7. \A q \in Chats : UsersOf(q)' = UsersOf(q)
  <2> SUFFICES ASSUME NEW q \in Chats, NEW d \in Clients
               PROVE  d \in UsersOf(q)' <=> d \in UsersOf(q)
    BY UsersAreClients
  <2>1. CASE d # c
    BY <1>1, <1>2, <1>6, <2>1 DEF UsersOf
  <2>2. CASE d = c
    BY <1>1, <1>2, <1>5, <1>6, <2>2 DEF UsersOf
  <2> QED
    BY <2>1, <2>2
<1>8. PumpsBounded' /\ BuffersFinite'
  <2>1. Joining' = Joining
    BY <1>1, <1>2 DEF Joining
  <2> QED
    BY <1>1, <2>1 DEF IInv, PumpsBounded, BuffersFinite, redis
<1>9. \A o \in owed' : o \in owed /\ Settled(o[1], o[2])' /\ buffer' = buffer
  <2> SUFFICES ASSUME NEW o \in owed, o[1] # c PROVE Settled(o[1], o[2])'
    BY <1>1
  <2>1. o[1] \in Clients /\ o[2] \in Chats /\ Settled(o[1], o[2])
    BY DEF IInv, TypeOK, OwedSound
  <2> QED
    BY <1>6, <2>1
<1> QED
  BY <1>1, <1>3, <1>4, <1>7, <1>8, <1>9, RoomsChange

\* By then nothing is owed to the client any more.
LEMMA FinishUnregisterIInv ==
  ASSUME IInv, NEW c \in Clients, FinishUnregister(c)
  PROVE  IInv'
<1>1. /\ pc[c] = "closing" /\ todo[c] = {}
      /\ pc' = [pc EXCEPT ![c] = "gone"]
      /\ joined' = [joined EXCEPT ![c] = {}]
      /\ buffer' = [buffer EXCEPT ![c] = {}]
      /\ UNCHANGED <<redisEnabled, at, todo, rooms, redis, pumps, sent, owed>>
  BY DEF FinishUnregister
<1>2. /\ \A d \in Clients : pc'[d] = IF d = c THEN "gone" ELSE pc[d]
      /\ \A d \in Clients : joined'[d] = IF d = c THEN {} ELSE joined[d]
      /\ \A d \in Clients : buffer'[d] = IF d = c THEN {} ELSE buffer[d]
  BY <1>1 DEF IInv, TypeOK
<1>3. TypeOK'
  <2>1. \A d \in Clients : Cardinality(buffer'[d]) <= SendBuffer
    BY <1>2, FS_EmptySet, RoomHubAssumption DEF IInv, TypeOK
  <2> QED
    BY <1>1, <2>1 DEF IInv, TypeOK, redis
<1>4. Places'
  BY <1>1, <1>2 DEF IInv, Places
<1>5. \A q \in Chats : c \notin rooms[q]
  BY <1>1 DEF IInv, Places
<1>6. \A q \in Chats, d \in Clients : Settled(d, q)' = Settled(d, q)
  BY <1>1, <1>2, <1>5 DEF Settled
<1>7. \A q \in Chats : UsersOf(q)' = UsersOf(q)
  BY <1>1, <1>2, <1>6 DEF UsersOf
<1>8. PumpsBounded' /\ BuffersFinite'
  <2>1. Joining' = Joining
    BY <1>1, <1>2 DEF Joining
  <2> QED
    BY <1>1, <1>2, <2>1, FS_EmptySet DEF IInv, PumpsBounded, BuffersFinite, redis
<1>9. \A o \in owed' : o \in owed /\ Settled(o[1], o[2])' /\ buffer'[o[1]] = buffer[o[1]]
  <2> SUFFICES ASSUME NEW o \in owed PROVE Settled(o[1], o[2])' /\ buffer'[o[1]] = buffer[o[1]]
    BY <1>1
  <2>1. o[1] \in Clients /\ o[2] \in Chats /\ Settled(o[1], o[2])
    BY DEF IInv, TypeOK, OwedSound
  <2>2. o[1] # c
    BY <1>5, <2>1 DEF Settled
  <2> QED
    BY <1>2, <1>6, <2>1, <2>2
<1> QED
  BY <1>1, <1>3, <1>4, <1>7, <1>8, <1>9, RoomsChange

-----------------------------------------------------------------------------
(* Subscriptions *)

\* The registered subscription of a chat, when there is one, and its pump.
LEMMA SubsFacts ==
  ASSUME IInv, NEW r \in Chats
  PROVE  /\ subs[r] \in 0 .. lastPump /\ lastPump \in Nat /\ cnt[r] \in Nat
         /\ ~redisEnabled => subs[r] = 0
         /\ \A q \in Chats : subs[q] = subs[r] /\ subs[r] # 0 => q = r
         /\ \A p \in pumps : p.id = subs[r] /\ subs[r] # 0 => p.chat = r
<1>1. /\ subs[r] \in 0 .. lastPump /\ lastPump \in Nat /\ cnt[r] \in Nat
      /\ ~redisEnabled => subs[r] = 0
  BY RoomHubAssumption DEF IInv, TypeOK, PumpsSound
<1>2. \A p \in pumps : p.id = subs[r] /\ subs[r] # 0 => p.chat = r
  BY DEF IInv, TypeOK, PumpsSound
<1>3. \A q \in Chats : subs[q] = subs[r] /\ subs[r] # 0 => q = r
  BY <1>2 DEF IInv, TypeOK
<1> QED
  BY <1>1, <1>2, <1>3

\* unsubscribeFromChat by one of the users of the subscription, who is not one any more.
LEMMA UnsubscribeDoes ==
  ASSUME IInv, redisEnabled' = redisEnabled, NEW r \in Chats, NEW c \in Clients,
         UnsubscribeFromChat(r),
         c \in UsersOf(r), UsersOf(r)' = UsersOf(r) \ {c},
         \A q \in Chats \ {r} : UsersOf(q)' = UsersOf(q)
  PROVE  /\ lastPump' = lastPump
         /\ subs' \in [Chats -> 0 .. lastPump] /\ cnt' \in [Chats -> Nat]
         /\ closing' \subseteq closing \cup ({subs[r]} \ {0})
         /\ \A q \in Chats : subs'[q] = subs[q] \/ (subs'[q] = 0 /\ UsersOf(q)' = {})
         /\ \A q \in Chats : subs'[q] \notin closing'
         /\ CountExact'
<1>1. subs[r] \in 0 .. lastPump /\ lastPump \in Nat /\ cnt[r] \in Nat
  BY SubsFacts
<1>2. /\ UsersOf(r) \in SUBSET Clients /\ UsersOf(r)' \in SUBSET Clients
      /\ Cardinality(UsersOf(r)) \in Nat /\ Cardinality(UsersOf(r)') \in Nat
      /\ Cardinality(UsersOf(r)') = 0 <=> UsersOf(r)' = {}
      /\ Cardinality(UsersOf(r)') = Cardinality(UsersOf(r)) - 1
  BY UsersAreClients, CountIsNat, CountLess
<1>3. \A q \in Chats : subs[q] \notin closing
  BY DEF IInv, PumpsSound
<1>4. /\ cnt[r] = IF redisEnabled THEN Cardinality(UsersOf(r)) ELSE 0
      /\ subs[r] # 0 <=> redisEnabled
  BY DEF IInv, CountExact
<1>5. CASE subs[r] = 0 /\ UNCHANGED redis
  <2>1. ~redisEnabled
    BY <1>4, <1>5
  <2>2. CountExact'
    BY <1>5, <2>1 DEF IInv, CountExact, redis
  <2> QED
    BY <1>3, <1>5, <2>2 DEF redis, IInv, TypeOK
<1>6. CASE /\ subs[r] # 0 /\ cnt[r] > 1
           /\ cnt' = [cnt EXCEPT ![r] = @ - 1]
           /\ UNCHANGED <<subs, lastPump, closing>>
  <2>1. cnt' \in [Chats -> Nat]
    BY <1>1, <1>6 DEF IInv, TypeOK
  <2>2. /\ cnt'[r] = Cardinality(UsersOf(r)') /\ UsersOf(r)' # {}
        /\ \A q \in Chats \ {r} : cnt'[q] = cnt[q]
    BY <1>1, <1>2, <1>4, <1>6 DEF IInv, TypeOK
  <2>3. CountExact'
    <3> SUFFICES ASSUME NEW q \in Chats
                 PROVE  /\ cnt'[q] = IF redisEnabled' THEN Cardinality(UsersOf(q)') ELSE 0
                        /\ subs'[q] # 0 <=> redisEnabled' /\ UsersOf(q)' # {}
      BY DEF CountExact
    <3>1. CASE q = r
      BY <1>4, <1>6, <2>2, <3>1
    <3>2. CASE q # r
      BY <1>6, <2>2, <3>2 DEF IInv, CountExact
    <3> QED
      BY <3>1, <3>2
  <2> QED
    BY <1>3, <1>6, <2>1, <2>3 DEF IInv, TypeOK
<1>7. CASE /\ subs[r] # 0 /\ cnt[r] <= 1
           /\ subs' = [subs EXCEPT ![r] = 0]
           /\ cnt' = [cnt EXCEPT ![r] = 0]
           /\ closing' = closing \cup {subs[r]}
           /\ UNCHANGED lastPump
  <2>1. /\ cnt' \in [Chats -> Nat] /\ subs' \in [Chats -> 0 .. lastPump]
        /\ cnt'[r] = 0 /\ subs'[r] = 0
        /\ \A q \in Chats \ {r} : cnt'[q] = cnt[q] /\ subs'[q] = subs[q]
    BY <1>1, <1>7 DEF IInv, TypeOK
  <2>2. Cardinality(UsersOf(r)') = 0 /\ UsersOf(r)' = {}
    BY <1>1, <1>2, <1>4, <1>7
  <2>3. CountExact'
    <3> SUFFICES ASSUME NEW q \in Chats
                 PROVE  /\ cnt'[q] = IF redisEnabled' THEN Cardinality(UsersOf(q)') ELSE 0
                        /\ subs'[q] # 0 <=> redisEnabled' /\ UsersOf(q)' # {}
      BY DEF CountExact
    <3>1. CASE q = r
      BY <1>4, <2>1, <2>2, <3>1
    <3>2. CASE q # r
      BY <2>1, <3>2 DEF IInv, CountExact
    <3> QED
      BY <3>1, <3>2
  <2>4. \A q \in Chats : subs'[q] \notin closing'
    <3>1. 0 \notin closing'
      BY <1>7 DEF IInv, TypeOK
    <3>2. \A q \in Chats \ {r} : subs'[q] # 0 => subs'[q] # subs[r]
      BY <2>1, SubsFacts
    <3> QED
      BY <1>3, <1>7, <2>1, <3>1, <3>2
  <2> QED
    BY <1>7, <2>1, <2>2, <2>3, <2>4
<1> QED
  BY <1>5, <1>6, <1>7 DEF UnsubscribeFromChat

\* A goroutine gives back one user of the subscription to r, and nothing else changes.
LEMMA GivesBack ==
  ASSUME IInv, Places', NEW r \in Chats, NEW c \in Clients,
         UnsubscribeFromChat(r),
         c \in UsersOf(r), ~Settled(c, r), UsersOf(r)' = UsersOf(r) \ {c},
         \A q \in Chats \ {r} : UsersOf(q)' = UsersOf(q),
         \A q \in Chats, d \in Clients : Settled(d, q)' = Settled(d, q),
         UNCHANGED <<redisEnabled, at, registry, pumps, delivery>>,
         pc' \in [Clients -> {"new", "open", "joining", "leaving", "closing", "gone"}],
         todo' \in [Clients -> SUBSET Chats],
         Joining' = Joining
  PROVE  IInv'
<1>1. /\ lastPump' = lastPump
      /\ subs' \in [Chats -> 0 .. lastPump] /\ cnt' \in [Chats -> Nat]
      /\ closing' \subseteq closing \cup ({subs[r]} \ {0})
      /\ \A q \in Chats : subs'[q] = subs[q] \/ (subs'[q] = 0 /\ UsersOf(q)' = {})
      /\ \A q \in Chats : subs'[q] \notin closing'
      /\ CountExact'
  BY UnsubscribeDoes
<1>2. TypeOK'
  <2>1. closing' \subseteq {p.id : p \in pumps} \ {0}
    BY <1>1 DEF IInv, TypeOK
  <2>2. \A q \in Chats : subs'[q] # 0 => \E p \in pumps : p.id = subs'[q] /\ p.chat = q
    BY <1>1 DEF IInv, TypeOK
  <2> QED
    BY <1>1, <2>1, <2>2 DEF IInv, TypeOK, registry, delivery
<1>3. PumpsBounded' /\ BuffersFinite'
  BY <1>1 DEF IInv, PumpsBounded, BuffersFinite, delivery
<1>4. PumpsSound'
  BY <1>1 DEF IInv, PumpsSound, delivery
<1>5. OwedSound'
  <2>1. \A o \in owed : o[1] \in Clients /\ o[2] \in Chats
    BY DEF IInv, TypeOK
  <2> QED
    BY <2>1 DEF IInv, OwedSound, delivery
<1>6. OccupantsMissNothing'
  <2> SUFFICES ASSUME NEW d \in Clients, NEW q \in Chats, NEW m \in Messages, <<d, q, m>> \in owed
               PROVE  \/ m \in buffer[d]
                      \/ d \in rooms[q] /\ \E p \in pumps : p.id = subs'[q] /\ m \in p.queue
    BY DEF OccupantsMissNothing, registry, delivery
  <2>1. Settled(d, q)
    BY DEF IInv, OwedSound
  <2>2. d \in UsersOf(q)'
    <3>1. d \in UsersOf(q)
      BY <2>1 DEF UsersOf
    <3>2. q = r => d # c
      BY <2>1
    <3> QED
      BY <3>1, <3>2
  <2>3. subs'[q] = subs[q]
    BY <1>1, <2>2
  <2> QED
    BY <2>3 DEF IInv, OccupantsMissNothing
<1> QED
  BY <1>1, <1>2, <1>3, <1>4, <1>5, <1>6 DEF IInv

LEMMA FinishLeaveIInv ==
  ASSUME IInv, NEW c \in Clients, FinishLeave(c)
  PROVE  IInv'
<1>1. PICK r \in Chats : r = at[c]
  BY DEF IInv, TypeOK
<1>2. /\ pc[c] = "leaving"
      /\ UnsubscribeFromChat(r)
      /\ pc' = [pc EXCEPT ![c] = "open"]
      /\ UNCHANGED <<redisEnabled, at, todo, registry, pumps, delivery>>
  BY <1>1 DEF FinishLeave
<1>3. \A d \in Clients : pc'[d] = IF d = c THEN "open" ELSE pc[d]
  BY <1>2 DEF IInv, TypeOK
<1>4. Places'
  BY <1>2, <1>3 DEF IInv, Places, registry
<1>5. c \notin rooms[r]
  BY <1>1, <1>2 DEF IInv, Places
<1>6. \A q \in Chats, d \in Clients : Settled(d, q)' = Settled(d, q)
  BY <1>2, <1>3 DEF Settled, registry
<1>7. /\ c \in UsersOf(r) /\ ~Settled(c, r)
      /\ UsersOf(r)' = UsersOf(r) \ {c}
      /\ \A q \in Chats \ {r} : UsersOf(q)' = UsersOf(q)
  <2>1. c \in UsersOf(r) /\ ~Settled(c, r)
    BY <1>1, <1>2, <1>5 DEF UsersOf, Settled
  <2>2. ASSUME NEW q \in Chats, NEW d \in Clients
        PROVE  d \in UsersOf(q)' <=> d \in UsersOf(q) /\ (d # c \/ q # r)
    <3>1. CASE d # c
      BY <1>2, <1>3, <1>6, <3>1 DEF UsersOf
    <3>2. CASE d = c
      BY <1>1, <1>2, <1>3, <1>5, <1>6, <3>2 DEF UsersOf, Settled, registry
    <3> QED
      BY <3>1, <3>2
  <2> QED
    BY <2>1, <2>2, UsersAreClients
<1>8. Joining' = Joining
  BY <1>2, <1>3 DEF Joining
<1>9. /\ pc' \in [Clients -> {"new", "open", "joining", "leaving", "closing", "gone"}]
      /\ todo' \in [Clients -> SUBSET Chats]
  BY <1>2 DEF IInv, TypeOK
<1> QED
  BY <1>2, <1>4, <1>6, <1>7, <1>8, <1>9, GivesBack

LEMMA UnsubscribeRoomIInv ==
  ASSUME IInv, NEW c \in Clients, UnsubscribeRoom(c)
  PROVE  IInv'
<1>1. PICK r \in todo[c] :
        /\ UnsubscribeFromChat(r)
        /\ todo' = [todo EXCEPT ![c] = @ \ {r}]
  BY DEF UnsubscribeRoom
<1>2. /\ pc[c] = "closing" /\ r \in Chats
      /\ UNCHANGED <<redisEnabled, pc, at, registry, pumps, delivery>>
  BY DEF UnsubscribeRoom, IInv, TypeOK
<1>3. \A d \in Clients : todo'[d] = IF d = c THEN todo[c] \ {r} ELSE todo[d]
  BY <1>1 DEF IInv, TypeOK
<1>4. Places'
  BY <1>2, <1>3 DEF IInv, Places, registry
<1>5. \A q \in Chats : c \notin rooms[q]
  BY <1>2 DEF IInv, Places
<1>6. \A q \in Chats, d \in Clients : Settled(d, q)' = Settled(d, q)
  BY <1>2 DEF Settled, registry
<1>7. /\ c \in UsersOf(r) /\ ~Settled(c, r)
      /\ UsersOf(r)' = UsersOf(r) \ {c}
      /\ \A q \in Chats \ {r} : UsersOf(q)' = UsersOf(q)
  <2>1. c \in UsersOf(r) /\ ~Settled(c, r)
    BY <1>1, <1>2, <1>5 DEF UsersOf, Settled
  <2>2. ASSUME NEW q \in Chats, NEW d \in Clients
        PROVE  d \in UsersOf(q)' <=> d \in UsersOf(q) /\ (d # c \/ q # r)
    <3>1. CASE d # c
      BY <1>2, <1>3, <1>6, <3>1 DEF UsersOf
    <3>2. CASE d = c
      BY <1>2, <1>3, <1>5, <1>6, <3>2 DEF UsersOf, Settled, registry
    <3> QED
      BY <3>1, <3>2
  <2> QED
    BY <1>2, <2>1, <2>2, UsersAreClients
<1>8. Joining' = Joining
  BY <1>2 DEF Joining
<1>9. /\ pc' \in [Clients -> {"new", "open", "joining", "leaving", "closing", "gone"}]
      /\ todo' \in [Clients -> SUBSET Chats]
  BY <1>1, <1>2 DEF IInv, TypeOK
<1> QED
  BY <1>1, <1>2, <1>4, <1>6, <1>7, <1>8, <1>9, GivesBack

\* The client becomes a user of the subscription, which it makes if there is none.
LEMMA FinishJoinIInv ==
  ASSUME IInv, NEW c \in Clients, FinishJoin(c)
  PROVE  IInv'
<1>1. PICK r \in Chats : r = at[c]
  BY DEF IInv, TypeOK
<1>2. /\ pc[c] = "joining"
      /\ SubscribeToChat(r)
      /\ pc' = [pc EXCEPT ![c] = "open"]
      /\ UNCHANGED <<redisEnabled, at, todo, registry, delivery>>
  BY <1>1 DEF FinishJoin
<1>3. \A d \in Clients : pc'[d] = IF d = c THEN "open" ELSE pc[d]
  BY <1>2 DEF IInv, TypeOK
<1>4. Places'
  BY <1>2, <1>3 DEF IInv, Places, registry
<1>5. c \in rooms[r]
  BY <1>1, <1>2 DEF IInv, Places
<1>6. \A q \in Chats, d \in Clients : d # c \/ q # r => Settled(d, q)' = Settled(d, q)
  BY <1>1, <1>2, <1>3 DEF Settled, registry
<1>7. /\ c \notin UsersOf(r)
      /\ UsersOf(r)' = UsersOf(r) \cup {c}
      /\ \A q \in Chats \ {r} : UsersOf(q)' = UsersOf(q)
  <2>1. ~Settled(c, r) /\ Settled(c, r)'
    BY <1>1, <1>2, <1>3, <1>5 DEF Settled, registry
  <2>2. ASSUME NEW q \in Chats, NEW d \in Clients
        PROVE  d \in UsersOf(q)' <=> d \in UsersOf(q) \/ (d = c /\ q = r)
    <3>1. CASE d # c
      BY <1>2, <1>3, <1>6, <3>1 DEF UsersOf
    <3>2. CASE d = c
      BY <1>1, <1>2, <1>3, <1>6, <2>1, <3>2 DEF UsersOf
    <3> QED
      BY <3>1, <3>2
  <2>3. c \notin UsersOf(r)
    BY <1>2, <2>1 DEF UsersOf
  <2> QED
    BY <2>2, <2>3, UsersAreClients
<1>8. /\ Joining' = Joining \ {c} /\ c \in Joining /\ Joining \in SUBSET Clients
      /\ Cardinality(Joining') = Cardinality(Joining) - 1
      /\ Cardinality(Joining) \in Nat /\ Cardinality(Joining') \in Nat
  <2>1. Joining' = Joining \ {c} /\ c \in Joining /\ Joining \in SUBSET Clients
        /\ Joining' \in SUBSET Clients
    BY <1>2, <1>3 DEF Joining
  <2> QED
    BY <2>1, CountLess, CountIsNat
<1>9. /\ UsersOf(r) \in SUBSET Clients /\ UsersOf(r)' # {}
      /\ Cardinality(UsersOf(r)) \in Nat
      /\ Cardinality(UsersOf(r)) = 0 <=> UsersOf(r) = {}
      /\ Cardinality(UsersOf(r)') = Cardinality(UsersOf(r)) + 1
  BY <1>7, UsersAreClients, CountIsNat, CountMore
<1>10. /\ subs[r] \in 0 .. lastPump /\ lastPump \in Nat /\ cnt[r] \in Nat
       /\ lastPump + Cardinality(Joining) <= MaxPumps /\ MaxPumps \in Nat
  BY SubsFacts, RoomHubAssumption DEF IInv, PumpsBounded
<1>11. /\ cnt[r] = IF redisEnabled THEN Cardinality(UsersOf(r)) ELSE 0
       /\ subs[r] # 0 <=> redisEnabled /\ UsersOf(r) # {}
  BY DEF IInv, CountExact
\* What is owed stays owed, and clients stay where they are.
<1>12. OwedSound'
  <2>1. \A o \in owed : o[1] \in Clients /\ o[2] \in Chats
    BY DEF IInv, TypeOK
  <2>2. Settled(c, r)'
    BY <1>2, <1>3, <1>5 DEF Settled, registry
  <2>3. \A o \in owed : Settled(o[1], o[2])'
    BY <1>6, <2>1, <2>2 DEF IInv, OwedSound
  <2> QED
    BY <1>2, <2>3 DEF IInv, OwedSound, delivery
<1>13. CASE UNCHANGED <<subs, lastPump, closing, pumps>> /\ cnt' \in [Chats -> Nat]
            /\ cnt'[r] = (IF redisEnabled THEN cnt[r] + 1 ELSE 0)
            /\ (redisEnabled => subs[r] # 0)
            /\ (\A q \in Chats \ {r} : cnt'[q] = cnt[q])
  <2>1. TypeOK'
    BY <1>2, <1>13 DEF IInv, TypeOK, registry, delivery
  <2>2. CountExact'
    <3> SUFFICES ASSUME NEW q \in Chats
                 PROVE  /\ cnt'[q] = IF redisEnabled' THEN Cardinality(UsersOf(q)') ELSE 0
                        /\ subs'[q] # 0 <=> redisEnabled' /\ UsersOf(q)' # {}
      BY DEF CountExact
    <3>1. CASE q = r
      BY <1>2, <1>9, <1>11, <1>13, <3>1
    <3>2. CASE q # r
      BY <1>2, <1>7, <1>13, <3>2 DEF IInv, CountExact
    <3> QED
      BY <3>1, <3>2
  <2>3. PumpsBounded' /\ BuffersFinite'
    BY <1>2, <1>8, <1>10, <1>13 DEF IInv, PumpsBounded, BuffersFinite, delivery
  <2>4. PumpsSound'
    BY <1>2, <1>13 DEF IInv, PumpsSound, delivery
  <2>5. OccupantsMissNothing'
    BY <1>2, <1>13 DEF IInv, OccupantsMissNothing, registry, delivery
  <2> QED
    BY <1>4, <1>12, <2>1, <2>2, <2>3, <2>4, <2>5 DEF IInv
<1>14. CASE /\ redisEnabled /\ subs[r] = 0
            /\ lastPump' = lastPump + 1
            /\ subs' = [subs EXCEPT ![r] = lastPump + 1]
            /\ cnt' = [cnt EXCEPT ![r] = 1]
            /\ pumps' = pumps \cup {NewPump(r)}
            /\ UNCHANGED closing
  <2> DEFINE n == lastPump + 1
             new == [id |-> n, chat |-> r, live |-> FALSE, queue |-> {}]
  <2>1. /\ n \in Nat /\ n # 0 /\ n \notin 0 .. lastPump /\ lastPump \in 0 .. n
        /\ 0 .. lastPump \subseteq 0 .. n /\ n \in 0 .. n
    BY <1>10
  <2>2. /\ new.id = n /\ new.chat = r /\ new.queue = {}
        /\ new \in [id : 0 .. n, chat : Chats, live : BOOLEAN, queue : SUBSET Messages]
    BY <2>1
  <2> HIDE DEF n, new
  <2>3. /\ lastPump' = n /\ closing' = closing /\ pumps' = pumps \cup {new}
        /\ \A q \in Chats : subs'[q] = IF q = r THEN n ELSE subs[q]
        /\ \A q \in Chats : cnt'[q] = IF q = r THEN 1 ELSE cnt[q]
        /\ cnt' \in [Chats -> Nat] /\ subs' \in [Chats -> 0 .. n]
    BY <1>14, <2>1 DEF IInv, TypeOK, NewPump, n, new
  <2>4. \A p \in pumps : p.id \in 0 .. lastPump /\ p.id # n
    BY <2>1 DEF IInv, TypeOK
  <2>5. closing \subseteq 0 .. lastPump
    BY <2>4 DEF IInv, TypeOK
  <2>6. TypeOK'
    <3>1. pumps' \subseteq [id : 0 .. n, chat : Chats, live : BOOLEAN, queue : SUBSET Messages]
      BY <2>1, <2>2, <2>3 DEF IInv, TypeOK
    <3>2. closing' \subseteq {p.id : p \in pumps'} \ {0}
      BY <2>3 DEF IInv, TypeOK
    <3>3. \A q \in Chats : subs'[q] # 0 => \E p \in pumps' : p.id = subs'[q] /\ p.chat = q
      BY <2>2, <2>3 DEF IInv, TypeOK
    <3>4. n \in 0 .. MaxPumps
      BY <1>8, <1>10 DEF n
    <3> QED
      BY <1>2, <2>3, <3>1, <3>2, <3>3, <3>4 DEF IInv, TypeOK, registry, delivery
  <2>7. CountExact'
    <3> SUFFICES ASSUME NEW q \in Chats
                 PROVE  /\ cnt'[q] = IF redisEnabled' THEN Cardinality(UsersOf(q)') ELSE 0
                        /\ subs'[q] # 0 <=> redisEnabled' /\ UsersOf(q)' # {}
      BY DEF CountExact
    <3>1. CASE q = r
      BY <1>2, <1>9, <1>11, <1>14, <2>1, <2>3, <3>1
    <3>2. CASE q # r
      BY <1>2, <1>7, <2>3, <3>2 DEF IInv, CountExact
    <3> QED
      BY <3>1, <3>2
  <2>8. PumpsBounded' /\ BuffersFinite'
    BY <1>2, <1>8, <1>10, <1>14 DEF IInv, PumpsBounded, BuffersFinite, delivery
  <2>9. PumpsSound'
    <3>1. /\ \A p \in pumps' : p.id # 0
          /\ \A p, q \in pumps' : p.id = q.id => p = q
      BY <1>14, <2>1, <2>2, <2>3, <2>4 DEF IInv, PumpsSound
    <3>2. \A q \in Chats : subs'[q] \notin closing'
      BY <2>1, <2>3, <2>5 DEF IInv, PumpsSound
    <3> QED
      BY <1>2, <1>14, <3>1, <3>2 DEF PumpsSound
  <2>10. OccupantsMissNothing'
    <3> SUFFICES ASSUME NEW d \in Clients, NEW q \in Chats, NEW m \in Messages, <<d, q, m>> \in owed
                 PROVE  \/ m \in buffer[d]
                        \/ d \in rooms[q] /\ \E p \in pumps' : p.id = subs'[q] /\ m \in p.queue
      BY <1>2 DEF OccupantsMissNothing, registry, delivery
    <3>1. d \in UsersOf(q)
      BY DEF IInv, OwedSound, UsersOf
    <3>2. q # r
      BY <1>11, <1>14, <3>1
    <3> QED
      BY <2>3, <3>2 DEF IInv, OccupantsMissNothing
  <2> QED
    BY <1>4, <1>12, <2>6, <2>7, <2>8, <2>9, <2>10 DEF IInv
<1>15. ASSUME ~redisEnabled /\ UNCHANGED <<redis, pumps>> PROVE IInv'
  <2>1. cnt'[r] = 0 /\ cnt' = cnt /\ cnt \in [Chats -> Nat]
    BY <1>11, <1>15 DEF redis, IInv, TypeOK
  <2> QED
    BY <1>13, <1>15, <2>1 DEF redis
<1>16. ASSUME /\ redisEnabled /\ subs[r] # 0
              /\ cnt' = [cnt EXCEPT ![r] = @ + 1]
              /\ UNCHANGED <<subs, lastPump, closing, pumps>>
       PROVE  IInv'
  <2>1. /\ cnt' \in [Chats -> Nat] /\ cnt'[r] = cnt[r] + 1
        /\ \A q \in Chats \ {r} : cnt'[q] = cnt[q]
    BY <1>10, <1>16 DEF IInv, TypeOK
  <2> QED
    BY <1>13, <1>16, <2>1
<1> QED
  BY <1>2, <1>14, <1>15, <1>16 DEF SubscribeToChat

-----------------------------------------------------------------------------
(* Messages *)

\* A step that moves messages and nothing else: what is to be shown is that the pumps stay
\* those of the subscriptions, and that what is owed is on its way.
LEMMA MessagesMove ==
  ASSUME IInv, UNCHANGED <<redisEnabled, connections, registry, subs, cnt, lastPump>>,
         TypeOK', PumpsSound', OwedSound', OccupantsMissNothing', BuffersFinite'
  PROVE  IInv'
<1>1. \A q \in Chats : UsersOf(q)' = UsersOf(q)
  BY DEF UsersOf, Settled, connections, registry
<1>2. CountExact'
  BY <1>1 DEF IInv, CountExact
<1>3. PumpsBounded' /\ Places'
  BY DEF IInv, PumpsBounded, Places, Joining, connections, registry
<1> QED
  BY <1>2, <1>3 DEF IInv

\* Clients stay settled while messages move.
LEMMA SettledStay ==
  ASSUME UNCHANGED <<connections, registry>>
  PROVE  \A d, q : Settled(d, q)' = Settled(d, q)
BY DEF Settled, connections, registry

LEMMA WriteIInv ==
  ASSUME IInv, NEW c \in Clients, Write(c)
  PROVE  IInv'
<1>1. PICK m \in buffer[c] :
        /\ buffer' = [buffer EXCEPT ![c] = @ \ {m}]
        /\ owed' = {o \in owed : ~(o[1] = c /\ o[3] = m)}
  BY DEF Write
<1>2. UNCHANGED <<redisEnabled, connections, registry, redis, pumps, sent>>
  BY DEF Write
<1>3. \A d \in Clients : buffer'[d] = IF d = c THEN buffer[c] \ {m} ELSE buffer[d]
  BY <1>1 DEF IInv, TypeOK
<1>4. /\ IsFiniteSet(buffer'[c])
      /\ Cardinality(buffer'[c]) <= SendBuffer
  <2>1. /\ IsFiniteSet(buffer[c]) /\ Cardinality(buffer[c]) <= SendBuffer
        /\ Cardinality(buffer[c]) \in Nat /\ SendBuffer \in Nat
    BY FS_CardinalityType, RoomHubAssumption DEF IInv, TypeOK, BuffersFinite
  <2>2. /\ IsFiniteSet(buffer[c] \ {m})
        /\ Cardinality(buffer[c] \ {m}) = Cardinality(buffer[c]) - 1
    BY <2>1, FS_RemoveElement
  <2> QED
    BY <1>3, <2>1, <2>2
<1>5. TypeOK'
  <2>1. \A d \in Clients : Cardinality(buffer'[d]) <= SendBuffer
    BY <1>3, <1>4 DEF IInv, TypeOK
  <2> QED
    BY <1>1, <1>2, <2>1 DEF IInv, TypeOK, connections, registry, redis
<1>6. PumpsSound'
  BY <1>2 DEF IInv, PumpsSound, redis
<1>7. OwedSound'
  BY <1>1, <1>2, SettledStay DEF IInv, OwedSound
<1>8. OccupantsMissNothing'
  <2> SUFFICES ASSUME NEW d \in Clients, NEW q \in Chats, NEW k \in Messages, <<d, q, k>> \in owed'
               PROVE  \/ k \in buffer'[d]
                      \/ d \in rooms[q] /\ \E p \in pumps : p.id = subs[q] /\ k \in p.queue
    BY <1>2 DEF OccupantsMissNothing, registry, redis
  <2>1. <<d, q, k>> \in owed /\ ~(d = c /\ k = m)
    BY <1>1
  <2> QED
    BY <1>3, <2>1 DEF IInv, OccupantsMissNothing
<1>9. BuffersFinite'
  BY <1>3, <1>4 DEF IInv, BuffersFinite
<1> QED
  BY <1>2, <1>5, <1>6, <1>7, <1>8, <1>9, MessagesMove DEF redis

LEMMA PublishIInv ==
  ASSUME IInv, NEW m \in Messages, NEW r \in Chats, Publish(m, r)
  PROVE  IInv'
<1> DEFINE With(p) == IF p.chat = r /\ p.live THEN [p EXCEPT !.queue = @ \cup {m}] ELSE p
<1>1. /\ redisEnabled /\ \A s \in sent : s[1] # m
      /\ sent' = sent \cup {<<m, r>>}
      /\ pumps' = {With(p) : p \in pumps}
      /\ owed' \subseteq owed \cup {<<c, r, m>> : c \in {d \in Clients : Settled(d, r)}}
      /\ Unheard(r) => owed' = owed
      /\ UNCHANGED <<redisEnabled, connections, registry, redis, buffer>>
  BY DEF Publish, Owed
<1>2. \A p \in pumps : p \in [id : 0 .. lastPump, chat : Chats, live : BOOLEAN, queue : SUBSET Messages]
  BY DEF IInv, TypeOK
<1>3. \A p \in pumps :
        /\ With(p) \in [id : 0 .. lastPump, chat : Chats, live : BOOLEAN, queue : SUBSET Messages]
        /\ With(p).id = p.id /\ With(p).chat = p.chat
        /\ p.queue \subseteq With(p).queue
        /\ p.chat = r /\ p.live => m \in With(p).queue
  BY <1>2
<1> HIDE DEF With
<1>4. TypeOK'
  <2>1. pumps' \subseteq [id : 0 .. lastPump', chat : Chats, live : BOOLEAN, queue : SUBSET Messages]
    BY <1>1, <1>3 DEF redis
  <2>2. closing' \subseteq {p.id : p \in pumps'} \ {0}
    BY <1>1, <1>3 DEF IInv, TypeOK, redis
  <2>3. \A q \in Chats : subs'[q] # 0 => \E p \in pumps' : p.id = subs'[q] /\ p.chat = q
    BY <1>1, <1>3 DEF IInv, TypeOK, redis
  <2>4. sent' \subseteq Messages \X Chats /\ owed' \subseteq Clients \X Chats \X Messages
    BY <1>1 DEF IInv, TypeOK
  <2> QED
    BY <1>1, <2>1, <2>2, <2>3, <2>4 DEF IInv, TypeOK, connections, registry, redis
<1>5. PumpsSound'
  <2>1. \A p \in pumps' : p.id # 0
    BY <1>1, <1>3 DEF IInv, PumpsSound
  <2>2. \A p, q \in pumps' : p.id = q.id => p = q
    BY <1>1, <1>3 DEF IInv, PumpsSound
  <2> QED
    BY <1>1, <2>1, <2>2 DEF IInv, PumpsSound, redis
<1>6. OwedSound'
  <2>1. \A o \in owed' : Settled(o[1], o[2]) /\ <<o[3], o[2]>> \in sent'
    <3>1. \A o \in owed : Settled(o[1], o[2]) /\ <<o[3], o[2]>> \in sent'
      BY <1>1 DEF IInv, OwedSound
    <3>2. ASSUME NEW d \in Clients, Settled(d, r), NEW o, o = <<d, r, m>>
          PROVE  Settled(o[1], o[2]) /\ <<o[3], o[2]>> \in sent'
      <4>1. o[1] = d /\ o[2] = r /\ o[3] = m
        BY <3>2
      <4> QED
        BY <1>1, <3>2, <4>1
    <3> QED
      BY <1>1, <3>1, <3>2
  <2>2. \A s, t \in sent' : s[1] = t[1] => s = t
    BY <1>1 DEF IInv, OwedSound
  <2> QED
    BY <1>1, <2>1, <2>2, SettledStay DEF OwedSound
<1>7. OccupantsMissNothing'
  <2> SUFFICES ASSUME NEW d \in Clients, NEW q \in Chats, NEW k \in Messages, <<d, q, k>> \in owed'
               PROVE  \/ k \in buffer[d]
                      \/ d \in rooms[q] /\ \E p \in pumps' : p.id = subs[q] /\ k \in p.queue
    BY <1>1 DEF OccupantsMissNothing, registry, redis
  <2>1. CASE <<d, q, k>> \in owed
    BY <1>1, <1>3, <2>1 DEF IInv, OccupantsMissNothing
  <2>2. CASE q = r /\ k = m /\ Settled(d, r) /\ ~Unheard(r)
    <3>1. d \in UsersOf(r) /\ d \in rooms[r]
      BY <2>2 DEF UsersOf, Settled
    <3>2. subs[r] # 0
      BY <1>1, <3>1 DEF IInv, CountExact
    <3>3. PICK p \in pumps : p.id = subs[r] /\ p.chat = r
      BY <3>2 DEF IInv, TypeOK
    <3>4. p.live
      BY <1>2, <2>2, <3>2, <3>3 DEF Unheard
    <3> QED
      BY <1>1, <1>3, <2>2, <3>1, <3>3, <3>4
  <2> QED
    BY <1>1, <2>1, <2>2
<1>8. BuffersFinite'
  BY <1>1 DEF IInv, BuffersFinite
<1> QED
  BY <1>1, <1>4, <1>5, <1>6, <1>7, <1>8, MessagesMove DEF redis

\* A step that changes one pump and no other: Redis hears of a subscription, or the
\* subscription loses messages that are not owed to anybody any more.
LEMMA PumpChanges ==
  ASSUME IInv, NEW p \in pumps, p.id # 0, NEW q,
         q \in [id : 0 .. lastPump, chat : Chats, live : BOOLEAN, queue : SUBSET Messages],
         q.id = p.id, q.chat = p.chat,
         pumps' = (pumps \ {p}) \cup {q},
         owed' \subseteq owed,
         \A o \in owed' : p.id = subs[o[2]] /\ o[3] \in p.queue => o[3] \in q.queue,
         UNCHANGED <<redisEnabled, connections, registry, redis, sent, buffer>>
  PROVE  IInv'
<1>1. /\ \A t \in pumps : t # p => t \in pumps'
      /\ \A t \in pumps' : t = q \/ (t \in pumps /\ t # p)
      /\ q \in pumps'
  OBVIOUS
<1>2. \A t \in pumps : \E u \in pumps' : u.id = t.id /\ u.chat = t.chat
  BY <1>1
<1>3. TypeOK'
  <2>1. closing' \subseteq {t.id : t \in pumps'} \ {0}
    BY <1>2 DEF IInv, TypeOK, redis
  <2>2. \A r \in Chats : subs'[r] # 0 => \E t \in pumps' : t.id = subs'[r] /\ t.chat = r
    <3> SUFFICES ASSUME NEW r \in Chats, subs[r] # 0
                 PROVE  \E t \in pumps' : t.id = subs[r] /\ t.chat = r
      BY DEF redis
    <3>1. PICK t \in pumps : t.id = subs[r] /\ t.chat = r
      BY DEF IInv, TypeOK
    <3> QED
      BY <1>2, <3>1
  <2>3. pumps' \subseteq [id : 0 .. lastPump', chat : Chats, live : BOOLEAN, queue : SUBSET Messages]
    BY <1>1 DEF IInv, TypeOK, redis
  <2> QED
    BY <2>1, <2>2, <2>3 DEF IInv, TypeOK, connections, registry, redis
<1>4. PumpsSound'
  <2>1. \A t \in pumps' :
          /\ t.id = 0 <=> ~redisEnabled
          /\ t.id = 0 => \E k \in Messages : t.queue = {k} /\ <<k, t.chat>> \in sent
    BY <1>1 DEF IInv, PumpsSound
  <2>2. \A t, u \in pumps' : t.id = u.id /\ t.id # 0 => t = u
    BY <1>1 DEF IInv, PumpsSound
  <2> QED
    BY <2>1, <2>2 DEF IInv, PumpsSound, redis
<1>5. OwedSound'
  BY SettledStay DEF IInv, OwedSound
<1>6. OccupantsMissNothing'
  <2> SUFFICES ASSUME NEW d \in Clients, NEW r \in Chats, NEW k \in Messages,
                      <<d, r, k>> \in owed', k \notin buffer[d]
               PROVE  d \in rooms[r] /\ \E t \in pumps' : t.id = subs[r] /\ k \in t.queue
    BY DEF OccupantsMissNothing, registry, redis
  <2>1. d \in rooms[r]
    BY DEF IInv, OwedSound, Settled
  <2>2. PICK t \in pumps : t.id = subs[r] /\ k \in t.queue
    BY DEF IInv, OccupantsMissNothing
  <2>3. CASE t # p
    BY <1>1, <2>1, <2>2, <2>3
  <2>4. CASE t = p
    <3>1. k \in q.queue /\ q.id = subs[r]
      BY <2>2, <2>4
    <3> QED
      BY <1>1, <2>1, <3>1
  <2> QED
    BY <2>3, <2>4
<1>7. BuffersFinite'
  BY DEF IInv, BuffersFinite
<1> QED
  BY <1>3, <1>4, <1>5, <1>6, <1>7, MessagesMove DEF redis

LEMMA ConfirmIInv ==
  ASSUME IInv, NEW p \in pumps, Confirm(p)
  PROVE  IInv'
<1> DEFINE q == [p EXCEPT !.live = TRUE]
<1>1. /\ p.id # 0 /\ pumps' = (pumps \ {p}) \cup {q}
      /\ UNCHANGED <<redisEnabled, connections, registry, redis, sent, buffer, owed>>
  BY DEF Confirm, delivery
<1>2. p \in [id : 0 .. lastPump, chat : Chats, live : BOOLEAN, queue : SUBSET Messages]
  BY DEF IInv, TypeOK
<1>3. /\ q \in [id : 0 .. lastPump, chat : Chats, live : BOOLEAN, queue : SUBSET Messages]
      /\ q.id = p.id /\ q.chat = p.chat /\ q.queue = p.queue
  BY <1>2
<1> HIDE DEF q
<1> QED
  BY <1>1, <1>3, PumpChanges

\* What is lost is not owed any more, if it was lost on the chat's own subscription.
LEMMA LoseIInv ==
  ASSUME IInv, NEW p \in pumps, NEW lost, Lose(p, lost)
  PROVE  IInv'
<1> DEFINE q == [p EXCEPT !.live = FALSE, !.queue = @ \ lost]
<1>1. /\ p.id # 0 /\ pumps' = (pumps \ {p}) \cup {q}
      /\ owed' = {o \in owed : ~(p.id = subs[p.chat] /\ o[2] = p.chat /\ o[3] \in lost)}
      /\ UNCHANGED <<redisEnabled, connections, registry, redis, sent, buffer>>
  BY DEF Lose
<1>2. p \in [id : 0 .. lastPump, chat : Chats, live : BOOLEAN, queue : SUBSET Messages]
  BY DEF IInv, TypeOK
<1>3. /\ q \in [id : 0 .. lastPump, chat : Chats, live : BOOLEAN, queue : SUBSET Messages]
      /\ q.id = p.id /\ q.chat = p.chat /\ q.queue = p.queue \ lost
  BY <1>2
<1> HIDE DEF q
<1>4. ASSUME NEW o \in owed', p.id = subs[o[2]], o[3] \in p.queue
      PROVE  o[3] \in q.queue
  <2>1. o \in owed /\ o[2] \in Chats
    BY <1>1 DEF IInv, TypeOK
  <2>2. p.chat = o[2]
    BY <1>1, <1>4, <2>1, SubsFacts
  <2> QED
    BY <1>1, <1>3, <1>4, <2>2
<1> QED
  BY <1>1, <1>3, <1>4, PumpChanges

\* Without Redis the handler itself is what the message is on its way in.
LEMMA SendIInv ==
  ASSUME IInv, NEW m \in Messages, NEW r \in Chats, Send(m, r)
  PROVE  IInv'
<1> DEFINE new == Broadcaster(m, r)
<1>1. /\ ~redisEnabled /\ \A s \in sent : s[1] = m => s[2] = r
      /\ sent' = sent \cup {<<m, r>>}
      /\ pumps' = pumps \cup {new}
      /\ owed' = owed \cup {<<c, r, m>> : c \in {d \in Clients : Settled(d, r)}}
      /\ UNCHANGED <<redisEnabled, connections, registry, redis, buffer>>
  BY DEF Send, Owed, HandlerBroadcasts
<1>2. lastPump \in Nat
  BY RoomHubAssumption DEF IInv, TypeOK
<1>3. /\ new \in [id : 0 .. lastPump, chat : Chats, live : BOOLEAN, queue : SUBSET Messages]
      /\ new.id = 0 /\ new.chat = r /\ new.queue = {m}
  BY <1>2 DEF Broadcaster
<1> HIDE DEF new
<1>4. TypeOK'
  <2>1. closing' \subseteq {p.id : p \in pumps'} \ {0}
    BY <1>1 DEF IInv, TypeOK, redis
  <2>2. \A q \in Chats : subs'[q] # 0 => \E p \in pumps' : p.id = subs'[q] /\ p.chat = q
    BY <1>1 DEF IInv, TypeOK, redis
  <2>3. sent' \subseteq Messages \X Chats /\ owed' \subseteq Clients \X Chats \X Messages
    BY <1>1 DEF IInv, TypeOK
  <2> QED
    BY <1>1, <1>3, <2>1, <2>2, <2>3 DEF IInv, TypeOK, connections, registry, redis
<1>5. PumpsSound'
  <2>1. \A p \in pumps' : p.id = 0 /\ \E k \in Messages : p.queue = {k} /\ <<k, p.chat>> \in sent'
    BY <1>1, <1>3 DEF IInv, PumpsSound
  <2> QED
    BY <1>1, <2>1 DEF IInv, PumpsSound, redis
<1>6. OwedSound'
  <2>1. \A o \in owed' : Settled(o[1], o[2]) /\ <<o[3], o[2]>> \in sent'
    <3>1. \A o \in owed : Settled(o[1], o[2]) /\ <<o[3], o[2]>> \in sent'
      BY <1>1 DEF IInv, OwedSound
    <3>2. ASSUME NEW d \in Clients, Settled(d, r), NEW o, o = <<d, r, m>>
          PROVE  Settled(o[1], o[2]) /\ <<o[3], o[2]>> \in sent'
      <4>1. o[1] = d /\ o[2] = r /\ o[3] = m
        BY <3>2
      <4> QED
        BY <1>1, <3>2, <4>1
    <3> QED
      BY <1>1, <3>1, <3>2
  <2>2. \A s, t \in sent' : s[1] = t[1] => s = t
    <3>1. \A t \in sent : t[1] = m => t = <<m, r>>
      BY <1>1 DEF IInv, TypeOK
    <3> QED
      BY <1>1, <3>1 DEF IInv, OwedSound
  <2> QED
    BY <1>1, <2>1, <2>2, SettledStay DEF OwedSound
<1>7. OccupantsMissNothing'
  <2> SUFFICES ASSUME NEW d \in Clients, NEW q \in Chats, NEW k \in Messages, <<d, q, k>> \in owed'
               PROVE  \/ k \in buffer[d]
                      \/ d \in rooms[q] /\ \E p \in pumps' : p.id = subs[q] /\ k \in p.queue
    BY <1>1 DEF OccupantsMissNothing, registry, redis
  <2>1. CASE <<d, q, k>> \in owed
    BY <1>1, <2>1 DEF IInv, OccupantsMissNothing
  <2>2. CASE q = r /\ k = m /\ Settled(d, r)
    <3>1. d \in rooms[r] /\ subs[r] = 0
      BY <1>1, <2>2, SubsFacts DEF Settled
    <3> QED
      BY <1>1, <1>3, <2>2, <3>1
  <2> QED
    BY <1>1, <2>1, <2>2
<1>8. BuffersFinite'
  BY <1>1 DEF IInv, BuffersFinite
<1> QED
  BY <1>1, <1>4, <1>5, <1>6, <1>7, <1>8, MessagesMove DEF redis

LEMMA SendFailsIInv ==
  ASSUME IInv, NEW m \in Messages, NEW r \in Chats, SendFails(m, r)
  PROVE  IInv'
<1>1. /\ \A s \in sent : s[1] # m
      /\ sent' = sent \cup {<<m, r>>}
      /\ UNCHANGED <<redisEnabled, connections, registry, redis, pumps, buffer, owed>>
  BY DEF SendFails
<1>2. TypeOK'
  BY <1>1 DEF IInv, TypeOK, connections, registry, redis
<1>3. PumpsSound'
  BY <1>1 DEF IInv, PumpsSound, redis
<1>4. OwedSound'
  BY <1>1, SettledStay DEF IInv, OwedSound
<1>5. OccupantsMissNothing' /\ BuffersFinite'
  BY <1>1 DEF IInv, OccupantsMissNothing, BuffersFinite, registry, redis
<1> QED
  BY <1>1, <1>2, <1>3, <1>4, <1>5, MessagesMove DEF redis

\* A broadcast puts the message into the buffer of every client of the room, or finds the
\* buffer full.  The pump of another subscription does not have the message in its place.
LEMMA PumpIInv ==
  ASSUME IInv, NEW p \in pumps, NEW m \in p.queue, Pump(p, m)
  PROVE  IInv'
<1> DEFINE rest == [p EXCEPT !.queue = @ \ {m}]
<1>1. /\ pumps' = (pumps \ {p}) \cup IF p.id = 0 THEN {} ELSE {rest}
      /\ buffer' = [c \in Clients |-> IF c \in Reached(p) THEN buffer[c] \cup {m} ELSE buffer[c]]
      /\ owed' = {o \in owed : ~(o[1] \in Full(p.chat) /\ o[2] = p.chat /\ o[3] = m)}
      /\ UNCHANGED <<redisEnabled, connections, registry, redis, sent>>
  BY DEF Pump
<1>2. p \in [id : 0 .. lastPump, chat : Chats, live : BOOLEAN, queue : SUBSET Messages] /\ m \in Messages
  BY DEF IInv, TypeOK
<1>3. /\ rest \in [id : 0 .. lastPump, chat : Chats, live : BOOLEAN, queue : SUBSET Messages]
      /\ rest.id = p.id /\ rest.chat = p.chat /\ rest.queue = p.queue \ {m}
  BY <1>2
<1> HIDE DEF rest
<1>4. /\ \A c \in Clients : buffer[c] \subseteq buffer'[c] /\ buffer'[c] \subseteq buffer[c] \cup {m}
      /\ \A c \in rooms[p.chat] : c \notin Full(p.chat) => m \in buffer'[c]
      /\ \A c \in Clients : c \notin Reached(p) => buffer'[c] = buffer[c]
      /\ \A c \in Clients : c \in Reached(p) => buffer'[c] = buffer[c] \cup {m}
  BY <1>1, <1>2 DEF Reached, IInv, TypeOK
<1>5. \A c \in Clients : IsFiniteSet(buffer'[c]) /\ Cardinality(buffer'[c]) <= SendBuffer
  <2> SUFFICES ASSUME NEW c \in Clients
               PROVE  IsFiniteSet(buffer'[c]) /\ Cardinality(buffer'[c]) <= SendBuffer
    OBVIOUS
  <2>1. /\ IsFiniteSet(buffer[c]) /\ Cardinality(buffer[c]) <= SendBuffer
        /\ Cardinality(buffer[c]) \in Nat /\ SendBuffer \in Nat
    BY FS_CardinalityType, RoomHubAssumption DEF IInv, TypeOK, BuffersFinite
  <2>2. CASE c \notin Reached(p)
    BY <1>4, <2>1, <2>2
  <2>3. CASE c \in Reached(p)
    <3>1. Cardinality(buffer[c]) < SendBuffer
      BY <2>1, <2>3 DEF Reached, Full
    <3>2. /\ IsFiniteSet(buffer[c] \cup {m})
          /\ Cardinality(buffer[c] \cup {m}) \in {Cardinality(buffer[c]), Cardinality(buffer[c]) + 1}
      <4>1. /\ IsFiniteSet(buffer[c] \cup {m})
            /\ Cardinality(buffer[c] \cup {m}) =
                 IF m \in buffer[c] THEN Cardinality(buffer[c]) ELSE Cardinality(buffer[c]) + 1
        BY <2>1, FS_AddElement
      <4> QED
        BY <4>1
    <3>3. Cardinality(buffer[c] \cup {m}) <= SendBuffer
      BY <2>1, <3>1, <3>2
    <3>4. buffer'[c] = buffer[c] \cup {m}
      BY <1>4, <2>3
    <3> QED
      BY <3>2, <3>3, <3>4
  <2> QED
    BY <2>2, <2>3
<1>6. \A q \in pumps : q # p => q \in pumps'
  BY <1>1
<1>7. \A q \in pumps' : (q \in pumps /\ q # p) \/ (q = rest /\ p.id # 0)
  BY <1>1
<1>8. \A q \in pumps : q.id # 0 => \E t \in pumps' : t.id = q.id /\ t.chat = q.chat
  BY <1>1, <1>3
<1>9. TypeOK'
  <2>1. pumps' \subseteq [id : 0 .. lastPump', chat : Chats, live : BOOLEAN, queue : SUBSET Messages]
    BY <1>1, <1>3, <1>7 DEF IInv, TypeOK, redis
  <2>2. closing' \subseteq {q.id : q \in pumps'} \ {0}
    BY <1>1, <1>8 DEF IInv, TypeOK, redis
  <2>3. \A r \in Chats : subs'[r] # 0 => \E q \in pumps' : q.id = subs'[r] /\ q.chat = r
    <3> SUFFICES ASSUME NEW r \in Chats, subs[r] # 0
                 PROVE  \E q \in pumps' : q.id = subs[r] /\ q.chat = r
      BY <1>1 DEF redis
    <3>1. PICK q \in pumps : q.id = subs[r] /\ q.chat = r
      BY DEF IInv, TypeOK
    <3> QED
      BY <1>8, <3>1
  <2>4. buffer' \in [Clients -> SUBSET Messages]
    BY <1>1, <1>2 DEF IInv, TypeOK
  <2> QED
    BY <1>1, <1>5, <2>1, <2>2, <2>3, <2>4 DEF IInv, TypeOK, connections, registry, redis
<1>10. PumpsSound'
  <2>1. \A q \in pumps' :
          /\ q.id = 0 <=> ~redisEnabled
          /\ q.id = 0 => \E k \in Messages : q.queue = {k} /\ <<k, q.chat>> \in sent
    BY <1>3, <1>7 DEF IInv, PumpsSound
  <2>2. \A q, t \in pumps' : q.id = t.id /\ q.id # 0 => q = t
    BY <1>3, <1>7 DEF IInv, PumpsSound
  <2> QED
    BY <1>1, <2>1, <2>2 DEF IInv, PumpsSound, redis
<1>11. OwedSound'
  BY <1>1, SettledStay DEF IInv, OwedSound
<1>12. OccupantsMissNothing'
  <2> SUFFICES ASSUME NEW d \in Clients, NEW r \in Chats, NEW k \in Messages,
                      <<d, r, k>> \in owed', k \notin buffer'[d]
               PROVE  d \in rooms[r] /\ \E q \in pumps' : q.id = subs[r] /\ k \in q.queue
    BY <1>1 DEF OccupantsMissNothing, registry, redis
  <2>1. <<d, r, k>> \in owed /\ k \notin buffer[d]
    BY <1>1, <1>4
  <2>2. d \in rooms[r] /\ <<k, r>> \in sent
    BY <2>1 DEF IInv, OwedSound, Settled
  <2>3. PICK q \in pumps : q.id = subs[r] /\ k \in q.queue
    BY <2>1 DEF IInv, OccupantsMissNothing
  <2>4. CASE q # p
    BY <1>6, <2>2, <2>3, <2>4
  <2>5. CASE q = p /\ k # m
    <3>1. p.id # 0
      <4>1. p.id = 0 => \E x \in Messages : p.queue = {x}
        BY DEF IInv, PumpsSound
      <4> QED
        BY <2>3, <2>5, <4>1
    <3> QED
      BY <1>1, <1>3, <2>2, <2>3, <2>5, <3>1
  <2>6. CASE q = p /\ k = m
    <3>1. p.chat = r
      <4>1. CASE p.id # 0
        BY <2>3, <2>6, <4>1, SubsFacts
      <4>2. CASE p.id = 0
        <5>1. <<m, p.chat>> \in sent
          BY <4>2 DEF IInv, PumpsSound
        <5>2. \A s, t \in sent : s[1] = t[1] => s = t
          BY DEF IInv, OwedSound
        <5> QED
          BY <2>2, <2>6, <5>1, <5>2
      <4> QED
        BY <4>1, <4>2
    <3>2. d \in Full(r)
      BY <1>4, <2>2, <2>6, <3>1
    <3> QED
      BY <1>1, <2>6, <3>1, <3>2
  <2> QED
    BY <2>4, <2>5, <2>6
<1>13. BuffersFinite'
  BY <1>5 DEF BuffersFinite
<1> QED
  BY <1>1, <1>9, <1>10, <1>11, <1>12, <1>13, MessagesMove DEF redis

\* The pump of a subscription that is let go of is nobody's way to a message.
LEMMA ClosePumpIInv ==
  ASSUME IInv, NEW p \in pumps, ClosePump(p)
  PROVE  IInv'
<1>1. /\ p.id \in closing
      /\ pumps' = pumps \ {p}
      /\ closing' = closing \ {p.id}
      /\ UNCHANGED <<redisEnabled, connections, registry, subs, cnt, lastPump, sent, buffer, owed>>
  BY DEF ClosePump, delivery
<1>2. \A r \in Chats : subs[r] # p.id
  BY <1>1 DEF IInv, PumpsSound
<1>3. TypeOK'
  <2>1. closing' \subseteq {q.id : q \in pumps'} \ {0}
    BY <1>1 DEF IInv, TypeOK
  <2>2. \A r \in Chats : subs'[r] # 0 => \E q \in pumps' : q.id = subs'[r] /\ q.chat = r
    <3> SUFFICES ASSUME NEW r \in Chats, subs[r] # 0
                 PROVE  \E q \in pumps' : q.id = subs[r] /\ q.chat = r
      BY <1>1
    <3>1. PICK q \in pumps : q.id = subs[r] /\ q.chat = r
      BY DEF IInv, TypeOK
    <3> QED
      BY <1>1, <1>2, <3>1
  <2> QED
    BY <1>1, <2>1, <2>2 DEF IInv, TypeOK, connections, registry
<1>4. PumpsSound'
  BY <1>1 DEF IInv, PumpsSound
<1>5. OwedSound'
  BY <1>1, SettledStay DEF IInv, OwedSound
<1>6. OccupantsMissNothing'
  BY <1>1, <1>2 DEF IInv, OccupantsMissNothing, registry
<1>7. BuffersFinite'
  BY <1>1 DEF IInv, BuffersFinite
<1> QED
  BY <1>1, <1>3, <1>4, <1>5, <1>6, <1>7, MessagesMove

LEMMA StutterIInv ==
  ASSUME IInv, UNCHANGED vars
  PROVE  IInv'
<1>1. TypeOK'
  BY DEF vars, connections, registry, redis, delivery, IInv, TypeOK
<1>2. PumpsSound' /\ OccupantsMissNothing' /\ BuffersFinite'
  BY DEF vars, registry, redis, delivery, IInv, PumpsSound, OccupantsMissNothing, BuffersFinite
<1>3. OwedSound'
  BY SettledStay DEF vars, delivery, IInv, OwedSound
<1> QED
  BY <1>1, <1>2, <1>3, MessagesMove DEF vars, redis

-----------------------------------------------------------------------------
(* Theorems *)

LEMMA InitIInv == Init => IInv
<1> SUFFICES ASSUME Init PROVE IInv
  OBVIOUS
<1>1. IsFiniteSet({}) /\ Cardinality({}) = 0
  BY FS_EmptySet
<1>2. TypeOK
  BY <1>1, RoomHubAssumption DEF Init, TypeOK
<1>3. \A r \in Chats : UsersOf(r) = {}
  BY DEF Init, UsersOf, Settled
<1>4. Joining = {}
  BY DEF Init, Joining
<1>5. CountExact
  BY <1>1, <1>3 DEF Init, CountExact
<1>6. PumpsBounded /\ BuffersFinite
  BY <1>1, <1>4, RoomHubAssumption DEF Init, PumpsBounded, BuffersFinite
<1>7. OccupantsMissNothing /\ Places /\ PumpsSound /\ OwedSound
  BY DEF Init, OccupantsMissNothing, Places, PumpsSound, OwedSound
<1> QED
  BY <1>2, <1>5, <1>6, <1>7 DEF IInv

LEMMA NextIInv ==
  ASSUME Disciplined
  PROVE  IInv /\ [Next]_vars => IInv'
<1> SUFFICES ASSUME IInv, [Next]_vars PROVE IInv'
  OBVIOUS
<1>1. ASSUME NEW c \in Clients, Handle(c) PROVE IInv'
  BY <1>1, FinishJoinIInv, FinishLeaveIInv, UnsubscribeRoomIInv, FinishUnregisterIInv DEF Handle
<1>2. ASSUME NEW p \in pumps, ClosePump(p) \/ Confirm(p) \/ \E m \in p.queue : Pump(p, m)
      PROVE  IInv'
  BY <1>2, ClosePumpIInv, ConfirmIInv, PumpIInv
<1>3. ASSUME NEW p \in pumps, NEW lost, Lose(p, lost) PROVE IInv'
  BY <1>3, LoseIInv
<1> QED
  BY <1>1, <1>2, <1>3, ConnectIInv, JoinRoomIInv, LeaveRoomIInv, UnregisterIInv, WriteIInv, PublishIInv,
     SendIInv, SendFailsIInv, StutterIInv DEF Next, Rest

\* The inductive invariant holds in every reachable state, if clients join a room once and
\* leave only rooms they are in.
THEOREM Invariance ==
  ASSUME Disciplined
  PROVE  Spec => []IInv
<1>1. IInv /\ [Next]_vars => IInv'
  BY NextIInv
<1> QED
  BY <1>1, InitIInv, PTL DEF Spec

\* Connections, rooms, subscriptions and buffers have their types, and no buffer ever holds
\* more than its capacity.
THEOREM TypeCorrect ==
  ASSUME Disciplined
  PROVE  Spec => []TypeOK
BY Invariance, PTL DEF IInv

\* The count behind each subscription is the number of its users in every state, for any
\* number of connections and chats, if clients join a room once and leave rooms they are in.
THEOREM CountIsExact ==
  ASSUME Disciplined
  PROVE  Spec => []CountExact
BY Invariance, PTL DEF IInv

\* So no client that is in a room and subscribed misses a message because another one
\* leaves, reconnects or closes, with Redis or without: what Redis hands to the chat's
\* subscription stays on its way to the client, however often the connection to Redis is
\* lost and made anew.  What Redis does not hand over is not covered.
THEOREM NothingIsMissed ==
  ASSUME Disciplined
  PROVE  Spec => []OccupantsMissNothing
BY Invariance, PTL DEF IInv

-----------------------------------------------------------------------------
(* Subscriptions, whatever clients join and leave *)

\* The part of the state that decides which subscriptions there are: nothing about how many
\* users they have.
Registered ==
  /\ joined \in [Clients -> SUBSET Chats]
  /\ at \in [Clients -> Chats]
  /\ todo \in [Clients -> SUBSET Chats]
  /\ lastPump \in Nat
  /\ subs \in [Chats -> 0 .. lastPump]
  /\ closing \subseteq 1 .. lastPump
  /\ pumps \subseteq [id : 0 .. lastPump, chat : Chats, live : BOOLEAN, queue : SUBSET Messages]
  /\ \A p, q \in pumps : p.id = q.id /\ p.id # 0 => p = q
  /\ \A r \in Chats : subs[r] # 0 => \E p \in pumps : p.id = subs[r] /\ p.chat = r
  /\ NoPumpIsLeaked

\* Two chats never have the same subscription.
LEMMA SubsDiffer ==
  ASSUME Registered, NEW q \in Chats, NEW r \in Chats, subs[q] = subs[r], subs[r] # 0
  PROVE  q = r
BY DEF Registered

LEMMA SubscribeRegistered ==
  ASSUME Registered, NEW r \in Chats, SubscribeToChat(r), UNCHANGED <<joined, at, todo>>
  PROVE  Registered'
<1>1. CASE UNCHANGED <<subs, lastPump, closing, pumps>>
  BY <1>1 DEF Registered, NoPumpIsLeaked
<1>2. CASE /\ subs[r] = 0
           /\ lastPump' = lastPump + 1
           /\ subs' = [subs EXCEPT ![r] = lastPump + 1]
           /\ pumps' = pumps \cup {NewPump(r)}
           /\ UNCHANGED closing
  <2> DEFINE new == [id |-> lastPump + 1, chat |-> r, live |-> FALSE, queue |-> {}]
  <2>0. pumps' = pumps \cup {new}
    BY <1>2 DEF NewPump
  <2>1. /\ lastPump \in Nat /\ lastPump' \in Nat
        /\ \A p \in pumps : p.id \in 0 .. lastPump /\ p.id # new.id
        /\ \A i \in closing : i # lastPump + 1
    <3>1. /\ lastPump \in Nat
          /\ \A p \in pumps : p.id \in 0 .. lastPump
      BY DEF Registered
    <3>2. closing \subseteq 0 .. lastPump
      BY DEF Registered
    <3> QED
      BY <1>2, <3>1, <3>2
  <2>2. subs' \in [Chats -> 0 .. lastPump']
    BY <1>2, <2>1 DEF Registered
  <2>3. pumps' \subseteq [id : 0 .. lastPump', chat : Chats, live : BOOLEAN, queue : SUBSET Messages]
    <3>1. lastPump' = lastPump + 1 /\ lastPump \in Nat
      BY <1>2, <2>1
    <3>2. lastPump + 1 \in 0 .. lastPump' /\ 0 .. lastPump \subseteq 0 .. lastPump'
      BY <3>1
    <3>3. new \in [id : 0 .. lastPump', chat : Chats, live : BOOLEAN, queue : SUBSET Messages]
      BY <3>2
    <3>4. pumps \subseteq [id : 0 .. lastPump, chat : Chats, live : BOOLEAN, queue : SUBSET Messages]
      BY DEF Registered
    <3>5. pumps \subseteq [id : 0 .. lastPump', chat : Chats, live : BOOLEAN, queue : SUBSET Messages]
      BY <3>2, <3>4
    <3> QED
      BY <2>0, <3>3, <3>5
  <2>4. \A p, q \in pumps' : p.id = q.id /\ p.id # 0 => p = q
    BY <2>0, <2>1 DEF Registered
  <2>5. /\ subs'[r] = lastPump + 1
        /\ \A q \in Chats \ {r} : subs'[q] = subs[q]
    BY <1>2 DEF Registered
  <2>6. ASSUME NEW q \in Chats, subs'[q] # 0
        PROVE  \E p \in pumps' : p.id = subs'[q] /\ p.chat = q
    <3>1. CASE q = r
      <4>1. new \in pumps' /\ new.id = subs'[q] /\ new.chat = q
        BY <2>0, <2>5, <3>1
      <4> QED
        BY <4>1
    <3>2. CASE q # r
      BY <2>0, <1>2, <2>5, <2>6, <3>2 DEF Registered
    <3> QED
      BY <3>1, <3>2
  <2>7. NoPumpIsLeaked'
    BY <2>0, <1>2, <2>1, <2>5 DEF Registered, NoPumpIsLeaked
  <2> QED
    BY <1>2, <2>1, <2>2, <2>3, <2>4, <2>6, <2>7 DEF Registered
<1> QED
  BY <1>1, <1>2 DEF SubscribeToChat, redis

LEMMA UnsubscribeRegistered ==
  ASSUME Registered, NEW r \in Chats, UnsubscribeFromChat(r),
         joined' \in [Clients -> SUBSET Chats], at' = at, todo' \in [Clients -> SUBSET Chats],
         pumps' = pumps
  PROVE  Registered'
<1>1. CASE UNCHANGED <<subs, lastPump, closing>>
  BY <1>1 DEF Registered, NoPumpIsLeaked
<1>2. CASE /\ subs[r] # 0
           /\ subs' = [subs EXCEPT ![r] = 0]
           /\ closing' = closing \cup {subs[r]}
           /\ UNCHANGED lastPump
  <2>1. /\ subs' \in [Chats -> 0 .. lastPump]
        /\ subs'[r] = 0 /\ \A q \in Chats \ {r} : subs'[q] = subs[q]
    BY <1>2 DEF Registered
  <2>2. closing' \subseteq 1 .. lastPump /\ 0 \notin closing'
    <3>1. lastPump \in Nat /\ subs[r] \in 0 .. lastPump /\ closing \subseteq 1 .. lastPump
      BY DEF Registered
    <3>2. subs[r] \in 1 .. lastPump
      BY <1>2, <3>1
    <3>3. closing' \subseteq 1 .. lastPump
      BY <1>2, <3>1, <3>2
    <3>4. 0 \notin 1 .. lastPump
      OBVIOUS
    <3> QED
      BY <3>3, <3>4
  <2>3. \A q \in Chats : subs'[q] \notin closing'
    BY <1>2, <2>1, <2>2, SubsDiffer DEF Registered, NoPumpIsLeaked
  <2>4. \A p \in pumps : p.id # 0 => subs'[p.chat] = p.id \/ p.id \in closing'
    BY <1>2, <2>1 DEF Registered, NoPumpIsLeaked
  <2>5. \A q \in Chats : subs'[q] # 0 => \E p \in pumps : p.id = subs'[q] /\ p.chat = q
    BY <2>1 DEF Registered
  <2> QED
    BY <1>2, <2>1, <2>2, <2>3, <2>4, <2>5 DEF Registered, NoPumpIsLeaked
<1> QED
  BY <1>1, <1>2 DEF UnsubscribeFromChat, redis

\* Messages come and go in the channels of the subscriptions.
LEMMA QueuesRegistered ==
  ASSUME Registered,
         UNCHANGED <<joined, at, todo, lastPump, subs, closing>>,
         pumps' \subseteq [id : 0 .. lastPump, chat : Chats, live : BOOLEAN, queue : SUBSET Messages],
         \A p \in pumps' : p.id # 0 =>
           /\ \E o \in pumps : o.id = p.id /\ o.chat = p.chat
           /\ \A q \in pumps' : q.id = p.id => q = p,
         \A o \in pumps : o.id # 0 => \E p \in pumps' : p.id = o.id /\ p.chat = o.chat
  PROVE  Registered'
<1>1. NoPumpIsLeaked'
  BY DEF Registered, NoPumpIsLeaked
<1>2. \A r \in Chats : subs[r] # 0 => \E p \in pumps' : p.id = subs[r] /\ p.chat = r
  BY DEF Registered
<1> QED
  BY <1>1, <1>2 DEF Registered

LEMMA PublishRegistered ==
  ASSUME Registered, NEW m \in Messages, NEW r \in Chats, Publish(m, r)
  PROVE  Registered'
<1> DEFINE After(p) == IF p.chat = r /\ p.live THEN [p EXCEPT !.queue = @ \cup {m}] ELSE p
<1>1. /\ pumps' = {After(p) : p \in pumps}
      /\ UNCHANGED <<joined, at, todo, lastPump, subs, closing>>
  BY DEF Publish, connections, registry, redis
<1>2. \A p \in pumps : /\ After(p) \in [id : 0 .. lastPump, chat : Chats, live : BOOLEAN, queue : SUBSET Messages]
                       /\ After(p).id = p.id /\ After(p).chat = p.chat
  BY DEF Registered
<1>3. \A p, q \in pumps : p.id = q.id /\ p.id # 0 => p = q
  BY DEF Registered
<1> HIDE DEF After
<1> QED
  BY <1>1, <1>2, <1>3, QueuesRegistered

LEMMA SendRegistered ==
  ASSUME Registered, NEW m \in Messages, NEW r \in Chats, Send(m, r)
  PROVE  Registered'
<1>1. /\ pumps' = pumps \cup {[id |-> 0, chat |-> r, live |-> TRUE, queue |-> {m}]}
      /\ UNCHANGED <<joined, at, todo, lastPump, subs, closing>>
  BY DEF Send, HandlerBroadcasts, Broadcaster, connections, registry, redis
<1>2. /\ lastPump \in Nat
      /\ pumps \subseteq [id : 0 .. lastPump, chat : Chats, live : BOOLEAN, queue : SUBSET Messages]
  BY DEF Registered
<1>3. \A p, q \in pumps : p.id = q.id /\ p.id # 0 => p = q
  BY DEF Registered
<1>4. pumps' \subseteq [id : 0 .. lastPump, chat : Chats, live : BOOLEAN, queue : SUBSET Messages]
  <2>1. 0 \in 0 .. lastPump
    BY <1>2
  <2>2. [id |-> 0, chat |-> r, live |-> TRUE, queue |-> {m}]
          \in [id : 0 .. lastPump, chat : Chats, live : BOOLEAN, queue : SUBSET Messages]
    BY <2>1
  <2> QED
    BY <1>1, <1>2, <2>2
<1> QED
  BY <1>1, <1>3, <1>4, QueuesRegistered

\* One pump changes, and keeps its subscription.
LEMMA ChangeRegistered ==
  ASSUME Registered, NEW p \in pumps, NEW q,
         q \in [id : 0 .. lastPump, chat : Chats, live : BOOLEAN, queue : SUBSET Messages],
         q.id = p.id, q.chat = p.chat, p.id # 0,
         pumps' = (pumps \ {p}) \cup {q},
         UNCHANGED <<joined, at, todo, lastPump, subs, closing>>
  PROVE  Registered'
<1>1. /\ \A t, u \in pumps : t.id = u.id /\ t.id # 0 => t = u
      /\ pumps' \subseteq [id : 0 .. lastPump, chat : Chats, live : BOOLEAN, queue : SUBSET Messages]
  BY DEF Registered
<1> QED
  BY <1>1, QueuesRegistered

LEMMA ConfirmRegistered ==
  ASSUME Registered, NEW p \in pumps, Confirm(p)
  PROVE  Registered'
<1>1. /\ p.id # 0 /\ pumps' = (pumps \ {p}) \cup {[p EXCEPT !.live = TRUE]}
      /\ UNCHANGED <<joined, at, todo, lastPump, subs, closing>>
  BY DEF Confirm, connections, registry, redis
<1>2. p \in [id : 0 .. lastPump, chat : Chats, live : BOOLEAN, queue : SUBSET Messages]
  BY DEF Registered
<1> QED
  BY <1>1, <1>2, ChangeRegistered

LEMMA LoseRegistered ==
  ASSUME Registered, NEW p \in pumps, NEW lost, Lose(p, lost)
  PROVE  Registered'
<1>1. /\ p.id # 0
      /\ pumps' = (pumps \ {p}) \cup {[p EXCEPT !.live = FALSE, !.queue = @ \ lost]}
      /\ UNCHANGED <<joined, at, todo, lastPump, subs, closing>>
  BY DEF Lose, connections, registry, redis
<1>2. p \in [id : 0 .. lastPump, chat : Chats, live : BOOLEAN, queue : SUBSET Messages]
  BY DEF Registered
<1> QED
  BY <1>1, <1>2, ChangeRegistered

LEMMA PumpRegistered ==
  ASSUME Registered, NEW p \in pumps, NEW m \in p.queue, Pump(p, m)
  PROVE  Registered'
<1> DEFINE rest == [p EXCEPT !.queue = @ \ {m}]
<1>1. /\ pumps' = (pumps \ {p}) \cup (IF p.id = 0 THEN {} ELSE {rest})
      /\ UNCHANGED <<joined, at, todo, lastPump, subs, closing>>
  BY DEF Pump, connections, registry, redis
<1>2. /\ rest \in [id : 0 .. lastPump, chat : Chats, live : BOOLEAN, queue : SUBSET Messages]
      /\ rest.id = p.id /\ rest.chat = p.chat
  BY DEF Registered
<1>3. /\ \A o, q \in pumps : o.id = q.id /\ o.id # 0 => o = q
      /\ pumps \subseteq [id : 0 .. lastPump, chat : Chats, live : BOOLEAN, queue : SUBSET Messages]
  BY DEF Registered
<1> HIDE DEF rest
<1>4. pumps' \subseteq [id : 0 .. lastPump, chat : Chats, live : BOOLEAN, queue : SUBSET Messages]
  BY <1>1, <1>2, <1>3
<1> QED
  BY <1>1, <1>2, <1>3, <1>4, QueuesRegistered

\* Only the pump of a subscription that is let go of ends.
LEMMA ClosePumpRegistered ==
  ASSUME Registered, NEW p \in pumps, ClosePump(p)
  PROVE  Registered'
<1>1. /\ p.id \in closing /\ pumps' = pumps \ {p} /\ closing' = closing \ {p.id}
      /\ UNCHANGED <<joined, at, todo, lastPump, subs>>
  BY DEF ClosePump, connections, registry
<1>2. \A r \in Chats : subs[r] # p.id
  BY <1>1 DEF Registered, NoPumpIsLeaked
<1>3. \A q \in pumps' : q.id # p.id
  BY <1>1 DEF Registered
<1>4. \A r \in Chats : subs[r] # 0 => \E q \in pumps' : q.id = subs[r] /\ q.chat = r
  BY <1>1, <1>2 DEF Registered
<1>5. NoPumpIsLeaked'
  BY <1>1, <1>3 DEF Registered, NoPumpIsLeaked
<1> QED
  BY <1>1, <1>4, <1>5 DEF Registered

LEMMA NextRegistered == Registered /\ [Next]_vars => Registered'
<1> SUFFICES ASSUME Registered, [Next]_vars PROVE Registered'
  OBVIOUS
<1>1. /\ joined \in [Clients -> SUBSET Chats] /\ at \in [Clients -> Chats]
      /\ todo \in [Clients -> SUBSET Chats]
  BY DEF Registered
<1>2. ASSUME joined' \in [Clients -> SUBSET Chats], at' \in [Clients -> Chats],
             todo' \in [Clients -> SUBSET Chats], UNCHANGED <<lastPump, subs, closing, pumps>>
      PROVE  Registered'
  BY <1>2 DEF Registered, NoPumpIsLeaked
<1>3. ASSUME NEW c \in Clients, NEW r \in Chats, JoinRoom(c, r) \/ LeaveRoom(c, r)
      PROVE  Registered'
  BY <1>1, <1>2, <1>3 DEF JoinRoom, LeaveRoom, redis
<1>4. ASSUME NEW c \in Clients, Connect(c) \/ Unregister(c) \/ FinishUnregister(c) \/ Write(c)
      PROVE  Registered'
  BY <1>1, <1>2, <1>4 DEF Connect, Unregister, RoomsOf, FinishUnregister, Write, connections,
                          registry, redis
<1>5. ASSUME NEW c \in Clients, FinishJoin(c) PROVE Registered'
  BY <1>1, <1>5, SubscribeRegistered DEF FinishJoin, registry
<1>6. ASSUME NEW c \in Clients, FinishLeave(c) PROVE Registered'
  BY <1>1, <1>6, UnsubscribeRegistered DEF FinishLeave, registry
<1>7. ASSUME NEW c \in Clients, UnsubscribeRoom(c) PROVE Registered'
  <2>1. PICK r \in todo[c] : UnsubscribeFromChat(r) /\ todo' = [todo EXCEPT ![c] = @ \ {r}]
    BY <1>7 DEF UnsubscribeRoom
  <2>2. r \in Chats /\ todo' \in [Clients -> SUBSET Chats]
    BY <1>1, <2>1
  <2> QED
    BY <1>1, <1>7, <2>1, <2>2, UnsubscribeRegistered DEF UnsubscribeRoom, registry
<1>8. ASSUME NEW m \in Messages, NEW r \in Chats, SendFails(m, r) PROVE Registered'
  BY <1>1, <1>2, <1>8 DEF SendFails, connections, registry, redis
<1>9. CASE UNCHANGED vars
  BY <1>1, <1>2, <1>9 DEF vars, connections, registry, redis
<1> QED
  BY <1>3, <1>4, <1>5, <1>6, <1>7, <1>8, <1>9, PublishRegistered, SendRegistered, PumpRegistered,
     ClosePumpRegistered, ConfirmRegistered, LoseRegistered DEF Next, Handle, Rest

\* A miscounted subscription is closed too early, or too late, but it is never lost track
\* of: for any clients, disciplined or not, no subscription and no redisPump is leaked.
THEOREM NoSubscriptionIsLeaked == Spec => []NoPumpIsLeaked
<1>1. Init => Registered
  <2>1. (CHOOSE r \in Chats : TRUE) \in Chats
    BY RoomHubAssumption
  <2> QED
    BY <2>1 DEF Init, Registered, NoPumpIsLeaked
<1>2. Registered => NoPumpIsLeaked
  BY DEF Registered
<1> QED
  BY <1>1, <1>2, NextRegistered, PTL DEF Spec

=============================================================================
