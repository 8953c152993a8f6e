------------------------------ MODULE RoomHub ------------------------------
(***************************************************************************)
(* The rooms of one server instance and the Redis subscriptions behind     *)
(* them (ws/hub.go), or, when Redis is not configured, the broadcasts that *)
(* the handlers of send-message make themselves.                           *)
(*                                                                         *)
(* Every connection has one goroutine, readPump, that takes the client's   *)
(* events one after the other.  join-room, leave-room and unregister each  *)
(* lock h.mu more than once: they change the room in one critical section  *)
(* and count the subscription in another, and the goroutines of the other  *)
(* connections and of the subscriptions run in between.                    *)
(*                                                                         *)
(* Redis hands a publication to the subscriptions it has processed by then *)
(* and to no other, once: Subscribe does not wait for that, and go-redis   *)
(* subscribes anew by itself whenever it has lost its connection.          *)
(***************************************************************************)
EXTENDS Naturals, FiniteSets

CONSTANTS
  Clients,      \* connections, each made once
  Chats,        \* chat ids
  Members,      \* <<client, chat>>: the client's user is in chat_members of the chat
  Messages,     \* what is published on the chats' channels
  SendBuffer,   \* capacity of Client.send
  MaxPumps,     \* bound on the number of subscriptions: joins that could exceed it are cut
  Disciplined   \* clients join a room they are not in, and leave only rooms they are in

ASSUME RoomHubAssumption ==
  /\ IsFiniteSet(Clients)
  /\ Chats # {}
  /\ Members \subseteq Clients \X Chats
  /\ SendBuffer \in Nat \ {0}
  /\ MaxPumps \in Nat
  /\ Disciplined \in BOOLEAN

VARIABLES
  redisEnabled,  \* RedisEnabled(): set once, when the process starts
  pc,        \* where each connection's readPump is
  at,        \* the chat whose join or leave is under way
  todo,      \* rooms that unregister still has to unsubscribe from
  rooms,     \* Hub.rooms: the clients in each chat's room
  joined,    \* Client.rooms: the chats each client has joined
  subs,      \* Hub.redisSubs: each chat's subscription, 0 for none
  cnt,       \* Hub.redisSubCnt
  lastPump,  \* subscriptions made so far
  pumps,     \* redisPump goroutines: subscription id, chat, whether Redis has processed its
             \* SUBSCRIBE, and what waits in its channel;
             \* id 0 is a handler that is about to broadcast the message it has stored
  closing,   \* subscriptions whose asynchronous Close has not happened yet
  sent,      \* <<message, chat>>: stored, and with Redis published, so far
  buffer,    \* Client.send
  owed       \* <<client, chat, message>>: handed by Redis to the chat's subscription, or
             \* without Redis answered to its sender, after the client joined the chat, and
             \* neither written to it yet nor lost on the subscription nor dropped because
             \* its buffer was full

connections == <<pc, at, todo>>
registry == <<rooms, joined>>
redis == <<subs, cnt, lastPump, closing>>
delivery == <<sent, buffer, owed>>
vars == <<redisEnabled, connections, registry, redis, pumps, delivery>>

\* Connections, rooms, subscriptions and buffers hold what their Go types allow, and a
\* registered subscription always has its pump.
TypeOK ==
  /\ redisEnabled \in BOOLEAN
  /\ pc \in [Clients -> {"new", "open", "joining", "leaving", "closing", "gone"}]
  /\ at \in [Clients -> Chats]
  /\ todo \in [Clients -> SUBSET Chats]
  /\ rooms \in [Chats -> SUBSET Clients]
  /\ joined \in [Clients -> SUBSET Chats]
  /\ subs \in [Chats -> 0 .. lastPump]
  /\ cnt \in [Chats -> Nat]
  /\ lastPump \in 0 .. MaxPumps
  /\ pumps \subseteq [id : 0 .. lastPump, chat : Chats, live : BOOLEAN, queue : SUBSET Messages]
  /\ closing \subseteq {p.id : p \in pumps} \ {0}
  /\ sent \subseteq Messages \X Chats
  /\ buffer \in [Clients -> SUBSET Messages]
  /\ \A c \in Clients : Cardinality(buffer[c]) <= SendBuffer
  /\ owed \subseteq Clients \X Chats \X Messages
  /\ \A r \in Chats : subs[r] # 0 => \E p \in pumps : p.id = subs[r] /\ p.chat = r

Init ==
  /\ redisEnabled \in BOOLEAN
  /\ pc = [c \in Clients |-> "new"]
  /\ at = [c \in Clients |-> CHOOSE r \in Chats : TRUE]
  /\ todo = [c \in Clients |-> {}]
  /\ rooms = [r \in Chats |-> {}]
  /\ joined = [c \in Clients |-> {}]
  /\ subs = [r \in Chats |-> 0]
  /\ cnt = [r \in Chats |-> 0]
  /\ lastPump = 0
  /\ pumps = {}
  /\ closing = {}
  /\ sent = {}
  /\ buffer = [c \in Clients |-> {}]
  /\ owed = {}

-----------------------------------------------------------------------------
(* Subscriptions, each operator one critical section of h.mu *)

\* The subscription that Subscribe makes: Redis has not heard of it yet.
NewPump(r) == [id |-> lastPump + 1, chat |-> r, live |-> FALSE, queue |-> {}]

SubscribeAgain(r) ==  \* mutant: subscribes without looking for a registered subscription
  /\ lastPump' = lastPump + 1
  /\ subs' = [subs EXCEPT ![r] = lastPump + 1]
  /\ cnt' = [cnt EXCEPT ![r] = @ + 1]
  /\ pumps' = pumps \cup {NewPump(r)}
  /\ UNCHANGED closing

\* subscribeToChat: counts one more user of the subscription, or makes it and starts its
\* pump, and waits for no answer of Redis.  Without Redis it does nothing.
SubscribeToChat(r) ==
  \/ ~redisEnabled /\ UNCHANGED <<redis, pumps>>
  \/ /\ redisEnabled /\ subs[r] # 0
     /\ cnt' = [cnt EXCEPT ![r] = @ + 1]
     /\ UNCHANGED <<subs, lastPump, closing, pumps>>
  \/ /\ redisEnabled /\ subs[r] = 0
     /\ lastPump' = lastPump + 1
     /\ subs' = [subs EXCEPT ![r] = lastPump + 1]
     /\ cnt' = [cnt EXCEPT ![r] = 1]
     /\ pumps' = pumps \cup {NewPump(r)}
     /\ UNCHANGED closing

CloseForAll(r) ==  \* mutant: whoever unsubscribes closes the subscription
  \/ subs[r] = 0 /\ UNCHANGED redis
  \/ /\ subs[r] # 0
     /\ subs' = [subs EXCEPT ![r] = 0]
     /\ cnt' = [cnt EXCEPT ![r] = 0]
     /\ closing' = closing \cup {subs[r]}
     /\ UNCHANGED lastPump

ForgetDelete(r) ==  \* mutant: the closed subscription stays in redisSubs
  /\ cnt' = [cnt EXCEPT ![r] = IF @ > 0 THEN @ - 1 ELSE 0]
  /\ closing' = IF cnt[r] = 1 THEN closing \cup {subs[r]} ELSE closing
  /\ UNCHANGED <<subs, lastPump>>

\* unsubscribeFromChat: counts one user less, and lets go of the subscription with the
\* last one.  Without a subscription there is nothing to do.
UnsubscribeFromChat(r) ==
  \/ subs[r] = 0 /\ UNCHANGED redis
  \/ /\ subs[r] # 0
     /\ cnt[r] > 1
     /\ cnt' = [cnt EXCEPT ![r] = @ - 1]
     /\ UNCHANGED <<subs, lastPump, closing>>
  \/ /\ subs[r] # 0
     /\ cnt[r] <= 1
     /\ subs' = [subs EXCEPT ![r] = 0]
     /\ cnt' = [cnt EXCEPT ![r] = 0]
     /\ closing' = closing \cup {subs[r]}
     /\ UNCHANGED lastPump

-----------------------------------------------------------------------------
(* The events of a connection *)

\* HandleWS registers the client and starts its pumps.
Connect(c) ==
  /\ pc[c] = "new"
  /\ pc' = [pc EXCEPT ![c] = "open"]
  /\ UNCHANGED <<redisEnabled, at, todo, registry, redis, pumps, delivery>>

\* join-room by a member of the chat: the client is put into the room.  Anyone else is
\* answered with an error and changes nothing.
JoinRoom(c, r) ==
  /\ pc[c] = "open"
  /\ <<c, r>> \in Members
  /\ Disciplined => r \notin joined[c]
  /\ lastPump + Cardinality({d \in Clients : pc[d] = "joining"}) < MaxPumps
  /\ rooms' = [rooms EXCEPT ![r] = @ \cup {c}]
  /\ joined' = [joined EXCEPT ![c] = @ \cup {r}]
  /\ pc' = [pc EXCEPT ![c] = "joining"]
  /\ at' = [at EXCEPT ![c] = r]
  /\ UNCHANGED <<redisEnabled, todo, redis, pumps, delivery>>

\* ... and then subscribed.
FinishJoin(c) ==
  /\ pc[c] = "joining"
  /\ SubscribeToChat(at[c])
  /\ pc' = [pc EXCEPT ![c] = "open"]
  /\ UNCHANGED <<redisEnabled, at, todo, registry, delivery>>

\* leave-room, of a room the client may not even be in: it is taken out of the room.
LeaveRoom(c, r) ==
  /\ pc[c] = "open"
  /\ Disciplined => r \in joined[c]
  /\ rooms' = [rooms EXCEPT ![r] = @ \ {c}]
  /\ joined' = [joined EXCEPT ![c] = @ \ {r}]
  /\ pc' = [pc EXCEPT ![c] = "leaving"]
  /\ at' = [at EXCEPT ![c] = r]
  /\ owed' = {o \in owed : o[1] # c \/ o[2] # r}
  /\ UNCHANGED <<redisEnabled, todo, redis, pumps, sent, buffer>>

\* ... and then unsubscribed.
FinishLeave(c) ==
  /\ pc[c] = "leaving"
  /\ UnsubscribeFromChat(at[c])
  /\ pc' = [pc EXCEPT ![c] = "open"]
  /\ UNCHANGED <<redisEnabled, at, todo, registry, pumps, delivery>>

NoRooms(c) == {}  \* mutant: unregister unsubscribes from nothing

\* The rooms unregister unsubscribes from, one by one, after it has left them all.
RoomsOf(c) == joined[c]

\* The connection breaks: unregister takes the client out of every room it has joined.
Unregister(c) ==
  /\ pc[c] = "open"
  /\ rooms' = [r \in Chats |-> IF r \in joined[c] THEN rooms[r] \ {c} ELSE rooms[r]]
  /\ todo' = [todo EXCEPT ![c] = RoomsOf(c)]
  /\ pc' = [pc EXCEPT ![c] = "closing"]
  /\ owed' = {o \in owed : o[1] # c}
  /\ UNCHANGED <<redisEnabled, at, joined, redis, pumps, sent, buffer>>

UnsubscribeRoom(c) ==
  /\ pc[c] = "closing"
  /\ \E r \in todo[c] :
       /\ UnsubscribeFromChat(r)
       /\ todo' = [todo EXCEPT ![c] = @ \ {r}]
  /\ UNCHANGED <<redisEnabled, pc, at, registry, pumps, delivery>>

\* The client is gone, with what it held.
FinishUnregister(c) ==
  /\ pc[c] = "closing"
  /\ todo[c] = {}
  /\ pc' = [pc EXCEPT ![c] = "gone"]
  /\ joined' = [joined EXCEPT ![c] = {}]
  /\ buffer' = [buffer EXCEPT ![c] = {}]
  /\ UNCHANGED <<redisEnabled, at, todo, rooms, redis, pumps, sent, owed>>

-----------------------------------------------------------------------------
(* Messages *)

\* Client c has joined chat r and is subscribed to it.
Settled(c, r) ==
  /\ c \in rooms[r]
  /\ ~(pc[c] = "joining" /\ at[c] = r)

\* What the occupants of r have a right to once m is published, or answered to its sender.
Owed(m, r) == owed \cup {<<c, r, m>> : c \in {d \in Clients : Settled(d, r)}}

\* The hub has a subscription to r, but Redis does not know of it: not yet, or not any more.
Unheard(r) == \E p \in pumps : p.id # 0 /\ p.id = subs[r] /\ ~p.live

\* The outbox worker of some instance publishes m on the channel of chat r: every
\* subscription to r that Redis knows of receives it, a closing one too.  To the others, and
\* to the clients behind them, it is lost.
Publish(m, r) ==
  /\ redisEnabled
  /\ \A s \in sent : s[1] # m
  /\ sent' = sent \cup {<<m, r>>}
  /\ pumps' = {IF p.chat = r /\ p.live THEN [p EXCEPT !.queue = @ \cup {m}] ELSE p : p \in pumps}
  /\ owed' = IF Unheard(r) THEN owed ELSE Owed(m, r)
  /\ UNCHANGED <<redisEnabled, connections, registry, redis, buffer>>

\* Redis processes the SUBSCRIBE, the first one or that of a connection made anew.
Confirm(p) ==
  /\ p.id # 0
  /\ ~p.live
  /\ pumps' = (pumps \ {p}) \cup {[p EXCEPT !.live = TRUE]}
  /\ UNCHANGED <<redisEnabled, connections, registry, redis, delivery>>

\* The connection behind a subscription breaks, with some of what was on its way to
\* redisPump; together with Confirm also go-redis that gives up on its full channel.
Lose(p, lost) ==
  /\ p.id # 0
  /\ lost \subseteq p.queue
  /\ p.live \/ lost # {}
  /\ pumps' = (pumps \ {p}) \cup {[p EXCEPT !.live = FALSE, !.queue = @ \ lost]}
  /\ owed' = {o \in owed : ~(p.id = subs[p.chat] /\ o[2] = p.chat /\ o[3] \in lost)}
  /\ UNCHANGED <<redisEnabled, connections, registry, redis, sent, buffer>>

Broadcaster(m, r) == [id |-> 0, chat |-> r, live |-> TRUE, queue |-> {m}]

\* The handler broadcasts what SendMessage returned, whether it is new or not.
HandlerBroadcasts(m, r) == {Broadcaster(m, r)}

\* Without Redis, a request to send m to chat r, the first one or a retry with the same
\* key: m is stored, and the handler is to broadcast it.
Send(m, r) ==
  /\ ~redisEnabled
  /\ \A s \in sent : s[1] = m => s[2] = r
  /\ sent' = sent \cup {<<m, r>>}
  /\ pumps' = pumps \cup HandlerBroadcasts(m, r)
  /\ owed' = Owed(m, r)
  /\ UNCHANGED <<redisEnabled, connections, registry, redis, buffer>>

\* m is stored, but its commit is reported as failed: the sender gets an error and nothing
\* is broadcast.
SendFails(m, r) ==
  /\ ~redisEnabled
  /\ \A s \in sent : s[1] # m
  /\ sent' = sent \cup {<<m, r>>}
  /\ UNCHANGED <<redisEnabled, connections, registry, redis, pumps, buffer, owed>>

\* Clients of the room whose buffer has no space: the select falls to its default.
Full(r) == {c \in rooms[r] : Cardinality(buffer[c]) >= SendBuffer}

NoOneElse(p) ==  \* mutant: the first client with a full buffer ends the loop over the room
  IF Full(p.chat) = {} THEN rooms[p.chat] ELSE {}

\* The clients that broadcastToRoom puts a message into the buffer of.
Reached(p) == rooms[p.chat] \ Full(p.chat)

\* redisPump takes a message from its subscription and broadcasts it to the room.  A
\* handler does so once.
Pump(p, m) ==
  /\ m \in p.queue
  /\ pumps' = (pumps \ {p}) \cup
       IF p.id = 0 THEN {} ELSE {[p EXCEPT !.queue = @ \ {m}]}
  /\ buffer' = [c \in Clients |-> IF c \in Reached(p) THEN buffer[c] \cup {m} ELSE buffer[c]]
  /\ owed' = {o \in owed : ~(o[1] \in Full(p.chat) /\ o[2] = p.chat /\ o[3] = m)}
  /\ UNCHANGED <<redisEnabled, connections, registry, redis, sent>>

\* The asynchronous Close: the subscription ends, and its pump with what it still held.
ClosePump(p) ==
  /\ p.id \in closing
  /\ pumps' = pumps \ {p}
  /\ closing' = closing \ {p.id}
  /\ UNCHANGED <<redisEnabled, connections, registry, subs, cnt, lastPump, delivery>>

\* writePump sends what the buffer holds.
Write(c) ==
  /\ pc[c] # "gone"
  /\ \E m \in buffer[c] :
       /\ buffer' = [buffer EXCEPT ![c] = @ \ {m}]
       /\ owed' = {o \in owed : ~(o[1] = c /\ o[3] = m)}
  /\ UNCHANGED <<redisEnabled, connections, registry, redis, pumps, sent>>

\* What the goroutine of connection c does once an event is being handled.
Handle(c) ==
  \/ FinishJoin(c)
  \/ FinishLeave(c)
  \/ UnsubscribeRoom(c)
  \/ FinishUnregister(c)

\* Everyone has left and everything is closed and written.
Rest ==
  /\ \A c \in Clients : pc[c] = "gone"
  /\ UNCHANGED vars

Next ==
  \/ \E c \in Clients :
       \/ Connect(c)
       \/ \E r \in Chats : JoinRoom(c, r) \/ LeaveRoom(c, r)
       \/ Unregister(c)
       \/ Handle(c)
       \/ Write(c)
  \/ \E m \in Messages, r \in Chats : Publish(m, r) \/ Send(m, r) \/ SendFails(m, r)
  \/ \E p \in pumps :
       \/ ClosePump(p)
       \/ Confirm(p)
       \/ \E lost \in SUBSET p.queue : Lose(p, lost)
       \/ \E m \in p.queue : Pump(p, m)
  \/ Rest

Spec == Init /\ [][Next]_vars

\* The scheduler runs some goroutine that handles an event, and some Close, as long as
\* there are any: less than it does, since it runs each of them.
FairSpec ==
  /\ Spec
  /\ WF_vars(\E c \in Clients : Handle(c))
  /\ WF_vars(\E p \in pumps : ClosePump(p))

-----------------------------------------------------------------------------
(* Properties *)

\* Clients that count as users of the subscription to r: they have joined and
\* subscribed, or have left and not unsubscribed yet.
UsersOf(r) == {c \in Clients :
  \/ Settled(c, r)
  \/ pc[c] = "leaving" /\ at[c] = r
  \/ pc[c] = "closing" /\ r \in todo[c]}

\* The reference count behind a subscription is exact in every state, however joins,
\* leaves and disconnects interleave, and the subscription exists as long as it is used.
CountExact ==
  \A r \in Chats :
    /\ cnt[r] = IF redisEnabled THEN Cardinality(UsersOf(r)) ELSE 0
    /\ subs[r] # 0 <=> redisEnabled /\ UsersOf(r) # {}

\* No occupant of a room misses a message by what the hub does.  After a client has joined
\* and subscribed, a publication on the chat's channel that reaches the subscription the hub
\* has, or that finds the hub without one, is owed to it; without Redis, what is answered
\* to its sender, at the first attempt or at a retry.  Until it is written to the client,
\* dropped because its buffer is full, or lost with the connection to Redis, it is in the
\* client's buffer or on its way there: through the chat's current subscription, or in a
\* handler that broadcasts.  Redis itself promises at most one delivery: what is published
\* before it has processed SUBSCRIBE, or while go-redis reconnects, is owed to nobody.
OccupantsMissNothing ==
  \A c \in Clients, r \in Chats, m \in Messages : <<c, r, m>> \in owed =>
    \/ m \in buffer[c]
    \/ c \in rooms[r] /\ \E p \in pumps : p.id = subs[r] /\ m \in p.queue

\* No subscription is leaked and none is closed while it is registered, whatever clients join
\* and leave: the pump of every subscription is its chat's registered one or about to be
\* closed, and never both.
NoPumpIsLeaked ==
  /\ \A p \in pumps : p.id # 0 => subs[p.chat] = p.id \/ p.id \in closing
  /\ \A r \in Chats : subs[r] \notin closing

\* Once every connection is broken, every subscription is let go of, and its pump ends.
UnusedIsClosed ==
  (\A c \in Clients : pc[c] \in {"closing", "gone"}) ~>
    ((\A r \in Chats : subs[r] = 0) /\ \A p \in pumps : p.id = 0)

\* docs/message-send-flow.md:31-32, "client ne join-room kiya hai -> instance subscribed":
\* the instance is subscribed to every chat that a client of it has joined.
SubscribedWhileOccupied ==
  redisEnabled => \A c \in Clients, r \in Chats : Settled(c, r) => subs[r] # 0

=============================================================================
