------------------------------ MODULE Backend ------------------------------
(***************************************************************************)
(* The way of a message through the whole server: SendMessage stores it,   *)
(* the workers of all instances publish its event to Redis, and the hub of *)
(* one instance hands what Redis brings it to the sockets in the chat.     *)
(*                                                                         *)
(* The three components share the outbox table, and Redis: the PUBLISH of  *)
(* a worker is one step with its arrival at the subscriptions of the hub   *)
(* that Redis has processed.  Between Redis and the hub a copy is promised *)
(* at most once, so some may never be heard of.                            *)
(* Every step of a component is an action of its own module; the others'   *)
(* variables stay as they are.  The instance of the hub keeps running.     *)
(***************************************************************************)
EXTENDS SendMessage

CONSTANTS
  Workers, MaxAttempts, BatchSize, MaxFaults,  \* OutboxWorker
  Clients, SendBuffer, MaxPumps,               \* RoomHub
  UserOf                                       \* the user of each connection

VARIABLES
  published, workerPc, claimed, faults,        \* OutboxWorker, but for its tables
  redisEnabled, clientPc, at, todo, rooms, joined, subs, cnt, lastPump, pumps,
  closing, sent, buffer, owed,                 \* RoomHub
  due,      \* <<client, chat, event>>: the event was committed while the client was in the
            \* room of its chat and subscribed to it, and the client has been there since
  written,  \* <<client, copy>>: written to the client's socket
  dropped,  \* <<client, copy>>: dropped because the client's buffer was full
  unheard   \* copies that the hub's subscription never got, Redis not having processed its
            \* SUBSCRIBE, or that were lost with its connection

senderVars == <<chats, members, messages, lastSeq, lastEvent, call, calls, replies>>
workerVars == <<published, workerPc, claimed, faults>>
hubVars == <<redisEnabled, clientPc, at, todo, rooms, joined, subs, cnt, lastPump, pumps,
             closing, sent, buffer, owed>>
systemVars == <<vars, workerVars, hubVars, due, written, dropped, unheard>>

Events == 1 .. MaxCalls

\* What Redis carries: the n-th publication of event e is <<e, n>>.
Copies == Events \X Nat

Working == INSTANCE OutboxWorker WITH
  Messages <- 1 .. MaxCalls, stored <- DOMAIN messages, pc <- workerPc

\* IsMember, as far as the chat is not deleted: JoinsRoom asks for that.
Entitled == {x \in Clients \X Chats : <<x[2], UserOf[x[1]]>> \in Membership}

\* Clients join rooms they are not in and leave only rooms they are in.
Hub == INSTANCE RoomHub WITH
  Messages <- Copies, Members <- Entitled, Disciplined <- TRUE,
  pc <- clientPc

\* What the components take of the constants.
BackendAssumption ==
  /\ IsFiniteSet(Workers) /\ IsFiniteSet(Clients)
  /\ Chats # {}
  /\ MaxAttempts \in Nat \ {0}
  /\ BatchSize \in Nat \ {0}
  /\ SendBuffer \in Nat \ {0}
  /\ {MaxFaults, MaxPumps} \subseteq Nat
  /\ UserOf \in [Clients -> Users]

SystemInit ==
  /\ Init
  /\ Working!Init
  /\ Hub!Init /\ redisEnabled
  /\ due = {} /\ written = {} /\ dropped = {} /\ unheard = {}

-----------------------------------------------------------------------------
(* Steps *)

\* A handler's next statement, or the deletion of a chat.
Sends == Next /\ UNCHANGED <<workerVars, hubVars, written, dropped, unheard>>

\* A step of a worker that publishes nothing, or the end of a backoff.
Works ==
  /\ UNCHANGED <<senderVars, hubVars, written, dropped, unheard>>
  /\ \/ \E w \in Workers : Working!Work(w) \/ Working!FaultOf(w)
     \/ \E e \in Events : Working!BackoffElapses(e)
  /\ published' = published

\* Redis accepts event e and hands it to the hub's subscriptions to its chat.
Publishes(e) ==
  /\ UNCHANGED <<senderVars, written, dropped>>
  /\ \E w \in Workers : Working!Publish(w) \/ Working!PublishUnacknowledged(w)
  /\ published'[e] > published[e]
  /\ Hub!Publish(<<e, published'[e]>>, outbox[e].chat)
  /\ unheard' = IF Hub!Unheard(outbox[e].chat)
                THEN unheard \cup {<<e, published'[e]>>} ELSE unheard

\* A connection begins, goes on with an event, or breaks; or a subscription ends, or Redis
\* processes it.
Handles ==
  /\ \/ \E c \in Clients :
          \/ Hub!Connect(c) \/ Hub!Unregister(c) \/ Hub!Handle(c)
          \/ \E r \in Chats : Hub!LeaveRoom(c, r)
     \/ \E p \in pumps : Hub!ClosePump(p) \/ Hub!Confirm(p)
  /\ UNCHANGED <<vars, workerVars, written, dropped, unheard>>

\* join-room, by a user who is a member of the chat at this moment.
Joins(c, r) ==
  /\ <<r, UserOf[c]>> \in members
  /\ Hub!JoinRoom(c, r)
  /\ UNCHANGED <<vars, workerVars, written, dropped, unheard>>

\* The connection of a subscription breaks, and loses some of what it carried.
Loses(p, lost) ==
  /\ Hub!Lose(p, lost)
  /\ unheard' = IF p.id = subs[p.chat] THEN unheard \cup lost ELSE unheard
  /\ UNCHANGED <<vars, workerVars, written, dropped>>

\* redisPump broadcasts m: to those whose buffer is full it is lost.
Pumps(p, m) ==
  /\ Hub!Pump(p, m)
  /\ dropped' = dropped \cup (Hub!Full(p.chat) \X {m})
  /\ UNCHANGED <<vars, workerVars, written, unheard>>

\* writePump writes a message to the socket.
Writes(c) ==
  /\ Hub!Write(c)
  /\ written' = written \cup ({c} \X (buffer[c] \ buffer'[c]))
  /\ UNCHANGED <<vars, workerVars, dropped, unheard>>

\* What is due to the clients that stay subscribed, and to those that are so when an event
\* is committed.
StillDue == {d \in due : Hub!Settled(d[1], d[2])'}

NewlyDue == {d \in Clients \X Chats \X (DOMAIN outbox' \ DOMAIN outbox) :
               outbox'[d[3]].chat = d[2] /\ Hub!Settled(d[1], d[2])}

SystemNext ==
  /\ \/ Sends
     \/ Works
     \/ \E e \in Events : Publishes(e)
     \/ Handles
     \/ \E c \in Clients, r \in Chats : Joins(c, r)
     \/ \E p \in pumps : \E lost \in SUBSET p.queue : Loses(p, lost)
     \/ \E p \in pumps : \E m \in p.queue : Pumps(p, m)
     \/ \E c \in Clients : Writes(c)
  /\ due' = StillDue \cup NewlyDue

SystemSpec == SystemInit /\ [][SystemNext]_systemVars

-----------------------------------------------------------------------------
(* Properties *)

\* What Redis is about to be given is new to the hub, which therefore holds up no worker.
EveryPublicationIsNew ==
  redisEnabled /\ \A e \in Events, s \in sent : s[1] # <<e, published[e] + 1>>

\* The n-th publication of event e has got to client c of chat r: written to its socket, in
\* its buffer, or on its way there through the chat's current subscription.  Or it never
\* will, and what became of it is known: dropped because the buffer was full, or published
\* while Redis did not know of the subscription, or lost with its connection.
Reaches(e, n, c, r) ==
  \/ <<c, <<e, n>>>> \in written \cup dropped
  \/ <<e, n>> \in unheard
  \/ <<e, n>> \in buffer[c]
  \/ c \in rooms[r] /\ \E p \in pumps : p.id = subs[r] /\ <<e, n>> \in p.queue

\* What the server promises a sender.  As long as its chat exists, a message that was
\* answered still waits to be published, or has been given up after MaxAttempts failures,
\* or was published.  Then Redis has got it at least once, and passes every copy on at most
\* once: to a client that was in the room when the message was committed and has stayed, a
\* copy gets, unless it was lost in one of two places, between Redis and the hub's
\* subscription, or at the client's full buffer.
AnsweredReachesOccupants ==
  \A a \in replies : a.chat \in chats =>
    \E e \in DOMAIN outbox :
      /\ outbox[e].msg = a.seq
      /\ \/ outbox[e].status = "pending"
         \/ outbox[e].status = "failed" /\ faults >= MaxAttempts
         \/ /\ outbox[e].status = "published" /\ published[e] > 0
            /\ \A c \in Clients : <<c, a.chat, e>> \in due =>
                 \A n \in 1 .. published[e] : Reaches(e, n, c, a.chat)

\* outbox.go:51, "Once attempts reach maxAttempts the event is marked failed".
ExhaustedMarkedFailed == Working!ExhaustedMarkedFailed

=============================================================================
