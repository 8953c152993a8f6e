----------------------------- MODULE Connection -----------------------------
(***************************************************************************)
(* The two pumps of every WebSocket connection, their send buffer, and the *)
(* hub's lock that they share with everybody who broadcasts (ws/hub.go).   *)
(*                                                                         *)
(* readPump handles the client's events and answers them into the buffer,  *)
(* waiting for space; writePump writes the buffer to the socket and pings  *)
(* it.  Broadcasts put into the buffers of all clients while they hold     *)
(* h.mu for reading, and never wait for space.  h.mu is a sync.RWMutex:    *)
(* once somebody has asked for the write lock, nobody gets a new read      *)
(* lock.                                                                   *)
(*                                                                         *)
(* Rooms, subscriptions and user ids are left to RoomHub and Presence:     *)
(* here everybody shares one room, and what an answer says does not        *)
(* matter.                                                                 *)
(***************************************************************************)
EXTENDS Naturals, Sequences

CONSTANTS
  Clients,     \* connections, each made once
  Others,      \* goroutines that only broadcast: redisPump, request handlers
  None,        \* nobody
  SendBuffer,  \* capacity of Client.send
  MaxAsks,     \* bound on the events of each connection that are answered
  MaxCasts     \* bound on the other events, and on what the others broadcast

ASSUME ConnectionAssumption ==
  /\ Clients \cap Others = {}
  /\ None \notin Clients
  /\ SendBuffer \in Nat \ {0}
  /\ MaxAsks \in [Clients -> Nat]
  /\ MaxCasts \in Nat

VARIABLES
  pc,       \* where each readPump (and each other goroutine) is
  todo,     \* clients that a broadcast under way has still to put its message to
  pending,  \* who has asked for the write lock
  clients,  \* Hub.clients
  asks,     \* events that are answered, read so far
  buffer,   \* Client.send: the number of an answer, 0 for a broadcast
  writer,   \* where each writePump is
  frame,    \* what it is writing, 0 also for nothing or a ping
  conn,     \* the connection: up, dead (the peer is gone), closed (by this side)
  owed,     \* answers, by number, that the peer has neither received nor lost with the
            \* connection
  casts     \* other events, and broadcasts of the others, so far

hub == <<pc, todo, pending, clients>>
pump == <<writer, frame, conn>>
vars == <<hub, asks, buffer, pump, owed, casts>>

Goroutines == Clients \cup Others

\* Waiting for the write lock, for a read lock, or holding a read lock.
WantLock == {"entering", "registering", "leaving"}
WantRLock == {"asking", "locking"}
AtLock == WantLock \cup WantRLock \cup {"broadcasting"}

Phase == AtLock \cup {"reading", "answering", "closing", "done"}

Frame(c) == 0 .. MaxAsks[c]

\* The goroutines, the lock, the buffers and the connections hold what their Go types
\* allow, no buffer exceeds its capacity, and who waits for the write lock has asked for
\* it as one of those who use it.
TypeOK ==
  /\ pc \in [Goroutines -> Phase]
  /\ todo \in [Goroutines -> SUBSET Clients]
  /\ pending \in Clients \cup {None}
  /\ pending # None => pc[pending] \in WantLock
  /\ clients \subseteq Clients
  /\ writer \in [Clients -> {"off", "waiting", "writing", "ended"}]
  /\ conn \in [Clients -> {"up", "dead", "closed"}]
  /\ asks \in [Clients -> Nat]
  /\ frame \in [Clients -> Nat]
  /\ buffer \in [Clients -> Seq(Nat)]
  /\ owed \in [Clients -> SUBSET Nat]
  /\ \A c \in Clients :
       /\ asks[c] \in Frame(c)
       /\ frame[c] \in Frame(c)
       /\ buffer[c] \in Seq(Frame(c))
       /\ Len(buffer[c]) <= SendBuffer
       /\ owed[c] \subseteq Frame(c) \ {0}
  /\ casts \in 0 .. MaxCasts

Init ==
  /\ pc = [g \in Goroutines |-> IF g \in Clients THEN "entering" ELSE "reading"]
  /\ todo = [g \in Goroutines |-> {}]
  /\ pending = None
  /\ clients = {}
  /\ asks = [c \in Clients |-> 0]
  /\ buffer = [c \in Clients |-> <<>>]
  /\ writer = [c \in Clients |-> "off"]
  /\ frame = [c \in Clients |-> 0]
  /\ conn = [c \in Clients |-> "up"]
  /\ owed = [c \in Clients |-> {}]
  /\ casts = 0

Goto(g, p) == pc' = [pc EXCEPT ![g] = p]

Full(c) == Len(buffer[c]) >= SendBuffer

-----------------------------------------------------------------------------
(* h.mu *)

\* Lock: asks for the write lock, which from now on nobody overtakes.
AskLock(c) ==
  /\ pc[c] \in WantLock
  /\ pending = None
  /\ pending' = c
  /\ UNCHANGED <<pc, todo, clients, asks, buffer, pump, owed, casts>>

NeverUnlocked(c) ==  \* mutant: an Unlock is forgotten
  /\ pending = c
  /\ \A g \in Goroutines : pc[g] # "broadcasting"
  /\ UNCHANGED pending

\* Lock returns once every holder of a read lock has given it back.  What is done under
\* the lock, up to Unlock, is one step.
Locked(c) ==
  /\ pending = c
  /\ \A g \in Goroutines : pc[g] # "broadcasting"
  /\ pending' = None

\* RLock returns unless somebody has asked for the write lock.
RLocked == pending = None

-----------------------------------------------------------------------------
(* Broadcasts *)

\* broadcastPresence and broadcastToRoom go through the clients, without the one whose
\* event it is, under the read lock.
Broadcast(g) ==
  /\ pc[g] = "locking"
  /\ RLocked
  /\ todo' = [todo EXCEPT ![g] = clients \ {g}]
  /\ Goto(g, "broadcasting")
  /\ UNCHANGED <<pending, clients, asks, buffer, pump, owed, casts>>

WaitForSpace(d) ==  \* mutant: the send has no default
  ~Full(d) /\ buffer' = [buffer EXCEPT ![d] = Append(@, 0)]

\* A send with a default: a client whose buffer is full goes without the message.
Offer(d) ==
  buffer' = IF Full(d) THEN buffer ELSE [buffer EXCEPT ![d] = Append(@, 0)]

\* The next client of a broadcast.
OfferNext(g) ==
  /\ pc[g] = "broadcasting"
  /\ \E d \in todo[g] :
       /\ Offer(d)
       /\ todo' = [todo EXCEPT ![g] = @ \ {d}]
  /\ UNCHANGED <<pc, pending, clients, asks, pump, owed, casts>>

\* RUnlock: a goroutine that is no longer in the hub has told that its user is offline.
FinishBroadcast(g) ==
  /\ pc[g] = "broadcasting"
  /\ todo[g] = {}
  /\ Goto(g, IF g \in Clients \ clients THEN "closing" ELSE "reading")
  /\ UNCHANGED <<todo, pending, clients, asks, buffer, pump, owed, casts>>

\* redisPump has a message, or, without Redis, a request handler has stored one.
Cast(g) ==
  /\ pc[g] = "reading"
  /\ casts < MaxCasts
  /\ casts' = casts + 1
  /\ Goto(g, "locking")
  /\ UNCHANGED <<todo, pending, clients, asks, buffer, pump, owed>>

-----------------------------------------------------------------------------
(* readPump *)

\* HandleWS enters the client of an upgraded connection into the hub and starts its pumps.
Enter(c) ==
  /\ pc[c] = "entering"
  /\ Locked(c)
  /\ clients' = clients \cup {c}
  /\ Goto(c, "reading")
  /\ writer' = [writer EXCEPT ![c] = "waiting"]
  /\ UNCHANGED <<todo, asks, buffer, frame, conn, owed, casts>>

\* An event that is answered: get-peer-id and call-user look into the hub first, a resync
\* or an error is answered at once.  What had been received before the connection broke
\* can still be read.
Ask(c) ==
  /\ pc[c] = "reading"
  /\ asks[c] < MaxAsks[c]
  /\ asks' = [asks EXCEPT ![c] = @ + 1]
  /\ owed' = [owed EXCEPT ![c] = @ \cup {asks[c] + 1}]
  /\ Goto(c, "asking") \/ Goto(c, "answering")
  /\ UNCHANGED <<todo, pending, clients, buffer, pump, casts>>

\* An event that is not: typing, or a message to broadcast; register-user.
Tell(c) ==
  /\ pc[c] = "reading"
  /\ casts < MaxCasts
  /\ casts' = casts + 1
  /\ Goto(c, "locking") \/ Goto(c, "registering")
  /\ UNCHANGED <<todo, pending, clients, asks, buffer, pump, owed>>

\* The map is looked at between RLock and RUnlock.
Look(c) ==
  /\ pc[c] = "asking"
  /\ RLocked
  /\ Goto(c, "answering")
  /\ UNCHANGED <<todo, pending, clients, asks, buffer, pump, owed, casts>>

\* register-user tells the client, under the lock, of the others who are online, and the
\* others of its user if this is its first socket.
Register(c) ==
  /\ pc[c] = "registering"
  /\ Locked(c)
  /\ IF clients = {c} THEN UNCHANGED buffer ELSE Offer(c)
  /\ Goto(c, "locking") \/ Goto(c, "reading")
  /\ UNCHANGED <<todo, clients, asks, pump, owed, casts>>

DropWhenFull(c) ==  \* mutant: the answer is sent with a default
  /\ buffer' = IF Full(c) THEN buffer ELSE [buffer EXCEPT ![c] = Append(@, asks[c])]

\* c.send <- resp waits for space.
SendAnswer(c) ==
  /\ ~Full(c)
  /\ buffer' = [buffer EXCEPT ![c] = Append(@, asks[c])]

Answer(c) ==
  /\ pc[c] = "answering"
  /\ SendAnswer(c)
  /\ Goto(c, "reading")
  /\ UNCHANGED <<todo, pending, clients, asks, pump, owed, casts>>

ReadOn(c) == Goto(c, "reading")  \* mutant: the loop continues after an error

BreakLoop(c) == Goto(c, "leaving")

\* ReadMessage fails: the peer's pong is more than 60 s late, the connection is closed or
\* reset, or a frame is broken or too large.
ReadFails(c) ==
  /\ pc[c] = "reading"
  /\ BreakLoop(c)
  /\ UNCHANGED <<todo, pending, clients, asks, buffer, pump, owed, casts>>

\* unregister takes the client out of the hub, and tells the others that its user is
\* offline if it has no other socket.
Leave(c) ==
  /\ pc[c] = "leaving"
  /\ Locked(c)
  /\ clients' = clients \ {c}
  /\ Goto(c, "locking") \/ Goto(c, "closing")
  /\ UNCHANGED <<todo, asks, buffer, pump, owed, casts>>

LeaveOpen(c) == UNCHANGED <<conn, owed>>  \* mutant: no Close in the deferred function

\* Answers that the peer has not received are lost with the connection.
CloseConn(c) ==
  /\ conn' = [conn EXCEPT ![c] = "closed"]
  /\ owed' = [owed EXCEPT ![c] = {}]

\* The reader closes the connection last.
Close(c) ==
  /\ pc[c] = "closing"
  /\ CloseConn(c)
  /\ Goto(c, "done")
  /\ UNCHANGED <<todo, pending, clients, asks, buffer, writer, frame, casts>>

-----------------------------------------------------------------------------
(* writePump and the peer *)

\* The writer takes the oldest frame of the buffer.
Take(c) ==
  /\ writer[c] = "waiting"
  /\ buffer[c] # <<>>
  /\ frame' = [frame EXCEPT ![c] = Head(buffer[c])]
  /\ buffer' = [buffer EXCEPT ![c] = Tail(@)]
  /\ writer' = [writer EXCEPT ![c] = "writing"]
  /\ UNCHANGED <<hub, asks, conn, owed, casts>>

\* WriteMessage succeeds.  The peer receives the frame, if it is still there: what is
\* written to a connection that has just broken is lost in the network.
Write(c) ==
  /\ writer[c] = "writing"
  /\ conn[c] # "closed"
  /\ writer' = [writer EXCEPT ![c] = "waiting"]
  /\ frame' = [frame EXCEPT ![c] = 0]
  /\ owed' = [owed EXCEPT ![c] = @ \ {frame[c]}]
  /\ UNCHANGED <<hub, asks, buffer, conn, casts>>

\* WriteMessage fails for a frame or a ping: the connection is gone, or its peer does not
\* read for 10 s.  The writer ends and closes the connection.  Nothing else ends it:
\* nobody closes Client.send.
WriteFails(c) ==
  /\ writer[c] \in {"waiting", "writing"}
  /\ writer' = [writer EXCEPT ![c] = "ended"]
  /\ frame' = [frame EXCEPT ![c] = 0]
  /\ CloseConn(c)
  /\ UNCHANGED <<hub, asks, buffer, casts>>

\* The peer goes away, or the network between.
PeerGone(c) ==
  /\ conn[c] = "up"
  /\ conn' = [conn EXCEPT ![c] = "dead"]
  /\ owed' = [owed EXCEPT ![c] = {}]
  /\ UNCHANGED <<hub, asks, buffer, writer, frame, casts>>

-----------------------------------------------------------------------------

\* What a goroutine does next, once it has begun something.
RunBroadcast(g) ==
  \/ Broadcast(g)
  \/ OfferNext(g)
  \/ FinishBroadcast(g)

RunReader(c) ==
  \/ AskLock(c)
  \/ Enter(c)
  \/ Register(c)
  \/ Look(c)
  \/ Answer(c)
  \/ Leave(c)
  \/ Close(c)
  \/ RunBroadcast(c)

RunWriter(c) ==
  \/ Take(c)
  \/ Write(c)
  \/ writer[c] = "writing" /\ WriteFails(c)

\* The reader is blocked for good: it waits for space in a buffer that nobody empties.
Stuck(c) == pc[c] = "answering" /\ Full(c) /\ writer[c] = "ended"

\* Every connection has ended, or is stuck.
Rest ==
  /\ \A c \in Clients : pc[c] = "done" \/ Stuck(c)
  /\ UNCHANGED vars

Next ==
  \/ \E g \in Others : Cast(g) \/ RunBroadcast(g)
  \/ \E c \in Clients :
       \/ Ask(c)
       \/ Tell(c)
       \/ RunReader(c)
       \/ ReadFails(c)
       \/ RunWriter(c)
       \/ WriteFails(c)
       \/ PeerGone(c)
  \/ Rest

Spec == Init /\ [][Next]_vars

\* The scheduler runs every goroutine.  A write ends within its deadline of 10 s, and a
\* connection that is not up fails its reader (the read deadline of 60 s) and its writer
\* (the ping every 30 s).
FairSpec ==
  /\ Spec
  /\ \A g \in Others : WF_vars(RunBroadcast(g))
  /\ \A c \in Clients :
       /\ WF_vars(RunReader(c) \/ (conn[c] # "up" /\ ReadFails(c)))
       /\ WF_vars(RunWriter(c) \/ (conn[c] # "up" /\ WriteFails(c)))

-----------------------------------------------------------------------------
(* Properties *)

\* What is on its way to the peer of c, the oldest first: the frame being written, those in
\* the buffer, and the answer that the reader waits to put there.
InFlight(c) ==
  LET writing == IF writer[c] = "writing" THEN <<frame[c]>> ELSE <<>>
      waiting == IF pc[c] \in {"asking", "answering"} THEN <<asks[c]>> ELSE <<>>
  IN writing \o buffer[c] \o waiting

\* A full buffer costs a client broadcasts, but never an answer: as long as its connection
\* is up, every event that is answered has its answer received or on its way, and the
\* answers are on their way once each and in the order of the events.
AnswersInOrder ==
  \A c \in Clients : conn[c] = "up" =>
    /\ owed[c] = {InFlight(c)[i] : i \in DOMAIN InFlight(c)} \ {0}
    /\ \A i, j \in DOMAIN InFlight(c) :
         i < j /\ InFlight(c)[j] # 0 => InFlight(c)[i] < InFlight(c)[j]

\* No client, however slow, dead or stuck, keeps anybody from the lock of the hub: who
\* waits for it gets it, and who holds it gives it back.
LockIsGranted == \A g \in Goroutines : pc[g] \in AtLock ~> pc[g] \notin AtLock

\* When the reader has ended, the writer ends too, although nobody closes Client.send.
WriterEnds == \A c \in Clients : pc[c] = "done" ~> writer[c] = "ended"

\* A connection that breaks is cleaned up, unless its reader has been caught waiting for
\* space when the writer ended.
BrokenIsCleanedUp ==
  \A c \in Clients : conn[c] # "up" ~> (pc[c] = "done" \/ Stuck(c))

\* README.md:278, "expects `pong` back (60s idle timeout) to keep dead connections cleaned
\* up": a client whose connection has broken is taken out of the hub.
DeadAreCleanedUp == \A c \in Clients : conn[c] # "up" ~> (pc[c] = "done" /\ c \notin clients)

=============================================================================
