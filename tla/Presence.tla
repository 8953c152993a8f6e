------------------------------ MODULE Presence ------------------------------
(***************************************************************************)
(* Who is online, as one server instance keeps it and tells it (ws/hub.go: *)
(* clients, userSockets, peerMap and the user-presence events).            *)
(*                                                                         *)
(* A connection's goroutine handles its events one after the other, but    *)
(* register-user and unregister take h.mu more than once: they change the  *)
(* maps in one critical section and tell the others in a later one, and    *)
(* the goroutines of other connections run in between.  A connection that  *)
(* comes back is a new client, and a client may register a second user id  *)
(* after the first.                                                        *)
(***************************************************************************)
EXTENDS FiniteSets, Naturals

CONSTANTS
  Clients,   \* WebSocket connections
  Users,     \* user ids
  Ids,       \* the user ids a client registers: a set of <<client, user>>
  Peers,     \* PeerJS ids
  None,      \* the empty string: no user id, no peer id
  MaxDrops   \* bound on the number of broadcasts that find a full buffer

ASSUME PresenceAssumption ==
  /\ Ids \subseteq Clients \X Users
  /\ IsFiniteSet(Clients)
  /\ IsFiniteSet(Users)
  /\ None \notin Users \cup Peers
  /\ MaxDrops \in Nat

VARIABLES
  pc,           \* what each connection's goroutine is doing
  userID,       \* Client.userID
  clients,      \* Hub.clients
  userSockets,  \* Hub.userSockets; a user without sockets has no entry
  peerMap,      \* Hub.peerMap
  seen,         \* the last thing the events in each client's send channel say of each user
  drops,        \* news that found a full buffer so far
  missed,       \* (history) <<client, user>>: the last news of the user that was meant for the
                \* client found its buffer full
  abandoned,    \* (history) users whose last socket went over to another user id, and who
                \* have not registered since
  strays        \* (history) users whose peer id was stored while they had no socket

hub == <<clients, userSockets, peerMap>>
history == <<abandoned, strays>>
vars == <<pc, userID, hub, seen, drops, missed, history>>

Phase == {"new", "open", "announcing", "closing", "withdrawing", "gone"}

\* The maps of the hub and the connections hold what their Go types allow.
TypeOK ==
  /\ pc \in [Clients -> Phase]
  /\ userID \in [Clients -> Users \cup {None}]
  /\ clients \subseteq Clients
  /\ userSockets \in [Users -> SUBSET Clients]
  /\ peerMap \in [Users -> Peers \cup {None}]
  /\ seen \in [Clients -> [Users -> {"nothing", "online", "offline"}]]
  /\ drops \in 0 .. MaxDrops
  /\ missed \subseteq Clients \X Users
  /\ abandoned \subseteq Users
  /\ strays \subseteq Users
  /\ \A c \in Clients : c \in clients <=> pc[c] \in {"open", "announcing"}

Online(u) == userSockets[u] # {}

\* What a client without events knows.
Nothing == [u \in Users |-> "nothing"]

Init ==
  /\ pc = [c \in Clients |-> "new"]
  /\ userID = [c \in Clients |-> None]
  /\ clients = {}
  /\ userSockets = [u \in Users |-> {}]
  /\ peerMap = [u \in Users |-> None]
  /\ seen = [c \in Clients |-> Nothing]
  /\ drops = 0
  /\ missed = {}
  /\ abandoned = {}
  /\ strays = {}

-----------------------------------------------------------------------------
(* Events *)

\* broadcastPresence tells every other user's clients.  The clients whose buffer is full
\* are not told, and keep the news they had.
BroadcastPresence(u, state) ==
  LET others == {d \in clients : userID[d] # u} IN
  \E full \in SUBSET others :
    /\ drops + Cardinality(full) <= MaxDrops
    /\ drops' = drops + Cardinality(full)
    /\ seen' = [d \in Clients |->
                  IF d \in others \ full THEN [seen[d] EXCEPT ![u] = state] ELSE seen[d]]
    /\ missed' = (missed \ (others \X {u})) \cup (full \X {u})

\* HandleWS: the client is in the hub, with a user id if it came with a valid token.
Connect(c) ==
  /\ pc[c] = "new"
  /\ \E u \in {v \in Users : <<c, v>> \in Ids} \cup {None} :
       userID' = [userID EXCEPT ![c] = u]
  /\ clients' = clients \cup {c}
  /\ pc' = [pc EXCEPT ![c] = "open"]
  /\ UNCHANGED <<userSockets, peerMap, seen, drops, missed, history>>

\* A client that registers user u and had another user id is taken from that user's sockets.
GivenUp(c, u) ==
  [v \in Users |-> IF v = userID[c] /\ v # u THEN userSockets[v] \ {c} ELSE userSockets[v]]

\* ... and put among those of u.
Registered(c, u) == [GivenUp(c, u) EXCEPT ![u] = @ \cup {c}]

NeverFirst(u) == FALSE  \* mutant: wasOffline is read after the socket was added

FirstSocket(u) == ~Online(u)

\* register-user: the socket is entered under its user, and the client is told who else is
\* online, as far as its buffer has space.  A user's first socket is announced afterwards.
\* Nobody is told if it was the last one of another user, and that user's peer id stays.
RegisterUser(c, u) ==
  LET others == {v \in Users \ {u} : Registered(c, u)[v] # {}} IN
  /\ pc[c] = "open"
  /\ <<c, u>> \in Ids
  /\ userID' = [userID EXCEPT ![c] = u]
  /\ userSockets' = Registered(c, u)
  /\ \E full \in SUBSET others :
       /\ drops + Cardinality(full) <= MaxDrops
       /\ drops' = drops + Cardinality(full)
       /\ seen' = [seen EXCEPT ![c] = [v \in Users |->
                     IF v \in others \ full THEN "online" ELSE seen[c][v]]]
       /\ missed' = (missed \ ({c} \X others)) \cup ({c} \X full)
  /\ pc' = [pc EXCEPT ![c] = IF FirstSocket(u) THEN "announcing" ELSE "open"]
  /\ abandoned' = (abandoned \cup {v \in Users : Online(v) /\ GivenUp(c, u)[v] = {}}) \ {u}
  /\ UNCHANGED <<clients, peerMap, strays>>

Announce(c) ==
  /\ pc[c] = "announcing"
  /\ BroadcastPresence(userID[c], "online")
  /\ pc' = [pc EXCEPT ![c] = "open"]
  /\ UNCHANGED <<userID, hub, history>>

\* register-peer: the event names the user, and nobody looks whether the client is the
\* user's or the user has a socket at all.
RegisterPeer(c, u, p) ==
  /\ pc[c] = "open"
  /\ peerMap' = [peerMap EXCEPT ![u] = p]
  /\ strays' = IF Online(u) THEN strays \ {u} ELSE strays \cup {u}
  /\ UNCHANGED <<pc, userID, clients, userSockets, seen, drops, missed, abandoned>>

\* get-peer-id.
GetPeerID(u) == peerMap[u]

KeepClient(c) == clients  \* mutant: the client stays in the hub

WithoutClient(c) == clients \ {c}

KeepEntry(c) == userSockets  \* mutant: the socket stays in userSockets

\* userSockets without client c.
WithoutSocket(c) ==
  [u \in Users |-> IF u = userID[c] THEN userSockets[u] \ {c} ELSE userSockets[u]]

KeepPeer(c) == peerMap  \* mutant: peerMap is not cleaned up

\* peerMap without the user of client c, if this was the user's last socket.
WithoutPeer(c) ==
  [u \in Users |-> IF u = userID[c] /\ userSockets[u] = {c} THEN None ELSE peerMap[u]]

\* The connection breaks.  unregister takes the client out of the hub, ...
Unregister(c) ==
  /\ pc[c] = "open"
  /\ userSockets' = WithoutSocket(c)
  /\ peerMap' = WithoutPeer(c)
  /\ clients' = WithoutClient(c)
  /\ seen' = [seen EXCEPT ![c] = Nothing]
  /\ missed' = missed \ ({c} \X Users)
  /\ strays' = {u \in strays : peerMap'[u] # None}
  /\ pc' = [pc EXCEPT ![c] = "closing"]
  /\ UNCHANGED <<userID, drops, abandoned>>

NeverWithdraw(c) == FALSE  \* mutant: nobody is told that the user left

\* The user that the client was connected for has no socket left.
Left(c) == userID[c] # None /\ ~Online(userID[c])

\* ... then, when its subscriptions are given back, looks whether its user has another
\* socket, ...
CheckOnline(c) ==
  /\ pc[c] = "closing"
  /\ pc' = [pc EXCEPT ![c] = IF Left(c) THEN "withdrawing" ELSE "gone"]
  /\ userID' = [userID EXCEPT ![c] = IF Left(c) THEN @ ELSE None]
  /\ UNCHANGED <<hub, seen, drops, missed, history>>

\* ... and if not, tells the others that the user is offline.
Withdraw(c) ==
  /\ pc[c] = "withdrawing"
  /\ BroadcastPresence(userID[c], "offline")
  /\ pc' = [pc EXCEPT ![c] = "gone"]
  /\ userID' = [userID EXCEPT ![c] = None]
  /\ UNCHANGED <<hub, history>>

\* The process stops and starts again: every connection is lost, and the maps are empty.
Restart ==
  /\ pc' = [c \in Clients |-> IF pc[c] = "new" THEN "new" ELSE "gone"]
  /\ clients' = {}
  /\ userSockets' = [u \in Users |-> {}]
  /\ peerMap' = [u \in Users |-> None]
  /\ userID' = [c \in Clients |-> None]
  /\ seen' = [c \in Clients |-> Nothing]
  /\ missed' = {}
  /\ abandoned' = {}
  /\ strays' = {}
  /\ UNCHANGED drops

\* Everyone has left.
Rest ==
  /\ \A c \in Clients : pc[c] = "gone"
  /\ UNCHANGED vars

\* What the goroutine of connection c does.
Step(c) ==
  \/ Connect(c)
  \/ \E u \in Users : RegisterUser(c, u)
  \/ Announce(c)
  \/ \E u \in Users, p \in Peers : RegisterPeer(c, u, p)
  \/ Unregister(c)
  \/ CheckOnline(c)
  \/ Withdraw(c)

Next ==
  \/ \E c \in Clients : Step(c)
  \/ Restart
  \/ Rest

Spec == Init /\ [][Next]_vars

-----------------------------------------------------------------------------
(* Properties *)

\* call-user and sendToUser find only live connections of the user they look up: a socket
\* in userSockets is one of a client that is still in the hub, under the user id it has.
NoGhostSockets ==
  \A u \in Users : \A c \in userSockets[u] : c \in clients /\ userID[c] = u

\* A client that was told last that another user is online was told so rightly, or the
\* news that the user has left is on its way, however the user's connections, reconnections
\* and the broadcasts of both overlap.  There are two exceptions, both of this code: the
\* news found the client's buffer full and is lost (hub.go:531-535), or the user's last
\* client went over to another user id, which nobody is told (hub.go:195-202).
ShownOnlineIsOnline ==
  \A d \in clients, u \in Users : userID[d] # u /\ seen[d][u] = "online" =>
    \/ Online(u)
    \/ \E c \in Clients : userID[c] = u /\ pc[c] \in {"closing", "withdrawing"}
    \/ <<d, u>> \in missed
    \/ u \in abandoned

\* A user with a single connection, once its announcement is out, is shown online to every
\* registered client of another user, whichever of the two registered first, and under
\* whichever id either was known before; unless the last news of the user found that
\* client's buffer full.
OnlineIsShown ==
  \A u \in Users : \A c \in userSockets[u] :
    pc[c] = "open" /\ {e \in Clients : <<e, u>> \in Ids} = {c} =>
      \A v \in Users \ {u} : \A d \in userSockets[v] :
        seen[d][u] = "online" \/ <<d, u>> \in missed

\* The last unregister of a user leaves no peer id behind, however its connections overlap:
\* get-peer-id answers with one only for a user who is online, unless the user's last client
\* went over to another user id (hub.go:195-202), or the peer id was stored while the user
\* had no socket: by a client that has not sent register-user (yet), as one that came with a
\* token need not, or in another user's name (hub.go:235-239).
PeersAreOnline ==
  \A u \in Users : GetPeerID(u) # None => Online(u) \/ u \in abandoned \cup strays

=============================================================================
