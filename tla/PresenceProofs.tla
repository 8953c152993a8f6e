--------------------------- MODULE PresenceProofs ---------------------------
(***************************************************************************)
(* Presence and Calls, for any connections, users, ids and peers, and any  *)
(* number of dropped broadcasts and of calls.                              *)
(***************************************************************************)
EXTENDS Calls, FiniteSetTheorems, TLAPS

\* A client acts under ids it may register only.
IdsAllowed == \A c \in Clients : userID[c] # None => <<c, userID[c]>> \in Ids

\* A first socket that is still to be announced is there.
AnnouncedAreRegistered ==
  \A c \in Clients : pc[c] = "announcing" =>
    userID[c] # None /\ c \in userSockets[userID[c]]

\* What withdraws a user had been connected as one.
WithdrawnHadUser == \A c \in Clients : pc[c] = "withdrawing" => userID[c] # None

\* A client that has not connected yet knows nothing.
NewKnowNothing == \A c \in Clients : pc[c] = "new" => seen[c] = Nothing

\* Who still has in mind that his own user is online was told so before he registered it.
OwnUserIsHeld ==
  \A d \in clients : userID[d] # None /\ seen[d][userID[d]] = "online" =>
    d \in userSockets[userID[d]]

IInv ==
  /\ TypeOK
  /\ NoGhostSockets
  /\ ShownOnlineIsOnline
  /\ OnlineIsShown
  /\ PeersAreOnline
  /\ IdsAllowed
  /\ AnnouncedAreRegistered
  /\ WithdrawnHadUser
  /\ NewKnowNothing
  /\ OwnUserIsHeld

-----------------------------------------------------------------------------
(* Lemmas *)

\* Drops stay within their bound when those of a broadcast are added.
LEMMA DropsBounded ==
  ASSUME TypeOK, NEW full, IsFiniteSet(full),
         drops + Cardinality(full) <= MaxDrops, drops' = drops + Cardinality(full)
  PROVE  drops' \in 0 .. MaxDrops
<1>1. Cardinality(full) \in Nat
  BY FS_CardinalityType
<1>2. drops \in Nat /\ MaxDrops \in Nat
  BY PresenceAssumption DEF TypeOK
<1> QED
  BY <1>1, <1>2

\* A broadcast changes what clients of other users know of one user, and nothing else.
LEMMA BroadcastDoes ==
  ASSUME TypeOK, NEW u \in Users, NEW state \in {"online", "offline"},
         BroadcastPresence(u, state)
  PROVE  /\ drops' \in 0 .. MaxDrops
         /\ seen' \in [Clients -> [Users -> {"nothing", "online", "offline"}]]
         /\ missed' \subseteq Clients \X Users
         /\ \A d \in clients : userID[d] # u => seen'[d][u] = state \/ <<d, u>> \in missed'
         /\ \A d \in Clients, v \in Users :
              v # u \/ d \notin clients \/ userID[d] = u =>
                /\ seen'[d][v] = seen[d][v]
                /\ <<d, v>> \in missed' <=> <<d, v>> \in missed
         /\ \A d \in Clients \ clients : seen'[d] = seen[d]
<1> DEFINE others == {d \in clients : userID[d] # u}
<1>1. PICK full \in SUBSET others :
        /\ drops + Cardinality(full) <= MaxDrops
        /\ drops' = drops + Cardinality(full)
        /\ seen' = [d \in Clients |->
                      IF d \in others \ full THEN [seen[d] EXCEPT ![u] = state] ELSE seen[d]]
        /\ missed' = (missed \ (others \X {u})) \cup (full \X {u})
  BY DEF BroadcastPresence
<1>2. clients \subseteq Clients /\ full \in SUBSET Clients
  BY DEF TypeOK
<1>3. drops' \in 0 .. MaxDrops
  <2>1. IsFiniteSet(full)
    BY <1>2, PresenceAssumption, FS_Subset
  <2> QED
    BY <1>1, <2>1, DropsBounded
<1>4. \A d \in Clients : seen[d] \in [Users -> {"nothing", "online", "offline"}]
  BY DEF TypeOK
<1>5. seen' \in [Clients -> [Users -> {"nothing", "online", "offline"}]]
  BY <1>1, <1>4
<1>6. \A d \in clients : userID[d] # u => seen'[d][u] = state \/ <<d, u>> \in missed'
  <2> SUFFICES ASSUME NEW d \in clients, userID[d] # u, d \notin full
               PROVE  seen'[d][u] = state
    BY <1>1
  <2> QED
    BY <1>1, <1>2, <1>4
<1>7. \A d \in Clients, v \in Users :
        v # u \/ d \notin clients \/ userID[d] = u =>
          /\ seen'[d][v] = seen[d][v]
          /\ <<d, v>> \in missed' <=> <<d, v>> \in missed
  <2> SUFFICES ASSUME NEW d \in Clients, NEW v \in Users, v # u \/ d \notin others
               PROVE  /\ seen'[d][v] = seen[d][v]
                      /\ <<d, v>> \in missed' <=> <<d, v>> \in missed
    OBVIOUS
  <2>1. seen'[d][v] = seen[d][v]
    BY <1>1, <1>2, <1>4
  <2>2. <<d, v>> \in missed' <=> <<d, v>> \in missed
    BY <1>1
  <2> QED
    BY <2>1, <2>2
<1>9. missed' \subseteq Clients \X Users
  BY <1>1, <1>2 DEF TypeOK
<1>8. \A d \in Clients \ clients : seen'[d] = seen[d]
  BY <1>1, <1>2
<1> QED
  BY <1>3, <1>5, <1>6, <1>7, <1>8, <1>9

\* Initially nobody is connected.
LEMMA InitIInv == Init => IInv
<1> SUFFICES ASSUME Init PROVE IInv
  OBVIOUS
<1>1. TypeOK
  BY PresenceAssumption DEF Init, TypeOK, Phase, Nothing
<1> QED
  BY <1>1 DEF Init, IInv, NoGhostSockets, ShownOnlineIsOnline, OnlineIsShown, PeersAreOnline,
     GetPeerID, IdsAllowed, AnnouncedAreRegistered, WithdrawnHadUser, NewKnowNothing,
     OwnUserIsHeld

-----------------------------------------------------------------------------
(* One lemma for each action *)

LEMMA ConnectIInv ==
  ASSUME IInv, NEW c \in Clients, Connect(c)
  PROVE  IInv'
<1> USE DEF Connect
<1>1. PICK u \in Users \cup {None} :
        /\ u # None => <<c, u>> \in Ids
        /\ userID' = [userID EXCEPT ![c] = u]
  OBVIOUS
<1>2. TypeOK'
  BY <1>1 DEF IInv, TypeOK, Phase, history
<1>3. NoGhostSockets'
  BY <1>1 DEF IInv, TypeOK, NoGhostSockets
<1>4. seen[c] = Nothing
  BY DEF IInv, NewKnowNothing
<1>5. ShownOnlineIsOnline'
  <2> SUFFICES ASSUME NEW d \in clients', NEW v \in Users,
                      userID'[d] # v, seen'[d][v] = "online"
               PROVE  \/ Online(v)'
                      \/ \E e \in Clients : userID'[e] = v /\ pc'[e] \in {"closing", "withdrawing"}
                      \/ <<d, v>> \in missed'
                      \/ v \in abandoned'
    BY DEF ShownOnlineIsOnline
  <2>1. d # c
    BY <1>4 DEF Nothing
  <2>2. d \in clients /\ userID[d] # v /\ seen[d][v] = "online"
    BY <1>1, <2>1 DEF IInv, TypeOK
  <2>3. \A e \in Clients : pc[e] \in {"closing", "withdrawing"} =>
          e # c /\ pc'[e] = pc[e] /\ userID'[e] = userID[e]
    BY <1>1 DEF IInv, TypeOK
  <2> QED
    BY <2>2, <2>3 DEF IInv, ShownOnlineIsOnline, Online, history
<1>6. OnlineIsShown'
  BY <1>1 DEF IInv, TypeOK, NoGhostSockets, OnlineIsShown
<1>7. PeersAreOnline'
  BY DEF IInv, PeersAreOnline, GetPeerID, Online, history
<1>8. IdsAllowed' /\ AnnouncedAreRegistered' /\ WithdrawnHadUser' /\ NewKnowNothing'
  <2>1. \A d \in Clients \ {c} : pc'[d] = pc[d] /\ userID'[d] = userID[d]
    BY <1>1 DEF IInv, TypeOK
  <2>2. pc'[c] = "open" /\ userID'[c] = u
    BY <1>1 DEF IInv, TypeOK
  <2>3. UNCHANGED <<userSockets, seen>>
    OBVIOUS
  <2> QED
    BY <1>1, <2>1, <2>2, <2>3
    DEF IInv, IdsAllowed, AnnouncedAreRegistered, WithdrawnHadUser, NewKnowNothing
<1>9. OwnUserIsHeld'
  BY <1>1, <1>4 DEF IInv, TypeOK, OwnUserIsHeld, Nothing
<1> QED
  BY <1>2, <1>3, <1>5, <1>6, <1>7, <1>8, <1>9 DEF IInv

LEMMA RegisterUserIInv ==
  ASSUME IInv, NEW c \in Clients, NEW u \in Users, RegisterUser(c, u)
  PROVE  IInv'
<1> DEFINE others == {v \in Users \ {u} : Registered(c, u)[v] # {}}
<1>1. /\ pc[c] = "open" /\ c \in clients
      /\ <<c, u>> \in Ids
      /\ userID' = [userID EXCEPT ![c] = u]
      /\ userSockets' = Registered(c, u)
      /\ pc' = [pc EXCEPT ![c] = IF FirstSocket(u) THEN "announcing" ELSE "open"]
      /\ abandoned' = (abandoned \cup {v \in Users : Online(v) /\ GivenUp(c, u)[v] = {}}) \ {u}
      /\ clients' = clients /\ peerMap' = peerMap /\ strays' = strays
  BY DEF RegisterUser, IInv, TypeOK
<1>2. PICK full \in SUBSET others :
        /\ drops + Cardinality(full) <= MaxDrops
        /\ drops' = drops + Cardinality(full)
        /\ seen' = [seen EXCEPT ![c] = [v \in Users |->
                      IF v \in others \ full THEN "online" ELSE seen[c][v]]]
        /\ missed' = (missed \ ({c} \X others)) \cup ({c} \X full)
  BY DEF RegisterUser
<1>3. /\ userSockets' \in [Users -> SUBSET Clients]
      /\ userSockets'[u] = userSockets[u] \cup {c}
      /\ \A v \in Users \ {u} :
           userSockets'[v] = IF v = userID[c] THEN userSockets[v] \ {c} ELSE userSockets[v]
      /\ \A v \in Users \ {u} : GivenUp(c, u)[v] = userSockets'[v]
      /\ GivenUp(c, u)[u] = userSockets[u]
  <2>1. /\ Registered(c, u) \in [Users -> SUBSET Clients]
        /\ Registered(c, u)[u] = userSockets[u] \cup {c}
        /\ \A v \in Users \ {u} : Registered(c, u)[v] = GivenUp(c, u)[v]
        /\ \A v \in Users \ {u} :
             GivenUp(c, u)[v] = IF v = userID[c] THEN userSockets[v] \ {c} ELSE userSockets[v]
        /\ GivenUp(c, u)[u] = userSockets[u]
    BY DEF IInv, TypeOK, GivenUp, Registered
  <2> QED
    BY <1>1, <2>1
<1>4. /\ seen' \in [Clients -> [Users -> {"nothing", "online", "offline"}]]
      /\ \A d \in Clients \ {c} : seen'[d] = seen[d]
      /\ missed' \subseteq Clients \X Users
      /\ \A d \in Clients \ {c}, v \in Users : <<d, v>> \in missed' <=> <<d, v>> \in missed
      /\ \A v \in Users \ {u} :
           userSockets'[v] # {} => seen'[c][v] = "online" \/ <<c, v>> \in missed'
      /\ \A v \in Users : v = u \/ userSockets'[v] = {} =>
           seen'[c][v] = seen[c][v] /\ (<<c, v>> \in missed' <=> <<c, v>> \in missed)
  <2>1. /\ seen' \in [Clients -> [Users -> {"nothing", "online", "offline"}]]
        /\ \A d \in Clients \ {c} : seen'[d] = seen[d]
        /\ \A v \in Users : seen'[c][v] = IF v \in others \ full THEN "online" ELSE seen[c][v]
    BY <1>2 DEF IInv, TypeOK
  <2>2. /\ missed' \subseteq Clients \X Users
        /\ \A d \in Clients \ {c}, v \in Users : <<d, v>> \in missed' <=> <<d, v>> \in missed
        /\ \A v \in full : <<c, v>> \in missed'
        /\ \A v \in Users \ others : <<c, v>> \in missed' <=> <<c, v>> \in missed
    BY <1>2 DEF IInv, TypeOK
  <2>3. others = {v \in Users \ {u} : userSockets'[v] # {}}
    BY <1>1
  <2> HIDE DEF others
  <2> QED
    BY <2>1, <2>2, <2>3
<1>5. TypeOK'
  <2>1. IsFiniteSet(full)
    BY PresenceAssumption, FS_Subset
  <2>2. drops' \in 0 .. MaxDrops
    BY <1>2, <2>1, DropsBounded DEF IInv
  <2>3. /\ pc' \in [Clients -> Phase]
        /\ userID' \in [Clients -> Users \cup {None}]
        /\ abandoned' \subseteq Users
        /\ \A d \in Clients : d \in clients' <=> pc'[d] \in {"open", "announcing"}
    BY <1>1 DEF IInv, TypeOK, Phase
  <2> QED
    BY <1>1, <1>3, <1>4, <2>2, <2>3 DEF IInv, TypeOK
<1>6. NoGhostSockets'
  BY <1>1, <1>3 DEF IInv, TypeOK, NoGhostSockets
<1>7. u # None
  BY PresenceAssumption
<1>8. \A v \in Users : Online(v) \/ v \in abandoned => Online(v)' \/ v \in abandoned'
  BY <1>1, <1>3 DEF Online
<1>9. ShownOnlineIsOnline'
  <2> SUFFICES ASSUME NEW d \in clients', NEW v \in Users,
                      userID'[d] # v, seen'[d][v] = "online"
               PROVE  \/ Online(v)'
                      \/ \E e \in Clients : userID'[e] = v /\ pc'[e] \in {"closing", "withdrawing"}
                      \/ <<d, v>> \in missed'
                      \/ v \in abandoned'
    BY DEF ShownOnlineIsOnline
  <2>1. d \in clients /\ d \in Clients
    BY <1>1 DEF IInv, TypeOK
  <2>2. \A e \in Clients : pc[e] \in {"closing", "withdrawing"} =>
          pc'[e] = pc[e] /\ userID'[e] = userID[e]
    BY <1>1 DEF IInv, TypeOK
  <2>3. CASE userID[d] # v /\ seen[d][v] = "online"
    <3>1. \/ Online(v) \/ v \in abandoned
          \/ \E e \in Clients : userID[e] = v /\ pc[e] \in {"closing", "withdrawing"}
          \/ <<d, v>> \in missed
      BY <2>1, <2>3 DEF IInv, ShownOnlineIsOnline
    <3>2. <<d, v>> \in missed => <<d, v>> \in missed' \/ Online(v)'
      BY <1>4, <2>1 DEF Online
    <3> QED
      BY <2>2, <3>1, <3>2, <1>8
  <2>4. CASE userID[d] = v /\ seen[d][v] = "online"
    <3>1. v # None
      BY PresenceAssumption
    <3>2. Online(v)
      BY <2>1, <2>4, <3>1 DEF IInv, OwnUserIsHeld, Online
    <3> QED
      BY <3>2, <1>8
  <2>5. CASE seen[d][v] # "online"
    <3>1. d = c /\ userSockets'[v] # {}
      BY <2>1, <2>5, <1>4
    <3> QED
      BY <3>1 DEF Online
  <2> QED
    BY <2>3, <2>4, <2>5
<1>10. OnlineIsShown'
  <2> SUFFICES ASSUME NEW w \in Users, NEW e \in userSockets'[w], pc'[e] = "open",
                      {f \in Clients : <<f, w>> \in Ids} = {e},
                      NEW v \in Users \ {w}, NEW d \in userSockets'[v]
               PROVE  seen'[d][w] = "online" \/ <<d, w>> \in missed'
    BY DEF OnlineIsShown
  <2>1. e \in Clients /\ d \in Clients
    BY <1>3
  <2>2. CASE d = c
    <3>1. v = u
      BY <1>1, <1>6, <2>2 DEF NoGhostSockets, IInv, TypeOK
    <3> QED
      BY <1>4, <2>2, <3>1
  <2>3. CASE d # c /\ e # c
    <3>1. e \in userSockets[w] /\ d \in userSockets[v] /\ pc[e] = "open"
      BY <1>1, <1>3, <2>1, <2>3 DEF IInv, TypeOK
    <3> QED
      BY <1>4, <2>1, <2>3, <3>1 DEF IInv, OnlineIsShown
  <2>4. CASE d # c /\ e = c
    <3>1. w = u
      BY <1>1, <1>6, <2>4 DEF NoGhostSockets, IInv, TypeOK
    <3>2. Online(u)
      BY <1>1, <2>1, <2>4 DEF IInv, TypeOK, FirstSocket
    <3>3. PICK f \in userSockets[u] : TRUE
      BY <3>2 DEF Online
    <3>4. f \in Clients /\ userID[f] = u
      BY <3>3 DEF IInv, TypeOK, NoGhostSockets
    <3>5. f = c
      BY <3>1, <3>4, <2>4, <1>7 DEF IInv, IdsAllowed
    <3>6. d \in userSockets[v]
      BY <1>3, <2>4, <3>1
    <3> QED
      BY <1>1, <1>4, <2>1, <2>4, <3>1, <3>3, <3>5, <3>6 DEF IInv, OnlineIsShown
  <2> QED
    BY <2>2, <2>3, <2>4
<1>11. PeersAreOnline'
  BY <1>1, <1>8 DEF IInv, PeersAreOnline, GetPeerID
<1>12. IdsAllowed' /\ WithdrawnHadUser' /\ NewKnowNothing'
  BY <1>1, <1>4, <1>7 DEF IInv, TypeOK, IdsAllowed, WithdrawnHadUser, NewKnowNothing
<1>13. AnnouncedAreRegistered'
  <2> SUFFICES ASSUME NEW d \in Clients, pc'[d] = "announcing"
               PROVE  userID'[d] # None /\ d \in userSockets'[userID'[d]]
    BY DEF AnnouncedAreRegistered
  <2>1. CASE d = c
    BY <1>1, <1>3, <1>7, <2>1 DEF IInv, TypeOK
  <2>2. CASE d # c
    <3>1. /\ userID'[d] = userID[d] /\ userID[d] \in Users
          /\ d \in userSockets[userID[d]]
      BY <1>1, <2>2 DEF IInv, TypeOK, AnnouncedAreRegistered
    <3> QED
      BY <1>1, <1>3, <2>2, <3>1 DEF IInv, TypeOK, AnnouncedAreRegistered
  <2> QED
    BY <2>1, <2>2
<1>14. OwnUserIsHeld'
  <2> SUFFICES ASSUME NEW d \in clients', userID'[d] # None, seen'[d][userID'[d]] = "online"
               PROVE  d \in userSockets'[userID'[d]]
    BY DEF OwnUserIsHeld
  <2>1. CASE d = c
    BY <1>1, <1>3, <2>1 DEF IInv, TypeOK
  <2>2. CASE d # c
    <3>1. /\ d \in clients /\ d \in Clients /\ userID'[d] = userID[d] /\ userID[d] \in Users
          /\ seen'[d] = seen[d]
      BY <1>1, <1>4, <2>2 DEF IInv, TypeOK
    <3>2. d \in userSockets[userID[d]]
      BY <3>1 DEF IInv, OwnUserIsHeld
    <3> QED
      BY <1>3, <2>2, <3>1, <3>2
  <2> QED
    BY <2>1, <2>2
<1> QED
  BY <1>5, <1>6, <1>9, <1>10, <1>11, <1>12, <1>13, <1>14 DEF IInv

LEMMA AnnounceIInv ==
  ASSUME IInv, NEW c \in Clients, Announce(c)
  PROVE  IInv'
<1> DEFINE u == userID[c]
<1>1. /\ pc[c] = "announcing" /\ c \in clients /\ u \in Users
      /\ c \in userSockets[u]
      /\ pc' = [pc EXCEPT ![c] = "open"]
      /\ UNCHANGED <<userID, hub, history>>
  BY DEF Announce, IInv, TypeOK, AnnouncedAreRegistered
<1>2. /\ drops' \in 0 .. MaxDrops
      /\ seen' \in [Clients -> [Users -> {"nothing", "online", "offline"}]]
      /\ \A d \in clients : userID[d] # u => seen'[d][u] = "online" \/ <<d, u>> \in missed'
      /\ missed' \subseteq Clients \X Users
      /\ \A d \in Clients, v \in Users :
           v # u \/ d \notin clients \/ userID[d] = u =>
             /\ seen'[d][v] = seen[d][v]
             /\ <<d, v>> \in missed' <=> <<d, v>> \in missed
      /\ \A d \in Clients \ clients : seen'[d] = seen[d]
  BY <1>1, BroadcastDoes DEF Announce, IInv
<1> HIDE DEF u
<1>3. TypeOK'
  BY <1>1, <1>2 DEF IInv, TypeOK, hub, history, Phase
<1>4. NoGhostSockets' /\ PeersAreOnline'
  BY <1>1 DEF IInv, NoGhostSockets, PeersAreOnline, GetPeerID, Online, hub, history
<1>5. ShownOnlineIsOnline'
  <2> SUFFICES ASSUME NEW d \in clients', NEW v \in Users,
                      userID'[d] # v, seen'[d][v] = "online"
               PROVE  \/ Online(v)'
                      \/ \E e \in Clients : userID'[e] = v /\ pc'[e] \in {"closing", "withdrawing"}
                      \/ <<d, v>> \in missed'
                      \/ v \in abandoned'
    BY DEF ShownOnlineIsOnline
  <2>1. CASE v = u
    BY <1>1, <2>1 DEF Online, hub
  <2>2. CASE v # u
    <3>1. d \in clients /\ userID[d] # v /\ seen[d][v] = "online"
      BY <1>1, <1>2, <2>2 DEF IInv, TypeOK, hub
    <3>2. \A e \in Clients : pc[e] \in {"closing", "withdrawing"} =>
            pc'[e] = pc[e] /\ userID'[e] = userID[e]
      BY <1>1 DEF IInv, TypeOK
    <3>3. d \in Clients /\ (<<d, v>> \in missed => <<d, v>> \in missed')
      BY <1>2, <2>2, <3>1 DEF IInv, TypeOK
    <3>4. \/ Online(v) \/ v \in abandoned
          \/ \E e \in Clients : userID[e] = v /\ pc[e] \in {"closing", "withdrawing"}
          \/ <<d, v>> \in missed
      BY <3>1 DEF IInv, ShownOnlineIsOnline
    <3> QED
      BY <1>1, <3>2, <3>3, <3>4 DEF Online, hub, history
  <2> QED
    BY <2>1, <2>2
<1>6. OnlineIsShown'
  <2> SUFFICES ASSUME NEW w \in Users, NEW e \in userSockets[w], pc'[e] = "open",
                      {f \in Clients : <<f, w>> \in Ids} = {e},
                      NEW v \in Users \ {w}, NEW d \in userSockets[v]
               PROVE  seen'[d][w] = "online" \/ <<d, w>> \in missed'
    BY <1>1 DEF OnlineIsShown, hub
  <2>1. /\ e \in clients /\ d \in clients /\ e \in Clients /\ d \in Clients
        /\ userID[e] = w /\ userID[d] = v
    BY DEF IInv, TypeOK, NoGhostSockets
  <2>2. CASE w = u
    BY <1>2, <2>1, <2>2
  <2>3. CASE w # u
    <3>1. pc[e] = "open"
      BY <1>1, <2>1, <2>3 DEF IInv, TypeOK, u
    <3> QED
      BY <1>2, <2>1, <2>3, <3>1 DEF IInv, OnlineIsShown
  <2> QED
    BY <2>2, <2>3
<1>7. IdsAllowed' /\ AnnouncedAreRegistered' /\ WithdrawnHadUser'
  BY <1>1 DEF IInv, TypeOK, hub, IdsAllowed, AnnouncedAreRegistered, WithdrawnHadUser
<1>8. NewKnowNothing'
  BY <1>1, <1>2 DEF IInv, TypeOK, NewKnowNothing
<1>9. OwnUserIsHeld'
  <2> SUFFICES ASSUME NEW d \in clients, userID[d] # None, seen'[d][userID[d]] = "online"
               PROVE  d \in userSockets[userID[d]]
    BY <1>1 DEF OwnUserIsHeld, hub
  <2>1. d \in Clients /\ userID[d] \in Users
    BY DEF IInv, TypeOK
  <2>2. seen'[d][userID[d]] = seen[d][userID[d]]
    BY <1>2, <2>1
  <2> QED
    BY <2>2 DEF IInv, OwnUserIsHeld
<1> QED
  BY <1>3, <1>4, <1>5, <1>6, <1>7, <1>8, <1>9 DEF IInv

LEMMA RegisterPeerIInv ==
  ASSUME IInv, NEW c \in Clients, NEW u \in Users, NEW p \in Peers, RegisterPeer(c, u, p)
  PROVE  IInv'
<1>1. /\ peerMap' = [peerMap EXCEPT ![u] = p]
      /\ strays' = IF Online(u) THEN strays \ {u} ELSE strays \cup {u}
      /\ UNCHANGED <<pc, userID, clients, userSockets, seen, drops, missed, abandoned>>
  BY DEF RegisterPeer
<1>2. TypeOK'
  BY <1>1 DEF IInv, TypeOK
<1>3. PeersAreOnline'
  BY <1>1 DEF IInv, TypeOK, PeersAreOnline, GetPeerID, Online
<1> QED
  BY <1>1, <1>2, <1>3 DEF IInv, NoGhostSockets, ShownOnlineIsOnline, OnlineIsShown, Online,
     IdsAllowed, AnnouncedAreRegistered, WithdrawnHadUser, NewKnowNothing, OwnUserIsHeld

\* What is left when a client leaves the hub.  Its user may have no socket any more, but the
\* client is closing and still has the user's id.
LEMMA UnregisterIInv ==
  ASSUME IInv, NEW c \in Clients, Unregister(c)
  PROVE  IInv'
<1>1. /\ pc[c] = "open" /\ c \in clients
      /\ userSockets' = WithoutSocket(c)
      /\ peerMap' = WithoutPeer(c)
      /\ clients' = clients \ {c}
      /\ seen' = [seen EXCEPT ![c] = Nothing]
      /\ missed' = missed \ ({c} \X Users)
      /\ strays' = {u \in strays : peerMap'[u] # None}
      /\ pc' = [pc EXCEPT ![c] = "closing"]
      /\ UNCHANGED <<userID, drops, abandoned>>
  BY DEF Unregister, WithoutClient, IInv, TypeOK
<1>2. /\ userSockets' \in [Users -> SUBSET Clients]
      /\ \A u \in Users : userSockets'[u] = userSockets[u] \ {c}
  BY <1>1 DEF WithoutSocket, IInv, TypeOK, NoGhostSockets
<1>3. TypeOK'
  <2>1. peerMap' \in [Users -> Peers \cup {None}]
    BY <1>1 DEF WithoutPeer, IInv, TypeOK
  <2>2. seen' \in [Clients -> [Users -> {"nothing", "online", "offline"}]]
    BY <1>1 DEF Nothing, IInv, TypeOK
  <2> QED
    BY <1>1, <1>2, <2>1, <2>2 DEF IInv, TypeOK, Phase
<1>4. NoGhostSockets'
  BY <1>1, <1>2 DEF IInv, NoGhostSockets
<1>5. \A v \in Users : Online(v) => Online(v)' \/ userID[c] = v
  BY <1>2 DEF Online, IInv, NoGhostSockets
<1>6. ShownOnlineIsOnline'
  <2> SUFFICES ASSUME NEW d \in clients', NEW v \in Users,
                      userID'[d] # v, seen'[d][v] = "online"
               PROVE  \/ Online(v)'
                      \/ \E e \in Clients : userID'[e] = v /\ pc'[e] \in {"closing", "withdrawing"}
                      \/ <<d, v>> \in missed'
                      \/ v \in abandoned'
    BY DEF ShownOnlineIsOnline
  <2>1. d \in clients /\ d \in Clients /\ seen[d][v] = "online" /\ userID[d] # v
    BY <1>1 DEF IInv, TypeOK
  <2>2. \A e \in Clients : pc[e] \in {"closing", "withdrawing"} =>
          pc'[e] = pc[e] /\ userID'[e] = userID[e]
    BY <1>1 DEF IInv, TypeOK
  <2>3. pc'[c] = "closing" /\ userID'[c] = userID[c]
    BY <1>1 DEF IInv, TypeOK
  <2>4. <<d, v>> \in missed => <<d, v>> \in missed'
    BY <1>1
  <2> QED
    BY <1>1, <1>5, <2>1, <2>2, <2>3, <2>4 DEF IInv, ShownOnlineIsOnline
<1>7. OnlineIsShown'
  <2> SUFFICES ASSUME NEW w \in Users, NEW e \in userSockets'[w], pc'[e] = "open",
                      {f \in Clients : <<f, w>> \in Ids} = {e},
                      NEW v \in Users \ {w}, NEW d \in userSockets'[v]
               PROVE  seen'[d][w] = "online" \/ <<d, w>> \in missed'
    BY DEF OnlineIsShown
  <2>1. /\ e \in userSockets[w] /\ d \in userSockets[v] /\ e # c /\ d # c
        /\ d \in Clients /\ e \in Clients
    BY <1>2
  <2>2. pc[e] = "open" /\ seen'[d] = seen[d] /\ (<<d, w>> \in missed => <<d, w>> \in missed')
    BY <1>1, <2>1 DEF IInv, TypeOK
  <2> QED
    BY <2>1, <2>2 DEF IInv, OnlineIsShown
<1>8. PeersAreOnline'
  <2> SUFFICES ASSUME NEW u \in Users, peerMap'[u] # None
               PROVE  Online(u)' \/ u \in abandoned' \cup strays'
    BY DEF PeersAreOnline, GetPeerID
  <2>1. /\ peerMap[u] # None
        /\ ~(u = userID[c] /\ userSockets[u] = {c})
    BY <1>1 DEF WithoutPeer
  <2>2. CASE u \in abandoned \cup strays
    BY <1>1, <2>2
  <2>3. CASE u \notin abandoned \cup strays
    <3>1. userSockets[u] # {}
      BY <2>1, <2>3 DEF IInv, PeersAreOnline, GetPeerID, Online
    <3>2. userSockets[u] # {c}
      BY <2>1 DEF IInv, NoGhostSockets
    <3> QED
      BY <1>2, <3>1, <3>2 DEF Online
  <2> QED
    BY <2>2, <2>3
<1>9. IdsAllowed' /\ WithdrawnHadUser' /\ NewKnowNothing'
  BY <1>1 DEF IInv, TypeOK, IdsAllowed, WithdrawnHadUser, NewKnowNothing
<1>10. AnnouncedAreRegistered'
  BY <1>1, <1>2 DEF IInv, TypeOK, AnnouncedAreRegistered
<1>11. OwnUserIsHeld'
  BY <1>1, <1>2 DEF IInv, TypeOK, OwnUserIsHeld
<1> QED
  BY <1>3, <1>4, <1>6, <1>7, <1>8, <1>9, <1>10, <1>11 DEF IInv

\* Only a client whose user has no socket left forgets whom it withdraws.
LEMMA CheckOnlineIInv ==
  ASSUME IInv, NEW c \in Clients, CheckOnline(c)
  PROVE  IInv'
<1>1. /\ pc[c] = "closing" /\ c \notin clients
      /\ pc' = [pc EXCEPT ![c] = IF Left(c) THEN "withdrawing" ELSE "gone"]
      /\ userID' = [userID EXCEPT ![c] = IF Left(c) THEN @ ELSE None]
      /\ UNCHANGED <<hub, seen, drops, missed, history>>
  BY DEF CheckOnline, IInv, TypeOK
<1>2. TypeOK'
  BY <1>1 DEF IInv, TypeOK, Phase, hub, history
<1>3. \A u \in Users : c \notin userSockets[u]
  BY <1>1 DEF IInv, NoGhostSockets
<1>4. \A d \in Clients \ {c} : userID'[d] = userID[d] /\ pc'[d] = pc[d]
  BY <1>1 DEF IInv, TypeOK
<1>5. NoGhostSockets'
  BY <1>1, <1>3, <1>4 DEF IInv, TypeOK, NoGhostSockets, hub
<1>6. ShownOnlineIsOnline'
  <2> SUFFICES ASSUME NEW d \in clients, NEW v \in Users,
                      userID'[d] # v, seen[d][v] = "online",
                      ~Online(v), v \notin abandoned, <<d, v>> \notin missed'
               PROVE  \E e \in Clients : userID'[e] = v /\ pc'[e] \in {"closing", "withdrawing"}
    BY <1>1 DEF ShownOnlineIsOnline, Online, hub, history
  <2>1. d # c /\ userID[d] # v /\ <<d, v>> \notin missed
    BY <1>1, <1>4 DEF IInv, TypeOK
  <2>2. PICK e \in Clients : userID[e] = v /\ pc[e] \in {"closing", "withdrawing"}
    BY <2>1 DEF IInv, ShownOnlineIsOnline
  <2>3. CASE e # c
    BY <1>4, <2>2, <2>3
  <2>4. CASE e = c
    <3>1. Left(c)
      BY <2>2, <2>4, PresenceAssumption DEF Left
    <3> QED
      BY <1>1, <2>2, <2>4, <3>1 DEF IInv, TypeOK
  <2> QED
    BY <2>3, <2>4
<1>7. OnlineIsShown' /\ PeersAreOnline'
  BY <1>1 DEF IInv, TypeOK, OnlineIsShown, PeersAreOnline, GetPeerID, Online, hub, history
<1>8. IdsAllowed' /\ AnnouncedAreRegistered' /\ NewKnowNothing'
  BY <1>1 DEF IInv, TypeOK, IdsAllowed, AnnouncedAreRegistered, NewKnowNothing, hub
<1>9. WithdrawnHadUser'
  BY <1>1 DEF IInv, TypeOK, WithdrawnHadUser, Left
<1>10. OwnUserIsHeld'
  BY <1>1, <1>4 DEF IInv, TypeOK, OwnUserIsHeld, hub
<1> QED
  BY <1>2, <1>5, <1>6, <1>7, <1>8, <1>9, <1>10 DEF IInv

\* The last words of a user with one connection do not reach over its announcement: the
\* connection that says them is not the one that is open.
LEMMA WithdrawIInv ==
  ASSUME IInv, NEW c \in Clients, Withdraw(c)
  PROVE  IInv'
<1> DEFINE u == userID[c]
<1>1. /\ pc[c] = "withdrawing" /\ c \notin clients /\ u \in Users
      /\ <<c, u>> \in Ids
      /\ pc' = [pc EXCEPT ![c] = "gone"]
      /\ userID' = [userID EXCEPT ![c] = None]
      /\ UNCHANGED <<hub, history>>
  BY DEF Withdraw, IInv, TypeOK, WithdrawnHadUser, IdsAllowed
<1>2. /\ drops' \in 0 .. MaxDrops
      /\ seen' \in [Clients -> [Users -> {"nothing", "online", "offline"}]]
      /\ \A d \in clients : userID[d] # u => seen'[d][u] = "offline" \/ <<d, u>> \in missed'
      /\ missed' \subseteq Clients \X Users
      /\ \A d \in Clients, v \in Users :
           v # u \/ d \notin clients \/ userID[d] = u =>
             /\ seen'[d][v] = seen[d][v]
             /\ <<d, v>> \in missed' <=> <<d, v>> \in missed
      /\ \A d \in Clients \ clients : seen'[d] = seen[d]
  BY <1>1, BroadcastDoes DEF Withdraw, IInv
<1>3. c \in Clients /\ userID[c] = u
  OBVIOUS
<1> HIDE DEF u
<1>4. \A d \in Clients \ {c} : userID'[d] = userID[d] /\ pc'[d] = pc[d]
  BY <1>1 DEF IInv, TypeOK
<1>5. TypeOK'
  BY <1>1, <1>2 DEF IInv, TypeOK, hub, history, Phase
<1>6. NoGhostSockets' /\ PeersAreOnline'
  BY <1>1, <1>4 DEF IInv, TypeOK, NoGhostSockets, PeersAreOnline, GetPeerID, Online, hub, history
<1>7. ShownOnlineIsOnline'
  <2> SUFFICES ASSUME NEW d \in clients, NEW v \in Users,
                      userID'[d] # v, seen'[d][v] = "online",
                      ~Online(v), v \notin abandoned, <<d, v>> \notin missed'
               PROVE  \E e \in Clients : userID'[e] = v /\ pc'[e] \in {"closing", "withdrawing"}
    BY <1>1 DEF ShownOnlineIsOnline, Online, hub, history
  <2>1. d \in Clients /\ d # c /\ userID[d] # v
    BY <1>1, <1>4 DEF IInv, TypeOK
  <2>2. v # u
    BY <1>2, <2>1
  <2>3. seen[d][v] = "online" /\ <<d, v>> \notin missed
    BY <1>2, <2>1, <2>2
  <2>4. PICK e \in Clients : userID[e] = v /\ pc[e] \in {"closing", "withdrawing"}
    BY <2>1, <2>3 DEF IInv, ShownOnlineIsOnline
  <2>5. e # c
    BY <1>3, <2>2, <2>4
  <2> QED
    BY <1>4, <2>4, <2>5
<1>8. OnlineIsShown'
  <2> SUFFICES ASSUME NEW w \in Users, NEW e \in userSockets[w], pc'[e] = "open",
                      {f \in Clients : <<f, w>> \in Ids} = {e},
                      NEW v \in Users \ {w}, NEW d \in userSockets[v]
               PROVE  seen'[d][w] = "online" \/ <<d, w>> \in missed'
    BY <1>1 DEF OnlineIsShown, hub
  <2>1. e \in clients /\ d \in clients /\ e \in Clients /\ d \in Clients
    BY DEF IInv, TypeOK, NoGhostSockets
  <2>2. e # c /\ pc[e] = "open"
    BY <1>1, <1>4, <2>1
  <2>3. w # u
    BY <1>1, <1>3, <2>2
  <2> QED
    BY <1>2, <2>1, <2>2, <2>3 DEF IInv, OnlineIsShown
<1>9. IdsAllowed' /\ WithdrawnHadUser' /\ NewKnowNothing'
  BY <1>1, <1>2, <1>4 DEF IInv, TypeOK, IdsAllowed, WithdrawnHadUser, NewKnowNothing
<1>10. AnnouncedAreRegistered'
  BY <1>1, <1>4 DEF IInv, TypeOK, AnnouncedAreRegistered, hub
<1>11. OwnUserIsHeld'
  <2> SUFFICES ASSUME NEW d \in clients, userID'[d] # None, seen'[d][userID'[d]] = "online"
               PROVE  d \in userSockets[userID'[d]]
    BY <1>1 DEF OwnUserIsHeld, hub
  <2>1. d # c /\ userID'[d] = userID[d] /\ d \in Clients /\ userID[d] \in Users
    BY <1>1, <1>4 DEF IInv, TypeOK
  <2>2. seen'[d][userID[d]] = seen[d][userID[d]]
    BY <1>2, <2>1
  <2> QED
    BY <2>1, <2>2 DEF IInv, OwnUserIsHeld
<1> QED
  BY <1>5, <1>6, <1>7, <1>8, <1>9, <1>10, <1>11 DEF IInv

LEMMA RestartIInv ==
  ASSUME IInv, Restart
  PROVE  IInv'
<1>1. TypeOK'
  BY PresenceAssumption DEF Restart, IInv, TypeOK, Phase, Nothing
<1> QED
  BY <1>1 DEF Restart, IInv, NoGhostSockets, ShownOnlineIsOnline, OnlineIsShown, PeersAreOnline,
     GetPeerID, IdsAllowed, AnnouncedAreRegistered, WithdrawnHadUser, NewKnowNothing,
     OwnUserIsHeld

LEMMA StutterIInv ==
  ASSUME IInv, UNCHANGED vars
  PROVE  IInv'
<1> USE DEF vars, hub, history, IInv
<1>1. TypeOK'
  BY DEF TypeOK
<1>2. NoGhostSockets' /\ ShownOnlineIsOnline' /\ OnlineIsShown' /\ PeersAreOnline'
  BY DEF NoGhostSockets, ShownOnlineIsOnline, OnlineIsShown, PeersAreOnline, GetPeerID, Online
<1>3. IdsAllowed' /\ AnnouncedAreRegistered' /\ WithdrawnHadUser'
  BY DEF IdsAllowed, AnnouncedAreRegistered, WithdrawnHadUser
<1>4. NewKnowNothing' /\ OwnUserIsHeld'
  BY DEF NewKnowNothing, OwnUserIsHeld
<1> QED
  BY <1>1, <1>2, <1>3, <1>4

LEMMA StepIInv ==
  ASSUME IInv, NEW c \in Clients, Step(c)
  PROVE  IInv'
BY ConnectIInv, RegisterUserIInv, AnnounceIInv, RegisterPeerIInv, UnregisterIInv, CheckOnlineIInv,
   WithdrawIInv DEF Step

LEMMA NextIInv == IInv /\ [Next]_vars => IInv'
BY StepIInv, RestartIInv, StutterIInv DEF Next, Rest

-----------------------------------------------------------------------------
(* Presence *)

\* The inductive invariant of the sockets and announcements holds in every reachable state.
THEOREM Invariance == Spec => []IInv
<1>1. Init => IInv
  BY InitIInv
<1>2. IInv /\ [Next]_vars => IInv'
  BY NextIInv
<1> QED
  BY <1>1, <1>2, PTL DEF Spec

-----------------------------------------------------------------------------
(* Calls *)

\* What the steps of the others and of the goroutine itself leave true of a call: as long as
\* the map is the one in userSockets, the sockets that were there all along are still in it;
\* when it was thrown away the user was without a socket; and the iteration has come to each
\* of them, or will.
CallInv ==
  \A c \in Clients : Busy(c) =>
    /\ call[c].attached => call[c].steady \subseteq userSockets[call[c].target]
    /\ ~call[c].attached => call[c].vacant
    /\ call[c].stage = "walking" =>
         call[c].vacant \/ call[c].steady \subseteq call[c].due \cup call[c].offered

CInv == IInv /\ CallsTypeOK /\ CallInv

LEMMA IdleIsNoEvent == Idle \notin Event
BY DEF Idle, Event

\* A step of a goroutine with a call changes the call only.
LEMMA OwnCallCInv ==
  ASSUME CInv, NEW c \in Clients, NEW e \in Event,
         UNCHANGED vars, calls' \in 0 .. MaxCalls,
         call' = [call EXCEPT ![c] = e],
         e.attached => e.steady \subseteq userSockets[e.target],
         ~e.attached => e.vacant,
         e.stage = "walking" => e.vacant \/ e.steady \subseteq e.due \cup e.offered
  PROVE  CInv'
<1>1. IInv'
  BY StutterIInv DEF CInv
<1>2. CallsTypeOK'
  BY <1>1 DEF CInv, CallsTypeOK, IInv
<1>3. CallInv'
  <2> SUFFICES ASSUME NEW d \in Clients, Busy(d)'
               PROVE  /\ call'[d].attached => call'[d].steady \subseteq userSockets'[call'[d].target]
                      /\ ~call'[d].attached => call'[d].vacant
                      /\ call'[d].stage = "walking" =>
                           call'[d].vacant \/ call'[d].steady \subseteq call'[d].due \cup call'[d].offered
    BY DEF CallInv
  <2>1. userSockets' = userSockets
    BY DEF vars, hub
  <2>2. CASE d = c
    <3>1. call'[d] = e
      BY <2>2 DEF CInv, CallsTypeOK
    <3> QED
      BY <2>1, <3>1
  <2>3. CASE d # c
    <3>1. call'[d] = call[d] /\ Busy(d)
      BY <2>3 DEF CInv, CallsTypeOK, Busy
    <3> QED
      BY <2>1, <3>1 DEF CInv, CallInv
  <2> QED
    BY <2>2, <2>3
<1> QED
  BY <1>1, <1>2, <1>3 DEF CInv

LEMMA LookCInv ==
  ASSUME CInv, NEW c \in Clients, NEW u \in Users, NEW stage \in {"calling", "relaying"},
         Look(c, u, stage)
  PROVE  CInv'
<1> DEFINE e == [stage |-> stage, target |-> u, attached |-> Online(u), due |-> {},
                 offered |-> {}, steady |-> userSockets[u], vacant |-> ~Online(u)]
<1>1. e \in Event
  BY DEF CInv, IInv, TypeOK, Event, Online
<1>2. calls' \in 0 .. MaxCalls
  BY CallsAssumption DEF Look, CInv, CallsTypeOK
<1>3. /\ e.attached => e.steady \subseteq userSockets[e.target]
      /\ ~e.attached => e.vacant
      /\ e.stage # "walking"
  OBVIOUS
<1>4. call' = [call EXCEPT ![c] = e] /\ UNCHANGED vars
  BY DEF Look
<1> HIDE DEF e
<1> QED
  BY <1>1, <1>2, <1>3, <1>4, OwnCallCInv

\* The goroutine is through with its event.
LEMMA DoneCInv ==
  ASSUME CInv, NEW c \in Clients, call' = [call EXCEPT ![c] = Idle], UNCHANGED <<vars, calls>>
  PROVE  CInv'
<1>1. IInv'
  BY StutterIInv DEF CInv
<1>2. CallsTypeOK'
  BY <1>1 DEF CInv, CallsTypeOK, IInv
<1>3. CallInv'
  BY DEF CInv, CallsTypeOK, CallInv, Busy, vars, hub
<1> QED
  BY <1>1, <1>2, <1>3 DEF CInv

LEMMA WalkCInv ==
  ASSUME CInv, NEW c \in Clients, Walk(c)
  PROVE  CInv' /\ Busy(c)'
<1> DEFINE e == [call[c] EXCEPT !.stage = "walking", !.due = Targets(c)]
<1>1. call[c] \in Event
  BY DEF Walk, CInv, CallsTypeOK, Busy
<1>2. Targets(c) \in SUBSET Clients
  BY <1>1 DEF Targets, Event, CInv, IInv, TypeOK
<1>3. /\ e \in Event
      /\ e.attached = call[c].attached /\ e.steady = call[c].steady /\ e.vacant = call[c].vacant
      /\ e.target = call[c].target /\ e.due = Targets(c)
  BY <1>1, <1>2 DEF Event
<1>4. call' = [call EXCEPT ![c] = e] /\ UNCHANGED <<vars, calls>>
  BY DEF Walk
<1>5. /\ e.attached => e.steady \subseteq userSockets[e.target]
      /\ ~e.attached => e.vacant
  BY <1>3 DEF Walk, CInv, CallInv
<1>6. e.vacant \/ e.steady \subseteq e.due \cup e.offered
  BY <1>3, <1>5 DEF Targets
<1>7. calls' \in 0 .. MaxCalls
  BY <1>4 DEF CInv, CallsTypeOK
<1> HIDE DEF e
<1>8. Busy(c)'
  BY <1>3, <1>4, IdleIsNoEvent DEF Busy, CInv, CallsTypeOK
<1> QED
  BY <1>3, <1>4, <1>5, <1>6, <1>7, <1>8, OwnCallCInv

LEMMA RingCInv ==
  ASSUME CInv, NEW c \in Clients, NEW d \in Clients, Ring(c, d)
  PROVE  CInv' /\ Busy(c)'
<1> DEFINE e == [call[c] EXCEPT !.due = @ \ {d}, !.offered = @ \cup {d}]
<1>1. call[c] \in Event
  BY DEF Ring, CInv, CallsTypeOK, Busy
<1>2. /\ e \in Event
      /\ e.attached = call[c].attached /\ e.steady = call[c].steady /\ e.vacant = call[c].vacant
      /\ e.target = call[c].target
      /\ e.due = call[c].due \ {d} /\ e.offered = call[c].offered \cup {d}
  BY <1>1 DEF Event
<1>3. call' = [call EXCEPT ![c] = e] /\ UNCHANGED <<vars, calls>>
  BY DEF Ring
<1>4. /\ e.attached => e.steady \subseteq userSockets[e.target]
      /\ ~e.attached => e.vacant
      /\ e.vacant \/ e.steady \subseteq e.due \cup e.offered
  BY <1>2 DEF Ring, CInv, CallInv
<1>5. calls' \in 0 .. MaxCalls
  BY <1>3 DEF CInv, CallsTypeOK
<1> HIDE DEF e
<1>6. Busy(c)'
  BY <1>2, <1>3, IdleIsNoEvent DEF Busy, CInv, CallsTypeOK
<1> QED
  BY <1>2, <1>3, <1>4, <1>5, <1>6, OwnCallCInv

\* What another goroutine does to the sockets of the user who is called.
LEMMA FollowedDoes ==
  ASSUME CInv, TypeOK', NEW c \in Clients, Busy(c)
  PROVE  /\ Followed(c) \in Event
         /\ Followed(c).attached => Followed(c).steady \subseteq userSockets'[Followed(c).target]
         /\ ~Followed(c).attached => Followed(c).vacant
         /\ Followed(c).stage = "walking" =>
              \/ Followed(c).vacant
              \/ Followed(c).steady \subseteq Followed(c).due \cup Followed(c).offered
<1> DEFINE now == userSockets'[call[c].target]
           e == Followed(c)
<1>1. call[c] \in Event
  BY DEF CInv, CallsTypeOK, Busy
<1>2. now \in SUBSET Clients
  BY <1>1 DEF TypeOK, Event
<1> HIDE DEF now
<1>3. e = [call[c] EXCEPT !.attached = @ /\ now # {}, !.due = @ \cap now,
             !.offered = @ \cap now, !.steady = @ \cap now, !.vacant = @ \/ now = {}]
  BY DEF Followed, now
<1> HIDE DEF e
<1>4. /\ e \in Event
      /\ e.target = call[c].target /\ e.stage = call[c].stage
      /\ e.attached = (call[c].attached /\ now # {})
      /\ e.due = call[c].due \cap now /\ e.offered = call[c].offered \cap now
      /\ e.steady = call[c].steady \cap now
      /\ e.vacant = (call[c].vacant \/ now = {})
  BY <1>1, <1>2, <1>3 DEF Event
<1>5. /\ e.attached => e.steady \subseteq userSockets'[e.target]
      /\ ~e.attached => e.vacant
      /\ e.stage = "walking" => e.vacant \/ e.steady \subseteq e.due \cup e.offered
  BY <1>1, <1>4 DEF now, CInv, CallInv
<1> QED
  BY <1>4, <1>5 DEF e

LEMMA OtherCInv ==
  ASSUME CInv, NEW c \in Clients, Other(c)
  PROVE  CInv' /\ \A d \in Clients : Busy(d) => Busy(d)'
<1>1. IInv'
  BY StepIInv DEF Other, CInv
<1>2. call' = [d \in Clients |-> IF Busy(d) THEN Followed(d) ELSE Idle] /\ calls' = calls
  BY DEF Other
<1>3. \A d \in Clients : Busy(d) =>
        /\ call'[d] = Followed(d)
        /\ call'[d] \in Event
        /\ call'[d].attached => call'[d].steady \subseteq userSockets'[call'[d].target]
        /\ ~call'[d].attached => call'[d].vacant
        /\ call'[d].stage = "walking" =>
             call'[d].vacant \/ call'[d].steady \subseteq call'[d].due \cup call'[d].offered
  BY <1>1, <1>2, FollowedDoes DEF IInv
<1>4. \A d \in Clients : ~Busy(d) => call'[d] = Idle
  BY <1>2
<1>5. CallsTypeOK'
  <2>1. call' \in [Clients -> Event \cup {Idle}]
    BY <1>2, <1>3, <1>4
  <2> QED
    BY <1>1, <1>2, <2>1 DEF CInv, CallsTypeOK, IInv
<1>6. CallInv'
  BY <1>3, <1>4 DEF CallInv, Busy
<1>7. \A d \in Clients : Busy(d) => Busy(d)'
  BY <1>3, IdleIsNoEvent DEF Busy
<1> QED
  BY <1>1, <1>5, <1>6, <1>7 DEF CInv

LEMMA RestartAllCInv ==
  ASSUME CInv, RestartAll
  PROVE  CInv'
<1>1. IInv'
  BY RestartIInv DEF RestartAll, CInv
<1>2. CallsTypeOK' /\ CallInv'
  BY <1>1 DEF RestartAll, CInv, CallsTypeOK, CallInv, IInv, Busy
<1> QED
  BY <1>1, <1>2 DEF CInv

LEMMA AllStutterCInv ==
  ASSUME CInv, UNCHANGED allVars
  PROVE  CInv'
<1>1. IInv'
  BY StutterIInv DEF allVars, CInv
<1>2. CallsTypeOK' /\ CallInv'
  BY <1>1 DEF allVars, vars, hub, CInv, CallsTypeOK, CallInv, IInv, Busy
<1> QED
  BY <1>1, <1>2 DEF CInv

LEMMA CallStepCInv ==
  ASSUME CInv, NEW c \in Clients, CallStep(c)
  PROVE  CInv'
BY LookCInv, DoneCInv, WalkCInv, RingCInv
   DEF CallStep, CallUser, Relay, AnswerBusy, Finish

\* It goes on holding with the calls, and so does what is known of each of them.
THEOREM CallsInvariance == CallsSpec => []CInv
<1>1. CallsInit => CInv
  BY InitIInv, CallsAssumption
     DEF CallsInit, CInv, CallsTypeOK, CallInv, Busy, IInv
<1>2. CInv /\ [CallsNext]_allVars => CInv'
  BY CallStepCInv, OtherCInv, RestartAllCInv, AllStutterCInv DEF CallsNext, Rest, allVars
<1> QED
  BY <1>1, <1>2, PTL DEF CallsSpec

\* The maps of the hub and the goroutines hold what their Go types allow.
THEOREM CallsTypeCorrect == CallsSpec => []CallsTypeOK
BY CallsInvariance, PTL DEF CInv

\* A socket in userSockets is one of a client that is in the hub under that user's id, for
\* any number of connections and users, and whatever they register.
THEOREM SocketsAreAlive == CallsSpec => []NoGhostSockets
BY CallsInvariance, PTL DEF CInv, IInv

\* Whoever is shown online is so, or the news that he has left is on its way, or it found the
\* client's buffer full, or he went over to another user id: there is no other cause.
THEOREM LeftOnlineHasCause == CallsSpec => []ShownOnlineIsOnline
BY CallsInvariance, PTL DEF CInv, IInv

\* A user with one connection is shown online to everyone else who has registered, unless
\* the last news of him found that client's buffer full.
THEOREM UsersAreShown == CallsSpec => []OnlineIsShown
BY CallsInvariance, PTL DEF CInv, IInv

\* The last unregister of a user leaves no peer id behind: get-peer-id answers for users who
\* are online, or went over to another user id, or whose peer id was stored while they had
\* no socket.
THEOREM LeftPeerHasCause == CallsSpec => []PeersAreOnline
BY CallsInvariance, PTL DEF CInv, IInv

\* A call reaches every socket that its user had all the while, or the user was without one
\* at some moment of it.
THEOREM CallsAreSettled == CallsSpec => CallIsSettled
<1>1. ASSUME CInv, CallsNext, NEW c \in Clients, Busy(c), ~Busy(c)', pc'[c] = "open"
      PROVE  call[c].vacant \/ call[c].steady \subseteq call[c].offered
  <2>1. ASSUME NEW d \in Clients, CallStep(d)
        PROVE  call[c].vacant \/ call[c].steady \subseteq call[c].offered
    <3>1. ASSUME NEW u \in Users, CallUser(d, u) \/ Relay(d, u) PROVE FALSE
      BY <1>1, <3>1 DEF CallUser, Relay, Look, Busy, CInv, CallsTypeOK
    <3>2. ASSUME AnswerBusy(d)
          PROVE  call[c].vacant \/ call[c].steady \subseteq call[c].offered
      <4>1. d = c
        BY <1>1, <3>2 DEF AnswerBusy, Busy, CInv, CallsTypeOK
      <4> QED
        BY <1>1, <3>2, <4>1 DEF AnswerBusy, UserIsBusy, Targets, CInv, CallInv
    <3>3. ASSUME Walk(d) PROVE FALSE
      <4>1. Busy(d)'
        BY <1>1, <3>3, WalkCInv
      <4> QED
        BY <1>1, <3>3, <4>1 DEF Walk, Busy, CInv, CallsTypeOK
    <3>4. ASSUME NEW f \in Clients, Ring(d, f) PROVE FALSE
      <4>1. Busy(d)'
        BY <1>1, <3>4, RingCInv
      <4> QED
        BY <1>1, <3>4, <4>1 DEF Ring, Busy, CInv, CallsTypeOK
    <3>5. ASSUME Finish(d)
          PROVE  call[c].vacant \/ call[c].steady \subseteq call[c].offered
      <4>1. d = c
        BY <1>1, <3>5 DEF Finish, Busy, CInv, CallsTypeOK
      <4> QED
        BY <1>1, <3>5, <4>1 DEF Finish, AllReached, CInv, CallInv
    <3> QED
      BY <2>1, <3>1, <3>2, <3>3, <3>4, <3>5 DEF CallStep
  <2>2. ASSUME NEW d \in Clients, Other(d) PROVE FALSE
    BY <1>1, <2>2, OtherCInv
  <2>3. ASSUME RestartAll PROVE FALSE
    BY <1>1, <2>3 DEF RestartAll, Restart
  <2>4. ASSUME UNCHANGED call PROVE FALSE
    BY <1>1, <2>4 DEF Busy
  <2> QED
    BY <1>1, <2>1, <2>2, <2>3, <2>4 DEF CallsNext
<1>2. CInv /\ [CallsNext]_allVars =>
        [\A c \in Clients : Busy(c) /\ ~Busy(c)' /\ pc'[c] = "open" =>
           \/ call[c].vacant
           \/ call[c].steady \subseteq call[c].offered]_allVars
  BY <1>1
<1> QED
  BY <1>2, CallsInvariance, PTL DEF CallsSpec, CallIsSettled

=============================================================================
