------------------------- MODULE CompositionProofs -------------------------
(***************************************************************************)
(* The components keep what they promise when they run together, and what  *)
(* follows for a message that a caller was answered: in Backend it reaches *)
(* the sockets in its chat, unless Redis or a full buffer drops it, and in *)
(* Reading it is found by whoever reads on.                                *)
(*                                                                         *)
(* Every step of the system is shown to be a step, or a stutter, of each   *)
(* component's own specification.  The theorems about the components then  *)
(* hold of the system, and what no component can promise alone follows     *)
(* from their invariants together with what the system records.            *)
(***************************************************************************)
EXTENDS Backend, Reading, SendMessageProofs

\* The theorems about the workers and the hub, for the variables of the system.
WorkingP == INSTANCE OutboxWorkerProofs WITH
  Messages <- 1 .. MaxCalls, stored <- DOMAIN messages, pc <- workerPc

HubP == INSTANCE RoomHubProofs WITH
  Messages <- Copies, Members <- Entitled, Disciplined <- TRUE, pc <- clientPc

\* What OutboxWorker takes of its constants holds of those of the system.
LEMMA WorkingAssumption ==
  ASSUME BackendAssumption
  PROVE  WorkingP!OutboxWorkerAssumption
<1>1. Events \subseteq Nat
  BY DEF Events
<1> QED
  BY <1>1 DEF BackendAssumption, WorkingP!OutboxWorkerAssumption, IsFiniteSet, WorkingP!IsFiniteSet

\* What RoomHub takes of its constants holds of those of the system.
LEMMA HubAssumption ==
  ASSUME BackendAssumption
  PROVE  HubP!RoomHubAssumption
BY DEF BackendAssumption, HubP!RoomHubAssumption, IsFiniteSet, HubP!IsFiniteSet, Entitled

\* The workers' invariant, and the hub's.
LEMMA WorkersTheorem ==
  ASSUME BackendAssumption
  PROVE  WorkingP!Spec => []WorkingP!IInv
BY WorkingAssumption, WorkingP!Invariance

LEMMA HubTheorem ==
  ASSUME BackendAssumption
  PROVE  HubP!Spec => []HubP!IInv
BY HubAssumption, HubP!Invariance

-----------------------------------------------------------------------------
(* The steps of the system are steps of those modules *)

\* The steps of a worker, its failures, and the end of a backoff.
LEMMA WorkIsWork ==
  ASSUME NEW w \in Workers
  PROVE  Working!Work(w) <=> WorkingP!Work(w)
<1>1. Working!Claim(w) <=> WorkingP!Claim(w)
  BY
  DEF Working!Claim, WorkingP!Claim, Working!Claimable, WorkingP!Claimable,
      Working!LockedByOther, WorkingP!LockedByOther, Working!FirstBatch, WorkingP!FirstBatch,
      Working!Cardinality, WorkingP!Cardinality, Working!rows, WorkingP!rows
<1>2. Working!EndClaim(w) <=> WorkingP!EndClaim(w)
  BY
  DEF Working!EndClaim, WorkingP!EndClaim, Working!rows, WorkingP!rows
<1>3. Working!Resolve(w) <=> WorkingP!Resolve(w)
  BY
  DEF Working!Resolve, WorkingP!Resolve, Working!Current, WorkingP!Current, Working!rows,
      WorkingP!rows
<1>4. Working!Publish(w) <=> WorkingP!Publish(w)
  BY
  DEF Working!Publish, WorkingP!Publish, Working!Current, WorkingP!Current, Working!rows,
      WorkingP!rows
<1>5. Working!MarkPublished(w) <=> WorkingP!MarkPublished(w)
  BY
  DEF Working!MarkPublished, WorkingP!MarkPublished, Working!Current, WorkingP!Current,
      Working!LockedByOther, WorkingP!LockedByOther, Working!NextEvent, WorkingP!NextEvent
<1>6. Working!MarkFailed(w) <=> WorkingP!MarkFailed(w)
  BY
  DEF Working!MarkFailed, WorkingP!MarkFailed, Working!Current, WorkingP!Current,
      Working!LockedByOther, WorkingP!LockedByOther, Working!NextEvent, WorkingP!NextEvent,
      Working!LastAttempt, WorkingP!LastAttempt
<1> QED
  BY <1>1, <1>2, <1>3, <1>4, <1>5, <1>6 DEF Working!Work, WorkingP!Work

LEMMA FaultIsFault ==
  ASSUME NEW w \in Workers
  PROVE  Working!FaultOf(w) <=> WorkingP!FaultOf(w)
<1>1. Working!CallFails(w) <=> WorkingP!CallFails(w)
  BY
  DEF Working!CallFails, WorkingP!CallFails, Working!Fault, WorkingP!Fault, Working!rows,
      WorkingP!rows
<1>2. Working!PublishUnacknowledged(w) <=> WorkingP!PublishUnacknowledged(w)
  BY
  DEF Working!PublishUnacknowledged, WorkingP!PublishUnacknowledged, Working!Fault,
      WorkingP!Fault, Working!Current, WorkingP!Current, Working!rows, WorkingP!rows
<1>3. Working!MarkLost(w) <=> WorkingP!MarkLost(w)
  BY
  DEF Working!MarkLost, WorkingP!MarkLost, Working!Fault, WorkingP!Fault, Working!Current,
      WorkingP!Current, Working!NextEvent, WorkingP!NextEvent, Working!rows, WorkingP!rows
<1>4. Working!Crash(w) <=> WorkingP!Crash(w)
  BY
  DEF Working!Crash, WorkingP!Crash, Working!Fault, WorkingP!Fault, Working!NoEvents,
      WorkingP!NoEvents, Working!rows, WorkingP!rows
<1> QED
  BY <1>1, <1>2, <1>3, <1>4 DEF Working!FaultOf, WorkingP!FaultOf

LEMMA BackoffIsBackoff ==
  ASSUME NEW e \in Events
  PROVE  Working!BackoffElapses(e) <=> WorkingP!BackoffElapses(e)
BY
  DEF Working!BackoffElapses, WorkingP!BackoffElapses, Working!workers, WorkingP!workers

\* The steps of a connection.
LEMMA HandledIsHandled ==
  ASSUME NEW c \in Clients
  PROVE  /\ Hub!Connect(c) <=> HubP!Connect(c)
         /\ Hub!Unregister(c) <=> HubP!Unregister(c)
         /\ Hub!Handle(c) <=> HubP!Handle(c)
         /\ Hub!Write(c) <=> HubP!Write(c)
         /\ \A r \in Chats : Hub!JoinRoom(c, r) <=> HubP!JoinRoom(c, r)
         /\ \A r \in Chats : Hub!LeaveRoom(c, r) <=> HubP!LeaveRoom(c, r)
<1>1. Hub!Connect(c) <=> HubP!Connect(c)
  BY
  DEF Hub!Connect, HubP!Connect, Hub!registry, HubP!registry, Hub!redis, HubP!redis,
      Hub!delivery, HubP!delivery
<1>2. Hub!Unregister(c) <=> HubP!Unregister(c)
  BY
  DEF Hub!Unregister, HubP!Unregister, Hub!RoomsOf, HubP!RoomsOf, Hub!redis, HubP!redis
<1>3. Hub!FinishJoin(c) <=> HubP!FinishJoin(c)
  BY
  DEF Hub!FinishJoin, HubP!FinishJoin, Hub!SubscribeToChat, HubP!SubscribeToChat, Hub!NewPump,
      HubP!NewPump, Hub!registry, HubP!registry, Hub!redis, HubP!redis, Hub!delivery, HubP!delivery
<1>4. Hub!FinishLeave(c) <=> HubP!FinishLeave(c)
  BY
  DEF Hub!FinishLeave, HubP!FinishLeave, Hub!UnsubscribeFromChat, HubP!UnsubscribeFromChat,
      Hub!registry, HubP!registry, Hub!redis, HubP!redis, Hub!delivery, HubP!delivery
<1>5. Hub!UnsubscribeRoom(c) <=> HubP!UnsubscribeRoom(c)
  BY
  DEF Hub!UnsubscribeRoom, HubP!UnsubscribeRoom, Hub!UnsubscribeFromChat,
      HubP!UnsubscribeFromChat, Hub!registry, HubP!registry, Hub!redis, HubP!redis,
      Hub!delivery, HubP!delivery
<1>6. Hub!FinishUnregister(c) <=> HubP!FinishUnregister(c)
  BY
  DEF Hub!FinishUnregister, HubP!FinishUnregister, Hub!redis, HubP!redis
<1>7. Hub!Write(c) <=> HubP!Write(c)
  BY
  DEF Hub!Write, HubP!Write, Hub!connections, HubP!connections, Hub!registry, HubP!registry,
      Hub!redis, HubP!redis
<1>8. \A r \in Chats : Hub!JoinRoom(c, r) <=> HubP!JoinRoom(c, r)
  BY
  DEF Hub!JoinRoom, HubP!JoinRoom, Hub!Cardinality, HubP!Cardinality, Hub!redis, HubP!redis,
      Hub!delivery, HubP!delivery
<1>9. \A r \in Chats : Hub!LeaveRoom(c, r) <=> HubP!LeaveRoom(c, r)
  BY
  DEF Hub!LeaveRoom, HubP!LeaveRoom, Hub!redis, HubP!redis
<1> QED
  BY <1>1, <1>2, <1>3, <1>4, <1>5, <1>6, <1>7, <1>8, <1>9 DEF Hub!Handle, HubP!Handle

\* The steps of Redis and of the pumps.
LEMMA PumpedIsPumped ==
  /\ \A m \in Copies, r \in Chats : Hub!Publish(m, r) <=> HubP!Publish(m, r)
  /\ \A p \in pumps : Hub!ClosePump(p) <=> HubP!ClosePump(p)
  /\ \A p \in pumps : Hub!Confirm(p) <=> HubP!Confirm(p)
  /\ \A p \in pumps : \A lost \in SUBSET p.queue : Hub!Lose(p, lost) <=> HubP!Lose(p, lost)
  /\ \A p \in pumps : \A m \in p.queue : Hub!Pump(p, m) <=> HubP!Pump(p, m)
<1>1. \A m \in Copies, r \in Chats : Hub!Publish(m, r) <=> HubP!Publish(m, r)
  BY
  DEF Hub!Publish, HubP!Publish, Hub!Unheard, HubP!Unheard, Hub!Owed, HubP!Owed, Hub!Settled,
      HubP!Settled, Hub!connections, HubP!connections, Hub!registry, HubP!registry, Hub!redis, HubP!redis
<1>2. \A p \in pumps : Hub!ClosePump(p) <=> HubP!ClosePump(p)
  BY
  DEF Hub!ClosePump, HubP!ClosePump, Hub!connections, HubP!connections, Hub!registry,
      HubP!registry, Hub!delivery, HubP!delivery
<1>3. \A p \in pumps : \A m \in p.queue : Hub!Pump(p, m) <=> HubP!Pump(p, m)
  BY
  DEF Hub!Pump, HubP!Pump, Hub!Reached, HubP!Reached, Hub!Full, HubP!Full, Hub!Cardinality,
      HubP!Cardinality, Hub!connections, HubP!connections, Hub!registry, HubP!registry,
      Hub!redis, HubP!redis
<1>4. \A p \in pumps : Hub!Confirm(p) <=> HubP!Confirm(p)
  BY
  DEF Hub!Confirm, HubP!Confirm, Hub!connections, HubP!connections, Hub!registry, HubP!registry,
      Hub!redis, HubP!redis, Hub!delivery, HubP!delivery
<1>5. \A p \in pumps : \A lost \in SUBSET p.queue : Hub!Lose(p, lost) <=> HubP!Lose(p, lost)
  BY
  DEF Hub!Lose, HubP!Lose, Hub!connections, HubP!connections, Hub!registry, HubP!registry,
      Hub!redis, HubP!redis
<1> QED
  BY <1>1, <1>2, <1>3, <1>4, <1>5

-----------------------------------------------------------------------------
(* The message service keeps its invariant while the workers change its outbox *)

\* What is left of the outbox after a step of the workers: everything but status, attempts
\* and due.
OnlyProgress ==
  /\ outbox' \in [DOMAIN outbox -> EventRow]
  /\ \A e \in DOMAIN outbox : outbox'[e].msg = outbox[e].msg /\ outbox'[e].chat = outbox[e].chat

\* No step of a worker touches more of the outbox than that.
LEMMA WorkIsProgress ==
  ASSUME outbox \in [DOMAIN outbox -> EventRow],
         \/ \E w \in Workers : Working!Work(w) \/ Working!FaultOf(w)
         \/ \E e \in Events : Working!BackoffElapses(e)
  PROVE  OnlyProgress
<1>1. CASE outbox' = outbox
  BY <1>1 DEF OnlyProgress
<1>2. ASSUME NEW w \in Workers, Working!MarkPublished(w) \/ Working!MarkFailed(w)
      PROVE  OnlyProgress
  <2>1. CASE Working!MarkPublished(w)
    <3>1. PICK e : outbox' = [outbox EXCEPT ![e].status = "published", ![e].due = TRUE]
      BY <2>1 DEF Working!MarkPublished
    <3> QED
      BY <3>1 DEF OnlyProgress, EventRow
  <2>2. CASE Working!MarkFailed(w)
    <3>1. PICK e : outbox' = [outbox EXCEPT
            ![e].status = IF Working!LastAttempt(claimed[w][e]) THEN "failed" ELSE @,
            ![e].attempts = @ + 1,
            ![e].due = FALSE]
      BY <2>2 DEF Working!MarkFailed
    <3>2. CASE e \notin DOMAIN outbox
      BY <3>1, <3>2 DEF OnlyProgress
    <3>3. CASE e \in DOMAIN outbox
      <4>1. outbox[e] \in EventRow
        BY <3>3
      <4>2. /\ DOMAIN outbox' = DOMAIN outbox
            /\ \A f \in DOMAIN outbox : f # e => outbox'[f] = outbox[f]
            /\ outbox'[e] = [outbox[e] EXCEPT
                 !.status = IF Working!LastAttempt(claimed[w][e]) THEN "failed" ELSE @,
                 !.attempts = @ + 1,
                 !.due = FALSE]
        BY <3>1, <3>3
      <4> DEFINE st == IF Working!LastAttempt(claimed[w][e]) THEN "failed" ELSE outbox[e].status
      <4>3. st \in {"pending", "published", "failed"} /\ outbox[e].attempts + 1 \in Nat
        BY <4>1 DEF EventRow
      <4>4. outbox'[e] = [outbox[e] EXCEPT !.status = st, !.attempts = outbox[e].attempts + 1,
                                           !.due = FALSE]
        BY <4>2
      <4> HIDE DEF st
      <4>5. /\ outbox'[e] \in EventRow
            /\ outbox'[e].msg = outbox[e].msg /\ outbox'[e].chat = outbox[e].chat
        BY <4>1, <4>3, <4>4 DEF EventRow
      <4>6. outbox' = [f \in DOMAIN outbox |-> outbox'[f]]
        BY <3>1
      <4> QED
        BY <4>2, <4>5, <4>6 DEF OnlyProgress
    <3> QED
      BY <3>2, <3>3
  <2> QED
    BY <1>2, <2>1, <2>2
<1>3. ASSUME NEW e \in Events, Working!BackoffElapses(e)
      PROVE  OnlyProgress
  <2>1. e \in DOMAIN outbox /\ outbox' = [outbox EXCEPT ![e].due = TRUE]
    BY <1>3 DEF Working!BackoffElapses
  <2> QED
    BY <2>1 DEF OnlyProgress, EventRow
<1>4. ASSUME NEW w \in Workers,
             Working!Work(w) \/ Working!FaultOf(w), ~Working!MarkPublished(w), ~Working!MarkFailed(w)
      PROVE  outbox' = outbox
  BY <1>4 DEF Working!Work, Working!FaultOf, Working!Claim, Working!EndClaim, Working!Resolve,
              Working!Publish, Working!CallFails, Working!PublishUnacknowledged,
              Working!MarkLost, Working!Crash, Working!rows
<1> QED
  BY <1>1, <1>2, <1>3, <1>4

\* And that much is nothing to the message service.
LEMMA ProgressKeepsSender ==
  ASSUME IInv, DrawsBounded, UNCHANGED senderVars, OnlyProgress
  PROVE  IInv' /\ DrawsBounded'
<1>1. DOMAIN outbox' = DOMAIN outbox
  BY DEF OnlyProgress
<1>2. UNCHANGED <<Writers, Enqueued, Answers>>
  BY DEF senderVars, Writers, Enqueued, Answers, Answer
<1>3. TypeOK'
  BY <1>1 DEF IInv, TypeOK, senderVars, OnlyProgress
<1>4. FreshSeq' /\ FreshEvent'
  BY <1>1, <1>2 DEF IInv, FreshSeq, FreshEvent, senderVars, OnlyProgress
<1>5. TransactionalOutbox'
  BY <1>1 DEF IInv, TransactionalOutbox, senderVars, OnlyProgress
<1>6. Begun' /\ KeyExclusive' /\ ChatsExist' /\ UniqueClientId'
  BY <1>2 DEF IInv, Begun, KeyExclusive, StoredUnder, ChatsExist, UniqueClientId, senderVars
<1>7. AnswersStored' /\ AnswersConsistent'
  BY <1>2 DEF IInv, AnswersStored, AnswersConsistent, senderVars
<1>8. DrawsBounded'
  BY DEF DrawsBounded, BeforeInsert, BeforeEnqueue, senderVars
<1> QED
  BY <1>3, <1>4, <1>5, <1>6, <1>7, <1>8 DEF IInv

\* A step of the system is a step of the message service, or one of the workers, or leaves
\* its variables alone.
LEMMA SenderStep ==
  ASSUME [SystemNext]_systemVars
  PROVE  \/ Sends
         \/ /\ UNCHANGED senderVars
            /\ \/ \E w \in Workers : Working!Work(w) \/ Working!FaultOf(w)
               \/ \E e \in Events : Working!BackoffElapses(e)
         \/ UNCHANGED vars
<1>1. ASSUME NEW e \in Events, Publishes(e)
      PROVE  UNCHANGED senderVars /\ \E w \in Workers : Working!Work(w) \/ Working!FaultOf(w)
  BY <1>1 DEF Publishes, Working!Work, Working!FaultOf
<1> QED
  BY <1>1 DEF SystemNext, Works, Handles, Joins, Loses, Pumps, Writes, systemVars

\* So the message service keeps its invariant.
THEOREM SenderInvariance == SystemSpec => [](IInv /\ DrawsBounded)
<1>1. SystemInit => IInv /\ DrawsBounded
  BY InitIInv, InitDrawsBounded DEF SystemInit
<1>2. IInv /\ DrawsBounded /\ [SystemNext]_systemVars => IInv' /\ DrawsBounded'
  <2> SUFFICES ASSUME IInv, DrawsBounded, [SystemNext]_systemVars
               PROVE  IInv' /\ DrawsBounded'
    OBVIOUS
  <2>1. CASE Sends \/ UNCHANGED vars
    BY <2>1, StepIInv, StepDrawsBounded DEF Sends
  <2>2. CASE /\ UNCHANGED senderVars
             /\ \/ \E w \in Workers : Working!Work(w) \/ Working!FaultOf(w)
                \/ \E e \in Events : Working!BackoffElapses(e)
    BY <2>2, WorkIsProgress, ProgressKeepsSender DEF IInv, TypeOK
  <2> QED
    BY <2>1, <2>2, SenderStep
<1> QED
  BY <1>1, <1>2, PTL DEF SystemSpec

-----------------------------------------------------------------------------
(* The workers run as OutboxWorker says *)

\* What SendMessage does to an outbox without workers it does to one with workers.
LEMMA FeedsWorkers ==
  ASSUME [Feed!Next]_(Feed!vars), UNCHANGED workerVars
  PROVE  [WorkingP!Next]_(WorkingP!vars)
<1>1. ASSUME NEW e \in Events, NEW m \in 1 .. MaxCalls, NEW c \in Chats, Feed!CommitEvent(e, m, c)
      PROVE  WorkingP!CommitEvent(e, m, c)
  BY <1>1 DEF Feed!CommitEvent, WorkingP!CommitEvent, WorkingP!workers, workerVars
<1>2. ASSUME NEW c \in Chats, Feed!DeleteChat(c)
      PROVE  WorkingP!DeleteChat(c)
  BY <1>2 DEF Feed!DeleteChat, WorkingP!DeleteChat, WorkingP!workers, workerVars
<1>3. ASSUME NEW e \in Events, Feed!BackoffElapses(e)
      PROVE  WorkingP!BackoffElapses(e)
  BY <1>3 DEF Feed!BackoffElapses, WorkingP!BackoffElapses, WorkingP!workers, workerVars
<1>4. CASE UNCHANGED Feed!vars
  BY <1>4 DEF Feed!vars, Feed!rows, WorkingP!vars, WorkingP!rows, WorkingP!workers, workerVars
<1> QED
  BY <1>1, <1>2, <1>3, <1>4 DEF Feed!Next, Feed!Rest, WorkingP!Next, Events

\* Every step of the system is one of OutboxWorker, or nothing to it.
LEMMA WorkersStep ==
  ASSUME IInv, DrawsBounded, [SystemNext]_systemVars
  PROVE  [WorkingP!Next]_(WorkingP!vars)
<1>1. CASE Sends
  BY <1>1, StepFeeds, FeedsWorkers DEF Sends
<1>2. CASE \/ \E w \in Workers : Working!Work(w) \/ Working!FaultOf(w)
           \/ \E e \in Events : Working!BackoffElapses(e)
  BY <1>2, WorkIsWork, FaultIsFault, BackoffIsBackoff DEF WorkingP!Next
<1>3. CASE UNCHANGED <<vars, workerVars>>
  BY <1>3 DEF vars, tables, workerVars, WorkingP!vars, WorkingP!rows, WorkingP!workers
<1>4. ASSUME NEW e \in Events, Publishes(e)
      PROVE  \E w \in Workers : Working!Work(w) \/ Working!FaultOf(w)
  BY <1>4 DEF Publishes, Working!Work, Working!FaultOf
<1> QED
  BY <1>1, <1>2, <1>3, <1>4 DEF SystemNext, Works, Handles, Joins, Loses, Pumps, Writes, systemVars

\* The workers of the system are those of OutboxWorker: neither the message service nor the
\* hub does anything to the outbox that OutboxWorker does not know of.
THEOREM WorkersInvariance ==
  ASSUME BackendAssumption
  PROVE  SystemSpec => WorkingP!Spec /\ []WorkingP!IInv
<1>1. SystemInit => WorkingP!Init
  BY DEF SystemInit, Working!Init, WorkingP!Init, Working!NoEvents, WorkingP!NoEvents
<1>2. IInv /\ DrawsBounded /\ [SystemNext]_systemVars => [WorkingP!Next]_(WorkingP!vars)
  BY WorkersStep
<1>3. WorkingP!Spec => []WorkingP!IInv
  BY WorkersTheorem
<1> QED
  BY <1>1, <1>2, <1>3, SenderInvariance, PTL DEF SystemSpec, WorkingP!Spec

-----------------------------------------------------------------------------
(* What the readers of a chat see of the system *)

\* The workers and the hub do nothing to the messages of a chat: what readers may rely on
\* in MessageLog holds of the whole system.
THEOREM SystemIsMessageLog ==
  SystemSpec => [][\A c \in Chats : [LogOf(c)!Next]_(LogOf(c)!vars)]_systemVars
<1>1. IInv /\ [SystemNext]_systemVars => \A c \in Chats : [LogOf(c)!Next]_(LogOf(c)!vars)
  <2> SUFFICES ASSUME IInv, [SystemNext]_systemVars, NEW c \in Chats
               PROVE  [LogOf(c)!Next]_(LogOf(c)!vars)
    OBVIOUS
  <2>1. CASE Sends
    BY <2>1, StepLog DEF Sends
  <2>2. CASE UNCHANGED senderVars
    BY <2>2 DEF senderVars, LogOf!vars, Writers
  <2>3. UNCHANGED vars => UNCHANGED senderVars
    BY DEF vars, tables, senderVars
  <2> QED
    BY <2>1, <2>2, <2>3, SenderStep
<1> QED
  BY <1>1, SenderInvariance, PTL DEF SystemSpec

-----------------------------------------------------------------------------
(* The hub runs as RoomHub says *)

\* A publication is the next copy of one event in the outbox.
LEMMA PublishesNext ==
  ASSUME BackendAssumption, WorkingP!IInv, NEW e \in Events, Publishes(e)
  PROVE  /\ e \in DOMAIN outbox /\ outbox[e].chat \in Chats
         /\ published[e] \in Nat
         /\ published' = [published EXCEPT ![e] = published[e] + 1]
         /\ UNCHANGED <<outbox, messages>>
<1>1. PICK w \in Workers : \E f \in DOMAIN claimed[w] :
        published' = [published EXCEPT ![f] = published[f] + 1] /\ outbox' = outbox
  BY DEF Publishes, Working!Publish, Working!PublishUnacknowledged, Working!rows
<1>2. PICK f \in DOMAIN claimed[w] :
        published' = [published EXCEPT ![f] = published[f] + 1] /\ outbox' = outbox
  BY <1>1
<1>3. /\ published \in [Events -> Nat]
      /\ f \in DOMAIN outbox /\ outbox \in [DOMAIN outbox -> WorkingP!EventRow]
  BY DEF WorkingP!IInv, WorkingP!TypeOK
<1>4. published'[e] > published[e]
  BY DEF Publishes
<1>5. e = f
  BY <1>2, <1>3, <1>4
<1> QED
  BY <1>2, <1>3, <1>5 DEF Publishes, senderVars, WorkingP!EventRow

\* Every step of the system is one of RoomHub, or nothing to it.
LEMMA HubStep ==
  ASSUME BackendAssumption, WorkingP!IInv, [SystemNext]_systemVars
  PROVE  [HubP!Next]_(HubP!vars)
<1>1. ASSUME NEW e \in Events, Publishes(e)
      PROVE  HubP!Next
  <2>1. outbox[e].chat \in Chats /\ <<e, published'[e]>> \in Copies
    BY <1>1, PublishesNext DEF Copies, WorkingP!IInv, WorkingP!TypeOK
  <2> QED
    BY <1>1, <2>1, PumpedIsPumped DEF Publishes, HubP!Next
<1>2. CASE Handles
  BY <1>2, HandledIsHandled, PumpedIsPumped DEF Handles, HubP!Next
<1>3. ASSUME NEW c \in Clients, NEW r \in Chats, Joins(c, r)
      PROVE  HubP!Next
  BY <1>3, HandledIsHandled DEF Joins, HubP!Next
<1>4. ASSUME NEW p \in pumps, NEW m \in p.queue, Pumps(p, m)
      PROVE  HubP!Next
  BY <1>4, PumpedIsPumped DEF Pumps, HubP!Next
<1>5. ASSUME NEW c \in Clients, Writes(c)
      PROVE  HubP!Next
  BY <1>5, HandledIsHandled DEF Writes, HubP!Next
<1>6. CASE UNCHANGED hubVars
  BY <1>6 DEF hubVars, HubP!vars, HubP!connections, HubP!registry, HubP!redis, HubP!delivery
<1>7. ASSUME NEW p \in pumps, NEW lost \in SUBSET p.queue, Loses(p, lost)
      PROVE  HubP!Next
  BY <1>7, PumpedIsPumped DEF Loses, HubP!Next
<1> QED
  BY <1>1, <1>2, <1>3, <1>4, <1>5, <1>6, <1>7 DEF SystemNext, Sends, Works, systemVars

\* The hub of the system is that of RoomHub: the workers publish nothing but messages of
\* existing chats, each copy once.
THEOREM HubInvariance ==
  ASSUME BackendAssumption
  PROVE  SystemSpec => HubP!Spec /\ []HubP!IInv
<1>1. SystemInit => HubP!Init
  BY DEF SystemInit, Hub!Init, HubP!Init
<1>2. WorkingP!IInv /\ [SystemNext]_systemVars => [HubP!Next]_(HubP!vars)
  BY HubStep
<1>3. HubP!Spec => []HubP!IInv
  BY HubTheorem
<1> QED
  BY <1>1, <1>2, <1>3, WorkersInvariance, PTL DEF SystemSpec, HubP!Spec

-----------------------------------------------------------------------------
(* Redis takes every publication *)

\* Of each event at most as many copies are with the hub as were published.
CopiesCounted ==
  /\ redisEnabled
  /\ \A s \in sent : s[1] \in Copies /\ s[1][2] <= published[s[1][1]]

\* Only the publication of an event adds a copy, the next one.
LEMMA StepCopiesCounted ==
  ASSUME BackendAssumption, WorkingP!IInv, CopiesCounted, [SystemNext]_systemVars
  PROVE  CopiesCounted'
<1>1. ASSUME NEW e \in Events, Publishes(e)
      PROVE  CopiesCounted'
  <2>1. /\ published[e] \in Nat /\ published \in [Events -> Nat]
        /\ published' = [published EXCEPT ![e] = published[e] + 1]
    BY <1>1, PublishesNext DEF WorkingP!IInv, WorkingP!TypeOK
  <2>2. /\ sent' = sent \cup {<<<<e, published'[e]>>, outbox[e].chat>>}
        /\ redisEnabled' = redisEnabled
    BY <1>1 DEF Publishes, Hub!Publish
  <2> QED
    BY <2>1, <2>2 DEF CopiesCounted, Copies
<1>2. CASE UNCHANGED <<redisEnabled, sent, published>>
  BY <1>2 DEF CopiesCounted
<1>3. Handles => UNCHANGED <<redisEnabled, sent, published>>
  BY DEF Handles, workerVars, Hub!Connect, Hub!Unregister, Hub!LeaveRoom, Hub!ClosePump,
         Hub!Confirm, Hub!Handle, Hub!FinishJoin, Hub!FinishLeave, Hub!UnsubscribeRoom,
         Hub!FinishUnregister, Hub!delivery
<1> QED
  BY <1>1, <1>2, <1>3 DEF SystemNext, Sends, Works, Joins, Loses, Pumps, Writes, systemVars,
     workerVars, hubVars, Hub!Lose, Hub!JoinRoom, Hub!Pump, Hub!Write, Hub!delivery

\* That the workers and the hub share the PUBLISH keeps no worker from publishing.
THEOREM PublicationsAreTaken ==
  ASSUME BackendAssumption
  PROVE  SystemSpec => []EveryPublicationIsNew
<1>1. SystemInit => CopiesCounted
  BY DEF SystemInit, Hub!Init, CopiesCounted
<1>2. WorkingP!IInv /\ CopiesCounted /\ [SystemNext]_systemVars => CopiesCounted'
  BY StepCopiesCounted
<1>3. WorkingP!IInv /\ CopiesCounted => EveryPublicationIsNew
  BY DEF CopiesCounted, EveryPublicationIsNew, Copies, WorkingP!IInv, WorkingP!TypeOK
<1> QED
  BY <1>1, <1>2, <1>3, WorkersInvariance, PTL DEF SystemSpec

-----------------------------------------------------------------------------
(* What is due is owed, until it is written or known to be lost *)

Settled(d) == HubP!Settled(d[1], d[2])

\* The n-th copy of what is due to a client.
Accounted(d, n) ==
  \/ <<d[1], d[2], <<d[3], n>>>> \in owed
  \/ <<d[1], <<d[3], n>>>> \in written \cup dropped
  \/ <<d[3], n>> \in unheard

DueSound ==
  \A d \in due :
    /\ d \in Clients \X Chats \X DOMAIN outbox
    /\ outbox[d[3]].chat = d[2]
    /\ Settled(d)
    /\ \A n \in 1 .. published[d[3]] : Accounted(d, n)

\* A copy stays accounted for as long as the client stays settled.
LEMMA AccountedStays ==
  ASSUME HubP!IInv, [SystemNext]_systemVars,
         NEW d \in Clients \X Chats \X Events, NEW n \in Nat, Accounted(d, n), Settled(d)'
  PROVE  Accounted(d, n)'
<1> DEFINE o == <<d[1], d[2], <<d[3], n>>>>
           copy == <<d[1], <<d[3], n>>>>
<1>1. o[1] = d[1] /\ o[2] = d[2] /\ o[3] = <<d[3], n>>
  OBVIOUS
<1>2. written \cup dropped \subseteq written' \cup dropped' /\ unheard \subseteq unheard'
  BY DEF SystemNext, Sends, Works, Publishes, Handles, Joins, Loses, Pumps, Writes, systemVars
<1>3. CASE copy \in written \cup dropped \/ <<d[3], n>> \in unheard
  BY <1>2, <1>3 DEF Accounted
<1> SUFFICES ASSUME o \in owed
             PROVE  \/ o \in owed' \/ copy \in written' \cup dropped'
                    \/ <<d[3], n>> \in unheard'
  BY <1>3 DEF Accounted
<1>4. d[1] \in rooms'[d[2]]
  BY DEF Settled, HubP!Settled
<1>5. rooms \in [Chats -> SUBSET Clients]
  BY DEF HubP!IInv, HubP!TypeOK
<1>6. CASE UNCHANGED owed
  BY <1>6
<1>7. ASSUME NEW e \in Events, Publishes(e)
      PROVE  o \in owed'
  BY <1>7 DEF Publishes, Hub!Publish, Hub!Owed
<1>8. ASSUME NEW c \in Clients, Hub!Unregister(c)
      PROVE  o \in owed'
  <2>1. owed' = {x \in owed : x[1] # c}
    BY <1>8 DEF Hub!Unregister
  <2>2. rooms'[d[2]] = IF d[2] \in joined[c] THEN rooms[d[2]] \ {c} ELSE rooms[d[2]]
    BY <1>8 DEF Hub!Unregister
  <2>3. c \in rooms[d[2]] => d[2] \in joined[c]
    BY DEF HubP!IInv, HubP!Places
  <2> QED
    BY <1>1, <1>4, <2>1, <2>2, <2>3
<1>9. ASSUME NEW c \in Clients, NEW r \in Chats, Hub!LeaveRoom(c, r)
      PROVE  o \in owed'
  <2>1. /\ owed' = {x \in owed : x[1] # c \/ x[2] # r}
        /\ rooms' = [rooms EXCEPT ![r] = @ \ {c}]
    BY <1>9 DEF Hub!LeaveRoom
  <2>2. ~(d[1] = c /\ d[2] = r)
    BY <1>4, <1>5, <2>1
  <2> QED
    BY <1>1, <2>1, <2>2
<1>10. ASSUME NEW p \in pumps, NEW m \in p.queue, Pumps(p, m)
       PROVE  o \in owed' \/ copy \in dropped'
  <2>1. /\ owed' = {x \in owed : ~(x[1] \in Hub!Full(p.chat) /\ x[2] = p.chat /\ x[3] = m)}
        /\ dropped' = dropped \cup (Hub!Full(p.chat) \X {m})
    BY <1>10 DEF Pumps, Hub!Pump
  <2> QED
    BY <1>1, <2>1
<1>11. ASSUME NEW c \in Clients, Writes(c)
       PROVE  o \in owed' \/ copy \in written'
  <2>1. PICK m \in buffer[c] :
          /\ buffer' = [buffer EXCEPT ![c] = @ \ {m}]
          /\ owed' = {x \in owed : ~(x[1] = c /\ x[3] = m)}
    BY <1>11 DEF Writes, Hub!Write
  <2>2. written' = written \cup ({c} \X (buffer[c] \ buffer'[c]))
    BY <1>11 DEF Writes
  <2>3. m \in buffer[c] \ buffer'[c]
    BY <2>1 DEF HubP!IInv, HubP!TypeOK
  <2> QED
    BY <1>1, <2>1, <2>2, <2>3
<1>12. Handles => \/ UNCHANGED owed
                  \/ \E c \in Clients : Hub!Unregister(c) \/ \E r \in Chats : Hub!LeaveRoom(c, r)
  BY DEF Handles, Hub!Connect, Hub!ClosePump, Hub!Confirm, Hub!Handle, Hub!FinishJoin,
         Hub!FinishLeave, Hub!UnsubscribeRoom, Hub!FinishUnregister, Hub!delivery
<1>13. Sends \/ Works \/ UNCHANGED systemVars => UNCHANGED owed
  BY DEF Sends, Works, systemVars, hubVars
<1>14. ASSUME NEW c \in Clients, NEW r \in Chats, Joins(c, r) PROVE UNCHANGED owed
  BY <1>14 DEF Joins, Hub!JoinRoom, Hub!delivery
<1>15. ASSUME NEW p \in pumps, NEW lost \in SUBSET p.queue, Loses(p, lost)
       PROVE  o \in owed' \/ <<d[3], n>> \in unheard'
  <2>1. /\ owed' = {x \in owed : ~(p.id = subs[p.chat] /\ x[2] = p.chat /\ x[3] \in lost)}
        /\ unheard' = IF p.id = subs[p.chat] THEN unheard \cup lost ELSE unheard
    BY <1>15 DEF Loses, Hub!Lose
  <2> QED
    BY <1>1, <2>1
<1> QED
  BY <1>6, <1>7, <1>8, <1>9, <1>10, <1>11, <1>12, <1>13, <1>14, <1>15 DEF SystemNext

\* The rows of the outbox stay, and only a step of the message service adds one.
LEMMA RowsStay ==
  ASSUME IInv, DrawsBounded, [SystemNext]_systemVars
  PROVE  /\ \A e \in DOMAIN outbox : e \in DOMAIN outbox' /\ outbox'[e].chat = outbox[e].chat
         /\ Sends \/ DOMAIN outbox' = DOMAIN outbox
<1>1. outbox \in [DOMAIN outbox -> EventRow]
  BY DEF IInv, TypeOK
<1>2. CASE UNCHANGED vars
  BY <1>2 DEF vars, tables
<1>3. CASE \/ \E w \in Workers : Working!Work(w) \/ Working!FaultOf(w)
           \/ \E e \in Events : Working!BackoffElapses(e)
  BY <1>1, <1>3, WorkIsProgress DEF OnlyProgress
<1>4. CASE Sends
  <2>1. [Feed!Next]_(Feed!vars)
    BY <1>4, StepFeeds DEF Sends
  <2>2. ASSUME NEW e \in Events, NEW m \in 1 .. MaxCalls, NEW c \in Chats, Feed!CommitEvent(e, m, c)
        PROVE  \A f \in DOMAIN outbox : f \in DOMAIN outbox' /\ outbox'[f].chat = outbox[f].chat
    BY <2>2 DEF Feed!CommitEvent
  <2>3. CASE outbox' = outbox
    BY <2>3
  <2>4. ASSUME NEW e \in Events, Feed!BackoffElapses(e)
        PROVE  \A f \in DOMAIN outbox : f \in DOMAIN outbox' /\ outbox'[f].chat = outbox[f].chat
    <3>1. e \in DOMAIN outbox /\ outbox' = [outbox EXCEPT ![e].due = TRUE]
      BY <2>4 DEF Feed!BackoffElapses
    <3> QED
      BY <1>1, <3>1 DEF EventRow
  <2> QED
    BY <1>4, <2>1, <2>2, <2>3, <2>4
    DEF Feed!Next, Feed!DeleteChat, Feed!Rest, Feed!vars, Feed!rows, Events
<1> QED
  BY <1>2, <1>3, <1>4, SenderStep

\* What is due stays due, and each publication is owed to those it is due to.
LEMMA StepDueSound ==
  ASSUME BackendAssumption, IInv, DrawsBounded, WorkingP!IInv, WorkingP!IInv', HubP!IInv,
         DueSound, [SystemNext]_systemVars
  PROVE  DueSound'
<1>1. CASE UNCHANGED systemVars
  BY <1>1 DEF DueSound, Settled, HubP!Settled, Accounted, systemVars, vars, tables, workerVars,
              hubVars
<1> SUFFICES ASSUME SystemNext, NEW d \in due'
             PROVE  /\ d \in Clients \X Chats \X DOMAIN outbox'
                    /\ outbox'[d[3]].chat = d[2]
                    /\ Settled(d)'
                    /\ \A n \in 1 .. published'[d[3]] : Accounted(d, n)'
  BY <1>1 DEF DueSound
<1>2. d \in StillDue \/ d \in NewlyDue
  BY DEF SystemNext
<1>3. /\ published \in [Events -> Nat] /\ published' \in [Events -> Nat]
      /\ DOMAIN outbox \subseteq Events /\ DOMAIN outbox' \subseteq Events
  BY DEF WorkingP!IInv, WorkingP!TypeOK
<1>4. CASE d \in NewlyDue
  <2>1. /\ d \in Clients \X Chats \X (DOMAIN outbox' \ DOMAIN outbox)
        /\ outbox'[d[3]].chat = d[2] /\ Hub!Settled(d[1], d[2])
    BY <1>4 DEF NewlyDue
  <2>2. Sends
    BY <2>1, RowsStay
  <2>3. UNCHANGED <<rooms, clientPc, at, published>>
    BY <2>2 DEF Sends, workerVars, hubVars
  <2>4. Settled(d)'
    BY <2>1, <2>3 DEF Settled, HubP!Settled, Hub!Settled
  <2>5. d[3] \in Events \ DOMAIN outbox
    BY <1>3, <2>1
  <2>6. published'[d[3]] = 0
    BY <2>3, <2>5 DEF WorkingP!IInv, WorkingP!NothingEarly
  <2> QED
    BY <2>1, <2>4, <2>6
<1>5. CASE d \in StillDue
  <2>1. d \in due /\ Settled(d)'
    BY <1>5 DEF StillDue, Settled, Hub!Settled, HubP!Settled
  <2>2. /\ d \in Clients \X Chats \X DOMAIN outbox
        /\ outbox[d[3]].chat = d[2]
        /\ Settled(d)
        /\ \A n \in 1 .. published[d[3]] : Accounted(d, n)
    BY <2>1 DEF DueSound
  <2>3. d \in Clients \X Chats \X DOMAIN outbox' /\ outbox'[d[3]].chat = d[2]
    BY <2>2, RowsStay
  <2>4. d \in Clients \X Chats \X Events
    BY <1>3, <2>2
  <2>5. \A n \in 1 .. published[d[3]] : Accounted(d, n)'
    BY <2>1, <2>2, <2>4, AccountedStays
  <2>6. ASSUME NEW n \in 1 .. published'[d[3]], n \notin 1 .. published[d[3]]
        PROVE  Accounted(d, n)'
    <3>1. PICK e \in Events : Publishes(e)
      <4>1. published' # published
        BY <1>3, <2>4, <2>6
      <4> QED
        BY <4>1 DEF SystemNext, Sends, Works, Handles, Joins, Loses, Pumps, Writes, workerVars
    <3>2. /\ published[e] \in Nat
          /\ published' = [published EXCEPT ![e] = published[e] + 1]
      BY <3>1, PublishesNext
    <3>3. d[3] = e /\ n = published'[e]
      BY <1>3, <2>4, <2>6, <3>2
    <3>4. \/ <<e, published'[e]>> \in unheard'
          \/ owed' = owed \cup {<<c, outbox[e].chat, <<e, published'[e]>>>> :
                                  c \in {x \in Clients : Hub!Settled(x, outbox[e].chat)}}
      BY <3>1 DEF Publishes, Hub!Publish, Hub!Owed
    <3>5. Hub!Settled(d[1], outbox[e].chat)
      BY <2>2, <3>3 DEF Settled, HubP!Settled, Hub!Settled
    <3> QED
      BY <2>2, <3>3, <3>4, <3>5 DEF Accounted
  <2> QED
    BY <2>1, <2>3, <2>5, <2>6
<1> QED
  BY <1>2, <1>4, <1>5

\* What was committed while a client was in the room reaches it, by the promises of the three
\* components together.
LEMMA Together ==
  ASSUME IInv, WorkingP!IInv, WorkingP!NoSilentLoss, HubP!IInv, DueSound
  PROVE  AnsweredReachesOccupants
<1> SUFFICES ASSUME NEW a \in replies, a.chat \in chats
             PROVE  \E e \in DOMAIN outbox :
      /\ outbox[e].msg = a.seq
      /\ \/ outbox[e].status = "pending"
         \/ outbox[e].status = "failed" /\ faults >= MaxAttempts
         \/ /\ outbox[e].status = "published" /\ published[e] > 0
            /\ \A c \in Clients : <<c, a.chat, e>> \in due =>
                 \A n \in 1 .. published[e] : Reaches(e, n, c, a.chat)
  BY DEF AnsweredReachesOccupants
<1>1. a.seq \in DOMAIN messages /\ messages[a.seq].chat = a.chat
  BY DEF IInv, AnswersStored, Answers
<1>2. PICK e \in DOMAIN outbox : outbox[e].msg = a.seq
  BY <1>1 DEF IInv, TransactionalOutbox
<1>3. /\ outbox[e].status \in {"pending", "published", "failed"}
      /\ e \in Events /\ published[e] \in Nat
  <2>1. outbox[e] \in EventRow
    BY DEF IInv, TypeOK
  <2>2. e \in Events /\ published \in [Events -> Nat]
    BY DEF WorkingP!IInv, WorkingP!TypeOK
  <2> QED
    BY <2>1, <2>2 DEF EventRow
<1>4. /\ outbox[e].status = "published" => published[e] > 0
      /\ outbox[e].status = "failed" => faults >= MaxAttempts
  BY <1>1, <1>2 DEF WorkingP!NoSilentLoss
<1>5. ASSUME NEW c \in Clients, <<c, a.chat, e>> \in due, NEW n \in 1 .. published[e]
      PROVE  Reaches(e, n, c, a.chat)
  <2> DEFINE d == <<c, a.chat, e>>
  <2>1. Accounted(d, n) /\ d \in Clients \X Chats \X DOMAIN outbox
    BY <1>5 DEF DueSound
  <2>2. \/ <<c, a.chat, <<e, n>>>> \in owed
        \/ <<c, <<e, n>>>> \in written \cup dropped \/ <<e, n>> \in unheard
    BY <2>1 DEF Accounted
  <2>3. <<e, n>> \in Copies /\ a.chat \in Chats
    BY <1>3, <2>1 DEF Copies
  <2>4. CASE <<c, a.chat, <<e, n>>>> \in owed
    BY <2>3, <2>4 DEF HubP!IInv, HubP!OccupantsMissNothing, Reaches
  <2> QED
    BY <2>2, <2>4 DEF Reaches
<1> QED
  BY <1>2, <1>3, <1>4, <1>5

\* An answered message still waits, or was given up after real failures, or was published.
\* Then every copy reaches every client that has been in the room since the commit, unless
\* it is lost where only one delivery is tried: between Redis and the hub's subscription, or
\* at the client's full buffer.  No third way to lose it exists, for any number of handlers,
\* workers, connections, chats, calls, failures and deletions.
THEOREM AnsweredMessagesReachOccupants ==
  ASSUME BackendAssumption
  PROVE  SystemSpec => []AnsweredReachesOccupants
<1>1. SystemInit => DueSound
  BY DEF SystemInit, DueSound
<1>2. /\ IInv /\ DrawsBounded /\ WorkingP!IInv /\ WorkingP!IInv' /\ HubP!IInv
      /\ DueSound /\ [SystemNext]_systemVars
      => DueSound'
  BY StepDueSound
<1>3. IInv /\ WorkingP!IInv /\ WorkingP!NoSilentLoss /\ HubP!IInv /\ DueSound
      => AnsweredReachesOccupants
  BY Together
<1>4. WorkingP!Spec => []WorkingP!NoSilentLoss
  BY WorkingAssumption, WorkingP!NothingIsLostSilently
<1> QED
  BY <1>1, <1>2, <1>3, <1>4, SenderInvariance, WorkersInvariance, HubInvariance, PTL DEF SystemSpec

-----------------------------------------------------------------------------
(* The readers of a chat, over the tables that SendMessage fills *)

\* The theorems about the readers and the syncers, for the tables of SendMessage.
HistoryP == INSTANCE MessageHistoryProofs WITH
  MaxSeq <- MaxCalls,
  drawn <- lastSeq,
  open <- {call[h].seq : h \in {g \in Writers : call[g].chat = Chat}},
  stored <- Stored,
  exists <- Chat \in chats

\* What MessageHistory takes of its constants holds of those of Reading.
LEMMA HistoryAssumption ==
  ASSUME ReadingAssumption
  PROVE  HistoryP!MessageHistoryAssumption
BY SendMessageAssumption DEF ReadingAssumption, HistoryP!MessageHistoryAssumption

\* The requests of Reading are those of MessageHistory.
LEMMA RequestIsRequest ==
  /\ \A r \in Readers, limit \in Limits : History!Begin(r, limit) <=> HistoryP!Begin(r, limit)
  /\ \A r \in Readers : History!Read(r) <=> HistoryP!Read(r)
  /\ \A c \in Syncers : History!AskSync(c) <=> HistoryP!AskSync(c)
  /\ \A c \in Syncers : History!SelectSync(c) <=> HistoryP!SelectSync(c)
<1>1. \A r \in Readers, limit \in Limits : History!Begin(r, limit) <=> HistoryP!Begin(r, limit)
  BY DEF History!Begin, HistoryP!Begin, History!log, HistoryP!log
<1>2. \A r \in Readers : History!AskPage(r) <=> HistoryP!AskPage(r)
  BY DEF History!AskPage, HistoryP!AskPage, History!log, HistoryP!log
<1>3. \A r \in Readers : History!SelectPage(r) <=> HistoryP!SelectPage(r)
  BY DEF History!SelectPage, HistoryP!SelectPage, History!EffectiveLimit, HistoryP!EffectiveLimit,
      History!GetPage, HistoryP!GetPage, History!Newest, HistoryP!Newest, History!HasMore,
      HistoryP!HasMore, History!Cardinality, HistoryP!Cardinality, History!log, HistoryP!log
<1>4. \A c \in Syncers : History!AskSync(c) <=> HistoryP!AskSync(c)
  BY DEF History!AskSync, HistoryP!AskSync, History!log, HistoryP!log
<1>5. \A c \in Syncers : History!SelectSync(c) <=> HistoryP!SelectSync(c)
  BY DEF History!SelectSync, HistoryP!SelectSync, History!LastKnown, HistoryP!LastKnown,
      History!GetAfterSeq, HistoryP!GetAfterSeq, History!Oldest, HistoryP!Oldest,
      History!Cardinality, HistoryP!Cardinality, History!log, HistoryP!log
<1> QED
  BY <1>1, <1>2, <1>3, <1>4, <1>5 DEF History!Read, HistoryP!Read

SeqsBounded == lastSeq \in 0 .. MaxCalls

\* What SendMessage and the deletion of chats do is what MessageHistory lets happen.
LEMMA ChangesAreWrites ==
  ASSUME ReadingAssumption, IInv, SeqsBounded', Changes
  PROVE  [HistoryP!Next]_(HistoryP!vars)
<1> DEFINE open == {call[h].seq : h \in {g \in Writers : call[g].chat = Chat}}
           new == {s \in Stored' \ Stored : \E t \in Stored : t > s}
<1>1. [LogOf(Chat)!Next]_(LogOf(Chat)!vars)
  BY StepLog DEF Changes, ReadingAssumption
<1>2. overtaken' = overtaken \cup new /\ UNCHANGED <<walk, sync>>
  BY DEF Changes
<1>3. open \cap Stored = {} /\ lastSeq \in Nat /\ MaxCalls \in Nat
  BY SendMessageAssumption DEF IInv, TypeOK, FreshSeq, Stored
<1>4. CASE LogOf(Chat)!Burn \/ LogOf(Chat)!Insert
  <2>1. lastSeq < MaxCalls
    BY <1>3, <1>4 DEF SeqsBounded, LogOf!Burn, LogOf!Insert
  <2>2. overtaken' = overtaken
    BY <1>2, <1>4 DEF LogOf!Burn, LogOf!Insert, Stored
  <2>3. HistoryP!Log!Burn \/ HistoryP!Log!Insert
    BY <1>4 DEF LogOf!Burn, LogOf!Insert, HistoryP!Log!Burn, HistoryP!Log!Insert, Stored
  <2> QED
    BY <1>2, <2>1, <2>2, <2>3 DEF HistoryP!Write, HistoryP!Next
<1>5. ASSUME NEW s \in open, LogOf(Chat)!Commit(s)
      PROVE  HistoryP!Write
  <2>1. Stored' = Stored \cup {s} /\ s \notin Stored
    BY <1>3, <1>5 DEF LogOf!Commit, Stored
  <2>2. overtaken' = overtaken \cup {t \in {s} : \E u \in Stored : u > t}
    BY <1>2, <2>1
  <2>3. HistoryP!Log!Commit(s)
    BY <1>5 DEF LogOf!Commit, HistoryP!Log!Commit, Stored
  <2> QED
    BY <1>2, <2>2, <2>3 DEF HistoryP!Write
<1>6. ASSUME NEW s \in open, LogOf(Chat)!Abort(s)
      PROVE  HistoryP!Write
  <2>1. overtaken' = overtaken
    BY <1>2, <1>6 DEF LogOf!Abort, Stored
  <2>2. HistoryP!Log!Abort(s)
    BY <1>6 DEF LogOf!Abort, HistoryP!Log!Abort, Stored
  <2> QED
    BY <1>2, <2>1, <2>2 DEF HistoryP!Write
<1>7. CASE LogOf(Chat)!Clear
  <2>1. overtaken' = overtaken
    BY <1>2, <1>7 DEF LogOf!Clear, Stored
  <2>2. HistoryP!Log!Clear
    BY <1>7 DEF LogOf!Clear, HistoryP!Log!Clear, Stored
  <2> QED
    BY <1>2, <2>1, <2>2 DEF HistoryP!Write, HistoryP!Next
<1>8. CASE UNCHANGED LogOf(Chat)!vars
  <2>1. overtaken' = overtaken
    BY <1>2, <1>8 DEF LogOf!vars, Stored
  <2> QED
    BY <1>2, <1>8, <2>1 DEF LogOf!vars, HistoryP!vars, HistoryP!log, Stored
<1> QED
  BY <1>1, <1>4, <1>5, <1>6, <1>7, <1>8 DEF LogOf!Next, HistoryP!Next

\* A request of a reader or of a syncer.
LEMMA RequestsAreRequests ==
  ASSUME Requests \/ \E r \in Readers, limit \in Limits : Begins(r, limit)
  PROVE  HistoryP!Next
<1>1. ASSUME NEW r \in Readers, NEW limit \in Limits, Begins(r, limit)
      PROVE  HistoryP!Next
  BY <1>1, RequestIsRequest DEF Begins, HistoryP!Next
<1>2. CASE Requests
  BY <1>2, RequestIsRequest DEF Requests, HistoryP!Next
<1> QED
  BY <1>1, <1>2

\* Every step of Reading is one of MessageHistory.
LEMMA ReadingStep ==
  ASSUME ReadingAssumption, IInv, SeqsBounded', [ReadingNext]_<<vars, readerVars>>
  PROVE  [HistoryP!Next]_(HistoryP!vars)
<1>1. CASE UNCHANGED <<vars, readerVars>>
  BY <1>1 DEF vars, tables, readerVars, HistoryP!vars, HistoryP!log, Writers, Stored
<1> QED
  BY <1>1, ChangesAreWrites, RequestsAreRequests DEF ReadingNext

\* And so is the initial state.
LEMMA ReadingBegins ==
  ASSUME ReadingAssumption, ReadingInit
  PROVE  HistoryP!Init
<1>1. Stored = {} /\ Writers = {}
  BY DEF ReadingInit, Init, Stored, Writers, Idle
<1>2. HistoryP!Log!Init
  BY <1>1 DEF ReadingInit, Init, HistoryP!Log!Init, ReadingAssumption
<1> QED
  BY <1>2 DEF ReadingInit, History!Init, HistoryP!Init

\* The handlers neither read nor write what belongs to the readers.
LEMMA ReadersLeaveSenders == ReadingSpec => [](IInv /\ DrawsBounded)
<1>1. ReadingInit => IInv /\ DrawsBounded
  BY InitIInv, InitDrawsBounded DEF ReadingInit
<1>2. IInv /\ DrawsBounded /\ [ReadingNext]_<<vars, readerVars>> => IInv' /\ DrawsBounded'
  <2>1. [ReadingNext]_<<vars, readerVars>> => [Next]_vars
    BY DEF ReadingNext, Changes, Begins, Requests
  <2> QED
    BY <2>1, StepIInv, StepDrawsBounded
<1> QED
  BY <1>1, <1>2, PTL DEF ReadingSpec

\* The readers of Reading are those of MessageHistory: SendMessage and the deletion of the
\* chat do nothing to its log that MessageHistory does not know of.
THEOREM HistoryInvariance ==
  ASSUME ReadingAssumption
  PROVE  ReadingSpec => HistoryP!Spec /\ []HistoryP!IInv
<1>1. ReadingInit => HistoryP!Init
  BY ReadingBegins
<1>2. IInv /\ DrawsBounded => SeqsBounded
  BY IdsInBounds DEF SeqsBounded
<1>3. IInv /\ SeqsBounded' /\ [ReadingNext]_<<vars, readerVars>> => [HistoryP!Next]_(HistoryP!vars)
  BY ReadingStep
<1>4. HistoryP!Spec => []HistoryP!IInv
  BY HistoryAssumption, HistoryP!Invariance
<1> QED
  BY <1>1, <1>2, <1>3, <1>4, ReadersLeaveSenders, PTL DEF ReadingSpec, HistoryP!Spec

-----------------------------------------------------------------------------
(* What was answered before a walk is wanted by it *)

AnsweredIsWanted ==
  /\ answered = [r \in Readers |-> answered[r]]
  /\ Chat \in chats => \A r \in Readers : answered[r] \subseteq walk[r].wanted

\* A walk wants what is stored when it begins, and wants it to its end.
LEMMA StepAnsweredIsWanted ==
  ASSUME IInv, HistoryP!IInv, AnsweredIsWanted, [ReadingNext]_<<vars, readerVars>>
  PROVE  AnsweredIsWanted'
<1>1. \A r \in Readers : walk[r] \in HistoryP!Walk /\ walk = [q \in Readers |-> walk[q]]
  BY DEF HistoryP!IInv, HistoryP!TypeOK
<1>2. ASSUME NEW r \in Readers, NEW limit \in Limits, Begins(r, limit)
      PROVE  AnsweredIsWanted'
  <2>1. /\ answered' = [answered EXCEPT ![r] = {a.seq : a \in {b \in replies : b.chat = Chat}}]
        /\ walk' = [walk EXCEPT ![r] =
                      [@ EXCEPT !.pc = "ask", !.limit = limit, !.wanted = Stored]]
        /\ chats' = chats
    BY <1>2 DEF Begins, History!Begin, vars, tables
  <2>2. walk'[r].wanted = Stored /\ \A q \in Readers \ {r} : walk'[q] = walk[q]
    BY <1>1, <2>1 DEF HistoryP!Walk
  <2>3. Chat \in chats => {a.seq : a \in {b \in replies : b.chat = Chat}} \subseteq Stored
    BY DEF IInv, AnswersStored, Answers, Stored
  <2> QED
    BY <2>1, <2>2, <2>3 DEF AnsweredIsWanted
<1>3. CASE Changes
  <2>1. Chat \in chats' => Chat \in chats
    BY <1>3, StepTables DEF Changes, IInv, TablesStep, Stores, Commit, CommitUnacknowledged,
       CommitRows, DeleteDirect
  <2> QED
    BY <1>3, <2>1 DEF Changes, AnsweredIsWanted
<1>4. CASE Requests
  <2>1. UNCHANGED <<chats, answered>>
    BY <1>4 DEF Requests, vars, tables
  <2>2. ASSUME NEW r \in Readers, History!Read(r)
        PROVE  \A q \in Readers : walk'[q].wanted = walk[q].wanted
    <3>1. CASE History!AskPage(r)
      BY <1>1, <3>1 DEF History!AskPage, HistoryP!Walk
    <3>2. CASE History!SelectPage(r)
      BY <1>1, <3>2 DEF History!SelectPage, HistoryP!Walk
    <3> QED
      BY <2>2, <3>1, <3>2 DEF History!Read
  <2>3. CASE walk' = walk
    BY <2>1, <2>3 DEF AnsweredIsWanted
  <2> QED
    BY <1>4, <2>1, <2>2, <2>3 DEF Requests, History!AskSync, History!SelectSync, AnsweredIsWanted
<1>5. CASE UNCHANGED <<vars, readerVars>>
  BY <1>5 DEF vars, tables, readerVars, AnsweredIsWanted
<1> QED
  BY <1>2, <1>3, <1>4, <1>5 DEF ReadingNext

\* Whoever pages through a chat to the end finds every message that was answered to its
\* sender before, for any number of senders, readers, calls, limits and page sizes.
THEOREM AnsweredMessagesAreFound ==
  ASSUME ReadingAssumption
  PROVE  ReadingSpec => []AnsweredIsFound
<1>1. ReadingInit => AnsweredIsWanted
  BY DEF ReadingInit, AnsweredIsWanted
<1>2. IInv /\ HistoryP!IInv /\ AnsweredIsWanted /\ [ReadingNext]_<<vars, readerVars>>
      => AnsweredIsWanted'
  BY StepAnsweredIsWanted
<1>3. HistoryP!IInv /\ AnsweredIsWanted => AnsweredIsFound
  BY DEF HistoryP!IInv, HistoryP!WalkIsComplete, AnsweredIsWanted, AnsweredIsFound
<1> QED
  BY <1>1, <1>2, <1>3, ReadersLeaveSenders, HistoryInvariance, PTL DEF ReadingSpec

\* A client that resyncs misses only what a transaction of SendMessage committed after one
\* that had drawn a higher seq.
THEOREM FollowersMissOnlyOvertaken ==
  ASSUME ReadingAssumption
  PROVE  ReadingSpec => []ResyncMissesOnlyOvertaken
<1>1. HistoryP!IInv => ResyncMissesOnlyOvertaken
  BY DEF HistoryP!IInv, HistoryP!ResyncMissesOnlyOvertaken, ResyncMissesOnlyOvertaken,
         History!ResyncMissesOnlyOvertaken
<1> QED
  BY <1>1, HistoryInvariance, PTL

=============================================================================
