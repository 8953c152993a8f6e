# ChatHub backend: TLA+ models, checks and proofs

This directory holds a formal model of the ChatHub backend (`src/`, Go): TLA+ modules
for the parts of the server that keep state and run concurrently, TLC configurations
that check them on small instances, and TLAPS proofs of theorems that hold for every
instance. `PROJECT.json` lists the runs, the mutants that show each property to be
sensitive to the code, the source lines behind every definition, the hazards the
properties are aimed at, the divergences found, and the theorems.

## The system

One or more server instances share one PostgreSQL database and, optionally, one Redis.
A client talks HTTP (`/api/v1/...`) and holds a WebSocket. A message goes

    client -> MessageService.SendMessage -> messages + outbox_events (one transaction)
           -> OutboxWorker (any instance) -> Redis channel chat:<id>
           -> redisPump of every subscribed instance -> room -> send buffer -> client

and whoever misses it fetches it later: page by page (`GET /messages/{chatId}`) or by
`resync` after the last seq it knows. Without Redis the request handler broadcasts to the
room of its own instance instead.

| Component (source) | State | Operations | Concurrency and failure | What makes it correct |
|---|---|---|---|---|
| Sending (`service/message.go`, `repository/message.go`) | `messages`, `outbox_events`, open transactions | `SendMessage`: membership check, idempotent INSERT, read back, outbox INSERT, COMMIT | goroutines per request and per socket; retries race their first attempt; statements fail; COMMIT answers get lost; chats are deleted | one message per client id; retries agree; message and event appear together; answered is stored; no call hangs |
| History and resync (same files) | none of its own | `GetMessages`, `GetAfterSeq` | commits in another order than seqs; deletes between check and SELECT | nothing twice, nothing skipped, walks end; what resync can miss |
| Outbox worker (`service/outbox_worker.go`, `repository/outbox.go`) | rows of `outbox_events`; each worker's batch | `Run`, `Claim`, `process`, `MarkPublished`, `MarkFailed` | one worker per instance on one table; crashes; lost answers; backoff | at least once; duplicates bounded; attempts bounded; every event settled |
| Chats (`handler/chat.go`, `repository/chat.go`) | `chats`, `chat_members`, the ids in `users` | `CreateChat`, `DeleteDirectChat`; `GetChats`, `GetChatByID` read | autocommitted statements of racing requests; failure half way; participants who never signed in | one direct chat per pair; answers are complete; no half-created chat without a cause |
| Hub: rooms (`ws/hub.go`) | `rooms`, `Client.rooms`, `redisSubs`, `redisSubCnt`, pumps, send buffers | `join-room`, `leave-room`, `unregister`, `redisPump`, `broadcastToRoom` | each operation takes `h.mu` several times; asynchronous Subscribe and Close; Redis delivers at most once; full buffers | the count is exact; occupants miss nothing of what Redis hands over; unused subscriptions end |
| Degraded mode (`handler/message.go:84`, `hub.go:345`) | – | the handler broadcasts itself, on a retry too | the answer of a COMMIT is lost | occupants miss nothing here either |
| Hub: presence (`ws/hub.go`) | `clients`, `userSockets`, `peerMap` | `register-user`, `register-peer`, `get-peer-id`, `unregister`, `broadcastPresence` | state is changed and announced in different critical sections; reconnects overtake; a client changes its user id | no ghost sockets; who is shown online is, or the news is under way; no unregister leaves a peer id behind |
| Hub: calls, typing (`ws/hub.go`) | – | `call-user`, `sendToUser`, `typing` | a map is iterated outside the lock while other goroutines change it | a call reaches every socket that was there all along |
| Connection (`ws/hub.go`) | socket, deadlines, buffer of 256, `h.mu` | `readPump`, `writePump`, broadcasts | blocking sends to the own buffer; writers waiting for the lock; peers that vanish | answers in order; the lock is granted; dead connections are cleaned up |
| Accounts and tokens (`middleware/auth.go`, `auth/`, `handler/user.go`, `repository/user.go`) | `users` | `UpsertByGoogle`, `Upsert` | profile edits overwritten at the next request | a row from the first sign-in on |
| HTTP surface, upload, health, config, start-up | – | – | – | pure I/O, not modelled |

The components interact through the database tables (sending, worker, history and chats
share `chats`, `chat_members`, `messages`, `outbox_events`), through Redis (worker to
hubs), through the hub's maps and buffers under one lock (rooms, presence, calls,
connections), and by direct calls (HTTP handlers and socket events call the services).

## Modules

| Module | Models | State and actions against the code |
|---|---|---|
| `SendMessage` | `MessageService.SendMessage`, `DeleteDirect` | tables as functions of their ids; `call[h]` is one handler's local state, its `pc` the last statement done; one action per database statement. What an open transaction wrote stays in `call[h]` until `CommitRows` |
| `MessageLog` | one chat's messages as its readers see them (abstract) | seqs drawn, in open transactions, stored; the chat exists |
| `MessageHistory` | `GetMessages`, `GetPage`, `GetAfterSeq`, `resync` | `MessageLog` as the writing side; `walk[r]` a client paging, `sync[c]` a client resyncing |
| `OutboxWorker` | the worker and its repository | rows with status, attempts and whether they are due; `claimed[w]` the rest of a worker's batch with the attempts it read; one action per database or Redis call |
| `ReliableFanout` | what the outbox promises (abstract) | accept, deliver, confirm, give up |
| `DirectChat` | `CreateChat`, `DeleteDirectChat`, the first sign-in of a user | `call[h].pc` names the next statement, `call[h].who` is the list of participants as sent; one action per statement, and one for each INSERT of a member |
| `RoomHub` | rooms, subscriptions and delivery of one instance, with Redis or without | one action per critical section of `h.mu`; `pumps` are the `redisPump` goroutines, `live` once Redis has processed their SUBSCRIBE and until their connection breaks, or the handlers that still have to broadcast what they stored |
| `Presence` | online state of one instance and what is told of it | one action per critical section; `seen[d][u]` is the last event about `u` in `d`'s channel; a history variable, `missed`, says of whom a later one found the channel full |
| `Calls` (EXTENDS `Presence`) | `call-user`, and the events `sendToUser` relays | `call[c]` is what the goroutine of a connection knows: the sockets of the map it walks that are still due and those it has offered the call to |
| `Connection` | `readPump`, `writePump`, broadcasts, `h.mu` as a `sync.RWMutex` | one action per step that can wait: asking for the lock, getting it, a send, a read, a write. Frames are numbers: 0 for a broadcast, n for the answer to the n-th event |
| `Backend` (EXTENDS `SendMessage`) | a message from the handler to the socket: `SendMessage`, the workers of all instances and the hub of one, with Redis | the other two are instances over the real tables; each action is one of theirs, and a PUBLISH is one step with its arrival at the hub. `written`, `dropped` and `unheard` record what became of each copy, `due` who is to get it |
| `Reading` (EXTENDS `SendMessage`) | clients that page through a chat or follow it by resync while it is written to | `MessageHistory` with the tables in place of its log; `answered` records what senders had been told when a reader began |
| `SendMessageProofs`, `OutboxWorkerProofs`, `DirectChatProofs`, `MessageHistoryProofs`, `RoomHubProofs`, `PresenceProofs`, `ConnectionProofs`, `CompositionProofs` | theorems | below |
| `MC*` | instances for TLC | constants only |

How they fit together, and where that is checked:

* `MessageHistory` reads a `MessageLog`. That the real writer is one is
  `SendMessage!ImplementsMessageLog`, checked by TLC and proved (`ReadersSeeMessageLog`).
* `OutboxWorker` lets its tables change by `CommitEvent` and `DeleteChat`. That the real
  writer does nothing else to them is `SendMessage!FeedsOutbox`, an instance of
  `OutboxWorker` without workers, checked and proved (`WorkersSeeOutbox`).
* `Backend` and `Reading` put the components together instead of assuming this of each
  other. That in the composed system each of them still behaves as its own module says,
  so that its theorems hold there, is proved in `CompositionProofs`. Nothing is lost by
  the composition: a PUBLISH is never held up by the hub (`EveryPublicationIsNew`).
* One `OutboxWorker` implements `ReliableFanout`, liveness included
  (`ImplementsReliableFanout`); the safety part is proved. Two do not: see
  `ExhaustedMarkedFailed` below.
* `RoomHub!Publish` is the worker's PUBLISH seen from an instance, or without Redis the
  broadcast of a handler that `SendMessage` answered. A message may be published twice;
  the hub does not tell, so `RoomHub` publishes each of its messages once and counts a
  copy as another message. In `Backend` these are the pairs of an event and the number of
  its publication.
* `Calls` adds calls to the steps of `Presence`: the maps it walks are those that
  `register-user` and `unregister` change.
* `Connection` models what all events of the hub have in common – the lock, the buffer,
  the two pumps – and leaves to `RoomHub` and `Presence` what they do to rooms and users.
  Those two in turn take for granted that a goroutine which asks for the lock gets it:
  `Connection!LockIsGranted`.

## Runs

| Run | Instance | Shows |
|---|---|---|
| `send_message` | 2 handlers, 3 calls, 1 key, a direct chat and a group | idempotency under racing retries (`UniqueClientId`, `AnswersAgree`), the transactional outbox, durability of answers, both refinements, and that every call ends |
| `outbox_one_worker` | 1 worker, 2 events in 1 chat, 3 attempts, 4 faults | at least once, bounded duplicates, refinement of `ReliableFanout` with its liveness. What overlapping workers do to the first two is in the theorems only |
| `outbox_exhausted` | the whole system (`Backend`): 1 handler, 2 workers, 1 connection, 1 message | **violation** of `ExhaustedMarkedFailed`: it takes nothing but a message that was really sent and two workers |
| `room_hub` | 2 connections, 2 chats, 2 messages, buffer of 1, with and without Redis | exact reference counts, delivery, no leaked subscription (`NoPumpIsLeaked`), release of subscriptions; Redis late or lossy |
| `room_hub_any_leave` | 1 chat, undisciplined clients | **violation** of `SubscribedWhileOccupied` |
| `direct_chat` | 2 handlers, 3 users, 3 requests with lists of 1 to 3 entries, 1 failure, 1 deletion | one chat per pair, complete answers, no unexplained half-created chat |
| `direct_chat_race` | 2 requests, nothing fails | **violation** of `LoserGetsWinner` |
| `message_history` | 1 reader, 1 syncer, seqs up to 4, page limits 0, 1 and an oversized one | no duplicates, complete walks that end, pages that advance, what resync can miss |
| `resync_gap` | `Reading`: 2 handlers whose sends overlap, 1 syncer | **violation** of `ResyncMissesNothing` |
| `presence` | 3 connections of 2 users, one of which may change its user id, 1 peer id, 1 dropped broadcast, 1 call | sockets, announcements, peer ids and calls stay tied to live connections |
| `connection` | 2 connections and a `redisPump`, buffer of 1, 2 answered events and 1 broadcast each | answers in order, the lock is granted, writers end, dead connections are cleaned up or caught |
| `connection_stuck` | 1 connection and a `redisPump` | **violation** of `DeadAreCleanedUp` |

`Backend.cfg` (one worker, with deletion of the chat; 271,099 states, 16 seconds) and `Reading.cfg` (with a
reader, a syncer and deletion; 4 seconds) check the properties of the two composed modules
in the same way. They are not in the list of runs, because those properties are proved,
but they are how the properties were found to hold before they were proved:
`EveryPublicationIsNew`, `AnsweredReachesOccupants`, `AnsweredIsFound`,
`ResyncMissesOnlyOvertaken`.

Every property of a passing run has a mutant: a plausible bug in the code it is about,
kept in the module as an operator marked `mutant`, under which TLC finds the property
violated.

### Bounds

Every bound is a constant: `MaxCalls`, `MaxSeq`, `MaxAttempts`, `BatchSize`, `MaxFaults`,
`MaxRequests`, `MaxDeletes`, `Lists`, `MaxPumps`, `SendBuffer`, `MaxDrops`, `MaxAsks`,
`MaxCasts`. They are chosen so that the interesting case occurs: two handlers and three
calls are a first attempt, a racing retry and a third that follows either; two workers
and a `MaxAttempts` of two reach the last attempt from two stale claims; two connections
in two rooms give every order of a join's, a leave's and a disconnect's two halves; four
seqs with pages of one to three give several pages with commits between; the lists of
`direct_chat` have the caller alone, a user twice, a pair in both orders and a group; a
send buffer of one is full while the writer writes and the reader waits to answer a
second event. `RoomHub` cuts joins that could exceed `MaxPumps`. The code's own limits
(256, 10, 100, 30, 100, 200) appear as constants and only their comparisons matter.

For safety the bounds of the runs do not matter in the end: every safety property of a
passing run is proved for all values of the constants. For liveness they do.

`room_hub` (748,431 states) and `presence` (1,431,999) are the largest runs, at two to
three minutes each with two workers; the others take less.

`direct_chat` uses symmetry (handlers, and two of the users, are interchangeable), and so
does `presence` (the two connections of one user, which may register the same ids; `Init`,
`Next` and the properties treat all connections alike). Both check safety only.

### Fairness

* `SendMessage!FairSpec`: weak fairness of each handler's next statement. The Go
  scheduler runs every goroutine and the database answers; a statement that waits for a
  key is disabled while another transaction holds it, and weak fairness of that other
  handler ends the wait. Failures, new requests and deletions are not fair.
* `OutboxWorker!FairSpec`: the ticker fires for as long as the process runs
  (`outbox_worker.go:35-44`), calls return, and `next_attempt_at` passes. A worker that
  crashes starts again. Failures are bounded by `MaxFaults`, so that a run of the outbox
  is one whose failures stop.
* `RoomHub!FairSpec`: some connection that is in the middle of an event goes on, and some
  Close that has been ordered is carried out. As both are bounded, all are.
* `MessageHistory!FairSpec`: a client that has begun to page goes on; nothing is assumed
  of the writers.
* `Connection!FairSpec`: the scheduler runs every goroutine that can go on; a write ends
  within its deadline of 10 s, by success or failure; a connection that is not up fails
  its reader (read deadline of 60 s) and its writer (the ping every 30 s). That clients
  send events, or stay, is not assumed.

`DirectChat`, `Presence`, `Calls`, `Backend` and `Reading` are checked for safety only.

### What is assumed of clients

`RoomHub` with `Disciplined = TRUE`, and `Backend`: clients join rooms they are not in and leave rooms
they are in, as `docs/ws.html` does; `room_hub_any_leave` drops the assumption, and
`NoPumpIsLeaked` is proved without it. In
`Presence` a client may register under a second user id, and store a peer id in any user's
name at any time; a reconnect is a new connection. In `MessageHistory` a client asks for
the next page at `nextCursor` and resyncs after the highest seq that a resync gave it.
A client that takes live deliveries into account as well is not covered: it may have lost
one at its full buffer and then received a later one, and no resync returns the first.

### What is assumed of Redis

Nothing but what Redis pub/sub promises, which is one delivery at most. `Subscribe`
(`hub.go:432`) waits for no answer and its error is ignored, so a subscription starts out
unknown to Redis (`NewPump`) and becomes known in a step of its own (`Confirm`), or never.
A message published before that reaches nobody. At any time the connection behind a
subscription may break, with any part of what it carried (`Lose`), and go-redis may
subscribe again (`Confirm`); the two together are also a full `ps.Channel()`. What reaches
the hub is in no particular order. `OccupantsMissNothing` is therefore about the hub: what
Redis handed to the subscription that the hub has registered, or what finds the hub with
none, is owed to the occupants and not lost by joins, leaves and disconnects. What Redis
did not hand over is owed to nobody. Clients are not told of the gap and have to resync.
In `Backend` the copies that went this way are in `unheard`.

## Divergences found

1. *Exhausted, and pending for ever* (`outbox_exhausted`). `Claim` is a single statement
   outside a transaction, so its `FOR UPDATE` locks end at once, although
   `outbox.go:28-29` says skipped rows "remain locked". Two workers then hold one event.
   If both fail, `MarkFailed` compares the attempts each read at claim time (`:53`) and
   adds to what the row has now: the row can reach the maximum with status `pending`.
   `Claim` never takes it again, and nothing marks it failed as `outbox.go:51` says.
2. *A leave that closes somebody else's subscription* (`room_hub_any_leave`): `leave-room`
   from a client that is not in the room, or a second `join-room`, miscounts the users of
   the subscription.
3. *A message that resync never returns* (`resync_gap`): seqs are drawn at INSERT and
   appear at COMMIT, and two sends to one chat may overlap. `ResyncMissesOnlyOvertaken` shows that nothing
   else is missed by a client that resyncs after the highest seq a resync gave it.
4. *The loser of a race gets an error* (`direct_chat_race`): the winner's chat row is
   there, its members are not yet.
5. *A dead client that is never cleaned up* (`connection_stuck`). The reader answers into
   its own buffer without a default (`hub.go:360` and five more places). If the buffer is
   full when the connection breaks, the writer ends and nobody empties it: the reader
   waits for ever and its deferred `unregister` does not run, although `README.md:278`
   says that the idle timeout keeps "dead connections cleaned up". `BrokenIsCleanedUp`
   shows that this is the only way.

The repository's README (`README.md:64`) speaks of Redis pub/sub with a transactional outbox
as an "at-least-once guarantee" of delivery. The outbox gives it as far as Redis
(`NoSilentLoss`); from there to the socket each copy is delivered at most once, and the
worker marks the event published although the subscription may not have heard of it.
`AnsweredReachesOccupants` names the two places where a copy can be lost. No run is a
counterexample to that line, as the word may be meant as far as Redis.

The presence of a user who has left can outlive the user in three ways, which
`ShownOnlineIsOnline` and `PeersAreOnline` except by name: the news is dropped at a full
buffer (`hub.go:531-535`), the last client goes over to another user id
(`hub.go:195-202`), and a peer id is stored while the user has no socket
(`hub.go:235-239`), as by a client that came with `?token=` and never sent
`register-user`. No document rules them out; the two properties show that there is no
fourth. `HalfCreatedHasOwner` likewise excepts the two known causes of a half-created
chat, a failing statement and a participant who never signed in, and excludes all others.

The repository's README also calls the idempotency key `client_message_id` while the
request type decodes `clientMessageId` only. `SendMessage` has it as it is
(`DecodedId`): a key sent under the documented name is no key, and its retries are new
messages.

## Proofs

Every safety property that a passing run checks, action properties included, the safety
of the three refinements, and the properties of the composed system are theorems: it holds for any sets of handlers, users, chats, connections, messages and
so on, and for any bounds. What each proof takes of the constants is the named ASSUME of
the module: that sets which are counted are finite, that bounds are natural numbers, that
`Null` and `None` are not ids. Some theorems say more in their own ASSUME:
those of `RoomHubProofs` but `NoSubscriptionIsLeaked` are about disciplined clients
(`ASSUME Disciplined`), `ExhaustedAreMarkedFailed` and `OutboxImplementsFanout` about one
worker (`Workers = {w}`), and those of `CompositionProofs` take of the constants of the
components what their modules do (`BackendAssumption`, `ReadingAssumption`); the runs `room_hub_any_leave` and `outbox_exhausted` show what
happens without these assumptions.

| Module | Theorem | Property |
|---|---|---|
| `SendMessageProofs` | `TypeCorrect` | `TypeOK` |
| | `ClientIdsAreUnique` | `UniqueClientId` |
| | `OutboxIsTransactional` | `TransactionalOutbox` |
| | `RetriesAgree` | `AnswersAgree` |
| | `AnswersAreDurable` | `AnsweredIsStored` |
| | `ReadersSeeMessageLog` | `ImplementsMessageLog` |
| | `WorkersSeeOutbox` | `FeedsOutbox` |
| `OutboxWorkerProofs` | `TypeCorrect` | `TypeOK` |
| | `NothingIsLostSilently` | `NoSilentLoss` |
| | `DuplicatesAreBounded` | `DuplicatesBounded` |
| | `AttemptsAreBounded` | `AttemptsBounded`, which no run checks: its case takes two workers |
| | `ExhaustedAreMarkedFailed` | `ExhaustedMarkedFailed`, one worker |
| | `OutboxImplementsFanout` | the safety part of `ImplementsReliableFanout`, one worker |
| `DirectChatProofs` | `TypeCorrect` | `TypeOK` |
| | `PairsHaveOneChat` | `OneChatPerPair` |
| | `AnswersAreComplete` | `AnswerIsComplete` |
| | `HalfCreatedIsOwned` | `HalfCreatedHasOwner` |
| `MessageHistoryProofs` | `TypeCorrect` | `TypeOK` |
| | `NothingIsGivenTwice` | `NothingTwice` |
| | `WalksAreComplete` | `WalkIsComplete` |
| | `OnlyOvertakenAreMissed` | `ResyncMissesOnlyOvertaken` |
| | `PagesAdvance` | `EveryPageAdvances` |
| `RoomHubProofs` | `TypeCorrect` | `TypeOK` |
| | `CountIsExact` | `CountExact` |
| | `NothingIsMissed` | `OccupantsMissNothing` |
| | `NoSubscriptionIsLeaked` | `NoPumpIsLeaked`, any clients |
| `PresenceProofs` | `CallsTypeCorrect` | `CallsTypeOK` |
| | `SocketsAreAlive` | `NoGhostSockets` |
| | `LeftOnlineHasCause` | `ShownOnlineIsOnline` |
| | `UsersAreShown` | `OnlineIsShown` |
| | `LeftPeerHasCause` | `PeersAreOnline` |
| | `CallsAreSettled` | `CallIsSettled` |
| `ConnectionProofs` | `TypeCorrect` | `TypeOK` |
| | `AnswersKeepTheirOrder` | `AnswersInOrder` |
| | `NobodyIsLeftInTheHub` | `ClientsAreServed` |
| `CompositionProofs` | `SenderInvariance` | `SendMessage`'s invariant in `Backend` |
| | `WorkersInvariance` | `Backend` implements `OutboxWorker` |
| | `HubInvariance` | `Backend` implements `RoomHub` |
| | `SystemIsMessageLog` | `Backend` implements `MessageLog`, for every chat |
| | `PublicationsAreTaken` | `EveryPublicationIsNew` |
| | `AnsweredMessagesReachOccupants` | `AnsweredReachesOccupants` |
| | `HistoryInvariance` | `Reading` implements `MessageHistory` |
| | `AnsweredMessagesAreFound` | `AnsweredIsFound` |
| | `FollowersMissOnlyOvertaken` | `Reading`'s `ResyncMissesOnlyOvertaken` |

Hardly any of the properties is inductive. Each module proves an inductive invariant
(`IInv`, theorem `Invariance`; `CInv` and `CallsInvariance` for `Calls`) that adds, as
named parts, what the goroutines' local states mean. One lemma for each action shows that
it keeps `IInv`, and one theorem puts them together.

`SendMessageProofs`. The tables alone do not say why a COMMIT cannot break the uniqueness
of a key: that is because of the handlers.

* `Begun`: a call under way knows its chat and sender, and is new only when it answers.
* `FreshSeq`, `FreshEvent`: the seq and the event id of an open transaction were drawn
  from their sequences, are in no table, and no other transaction has them. This is why
  COMMIT overwrites no row and gives a message one event.
* `KeyExclusive`: the key of an open transaction is neither stored nor held by another.
  This is what the unique index gives, and why COMMIT keeps `UniqueClientId`.
* `ChatsExist`: members, messages and open transactions keep their chat alive.
* `AnswersStored`, `AnswersConsistent`: the two properties of answers, extended to the
  handlers that are about to respond.

Every action has a lemma that says what it does point by point, and the step lemmas (one
for each part) use only those.

The refinements, in the same module. For the readers, the seqs of a chat's open
transactions are `open`, its rows `stored`, and each action is, for every chat at once, a
step of `MessageLog`: `Insert`, `Commit`, `Abort` or `Clear` for the chat of the action,
and for the others `Burn` or nothing. For the workers, a commit is `CommitEvent`, a deletion `DeleteChat`,
and everything else nothing. `CommitEvent` takes ids within the bound of the outbox, so
`DrawsBounded` counts: seqs drawn, and transactions that may still draw one, are together
no more than the calls begun.

`OutboxWorkerProofs`. The bounds say nothing of a worker that is about to publish or to
count an attempt. The inductive invariant keeps the books of each event (`Balanced`),
with the workers that hold it (`Holders`), those about to count a failure (`Failing`),
those about to mark it (`Marking`) and those that may still publish it (`Publishing`):

* `AttemptsHeld`: attempts and holders together stay within the bound. A claim takes rows
  below `MaxAttempts` only; `MarkFailed` trades a holder for an attempt.
* `FailuresCounted`: while the message is stored, attempts and pending failures are paid
  for by faults. Hence a row given up means that `MaxAttempts` calls failed.
* `PublishedHeld`: publications and workers that may still publish stay within the bound.
  A claim of a pending row keeps it because of `PendingPublished`: what was published of a
  pending row is being marked by a worker or was paid for by a fault.
* `MarkDelivered`, `NothingEarly`: what is about to be marked was published, and nothing
  is published that is not committed.

A step of a worker moves only that worker in or out of these sets (`WorkerCounts`), so
`QuietStep` settles every event but the one the step is about, and one lemma for each
action settles that one. `BatchNotEmpty`, that a claim that finds rows takes one, rests on
the well-foundedness of the event ids. For one worker the invariant adds `FreshBatch`:
what it holds is pending, with the attempts it read. That is what a second worker breaks.

`DirectChatProofs`. `CallsSound` says for each statement of `CreateChat` what the handler
may rely on: the chat it found or created, unless deleted, still has the members it saw
or inserted. `ChatsSound` is the unique index, and that members are participants.
`AnswersSound` carries what a reply named on through later steps. `HalfCreatedHasOwner`
is part of the induction: a direct chat without all its members keeps the pair from
having another, and only its creator can complete it.

`MessageHistoryProofs`. `WalksSound` says what a cursor means: everything wanted is given
or below it, and nothing given is below it; `SyncsSound` that whatever is stored below
what a syncer knows, and unknown to it, was overtaken. The lemmas about `Newest` and
`Oldest` n messages (what is left out is beyond all that is given, and if fewer than n
are given they are all) rest on the existence of a first element in a finite set, from
well-foundedness of the strict subset ordering. `PagesAdvance` follows from the same
invariant: a page with a next one is full, all of it lies below the cursor, and its last
row is the new cursor, below all that the reader was given.

`RoomHubProofs`. `Places` ties the two sides of a room's membership and the phases of the
goroutines together; `PumpsSound` says that a pump belongs to a subscription and that
what is registered is not about to be closed; `OwedSound` that messages are owed only to
clients that are joined and subscribed. A subscription that becomes known to Redis, or
loses some of its messages, changes one pump and nothing that the other parts look at
(`PumpChanges`). `CountExact` then is arithmetic on cardinalities
for each half of a join, a leave and a disconnect. `NoSubscriptionIsLeaked` does not need
any of this, nor disciplined clients: `Registered` says that pumps have ids of their own,
drawn from `lastPump`, that a pump that is registered is not closing, and that any other
is. A wrong count closes the registered pump, but never one that is not.

`PresenceProofs`. `AnnouncedAreRegistered` and `WithdrawnHadUser` say what a goroutine
that is about to broadcast knows; `OwnUserIsHeld`, that a client who has in mind that its
own user is online had been told so before it registered, is what a change of user id
needs: the client will be "another user" from then on. For calls, `CallInv` says that
while the map walked is still the one in `userSockets`, the sockets that were there all
along are in it, that once it was thrown away the user had no socket for a moment, and
that the iteration has come to each of them or will.

`ConnectionProofs`. `LinesSound` states the order of answers for the whole line from the
frame being written over the buffer to the answer that waits (`InLine`), with the number
of the last event as its upper end; `WritersStart` that no writer runs before its client
is in the hub. `ClientsAreServed`, defined beside its proof, is the safety core of
`BrokenIsCleanedUp`: whoever is in the hub has a reader that is still to unregister it. It
is kept together with `NoneLeft`, that only a broadcast under way has clients left to send
to, as the write lock is what lets nobody leave in the middle of one.

`CompositionProofs`. First, every step of `SystemSpec` is, to each component, a step of its
own specification or none. To `SendMessage` a step of a worker changes only the progress
of outbox rows (`OnlyProgress`), which its invariant does not look at; to the workers a
commit or a deletion is `CommitEvent` or `DeleteChat`, by the refinement proved before; to
the hub a publication is `Publish`. So the invariants of the three hold of the system and
are used from there on without being proved again. On them rests what no component can
state alone:

* `CopiesCounted`: what the hub was given of an event are at most its publications so far.
  Hence each new one is new to the hub.
* `DueSound`: who an event is due to is in the room and subscribed, and each copy published
  so far is owed to that client, or was written to its socket or dropped at its full
  buffer, or was never handed to the hub by Redis (`unheard`). Nothing is published before it is committed (`NothingEarly` of the workers), so
  the induction starts with no copy at all; what is owed sits in the client's buffer or in
  the queue of the registered pump (`OccupantsMissNothing` of the hub).

`AnsweredReachesOccupants` then follows the answer to its message (`AnswersStored`), the
message to its event (`TransactionalOutbox`), the event to what became of it
(`NoSilentLoss`), and the copies to the sockets. For `Reading`, `AnsweredIsWanted` says
that what had been answered when a reader began was stored then, so that
`WalkIsComplete` speaks of it.

Only model-checked: liveness (`EveryCallEnds`, `WalkEnds`, `UnusedIsClosed`,
`LockIsGranted`, `WriterEnds`, `BrokenIsCleanedUp`, the fairness part of
`ImplementsReliableFanout`) and with it anything about ENABLED, which are outside the
prover, and the violations. Definitions over ordered sets are written with `Cardinality`
and no module uses RECURSIVE, so all of them can be proved about.

## Not modelled

* Accounts: of `users` only which ids have a row (`DirectChat!SignIn`), as no other state
  depends on the display fields, which `UpsertByGoogle` and `Upsert` overwrite in turn.
  `UserRepo.Delete` has no caller. Tokens are verified by the OIDC library.
* HTTP routing, request ids, logging, CORS and panic recovery keep no state between
  requests; of the recovery only that a panic answers 500 matters (`DirectChat`).
* Upload, health checks, configuration, connections and start-up are pure I/O or run once.
* Shutdown: the worker is not waited for, which is a crash to the model.
* The contents of messages, call events, presence payloads and profile data; the rate at
  which things happen, and all durations (deadlines and backoffs are events that happen).

## State of the plan

The most important behaviour came first, and each step is done: (1) `SendMessage`,
(2) `OutboxWorker` and `ReliableFanout`, (3) `RoomHub`, (4) `DirectChat`,
(5) `MessageLog`, `MessageHistory` and the refinements, (6) `Presence`, (7) `Connection`
and `Calls`, (8) the degraded mode in `RoomHub`, (9) the proofs of every safety property,
(10) `Backend` and `Reading`, and the proofs that the components compose.

What would come next: a hub of several instances that share one Redis (`Backend` has the
workers of all instances and the hub of one, as hubs share no state but the channels); a
restart of the hub's instance in `Backend`; a window in which an occupant gets a
message twice while one subscription replaces another, for which no document says what
is intended; liveness of `Presence`, once it is decided what a dropped announcement
should lead to.

## Running

    tlc -config SendMessage.cfg MCSendMessage
    tlc -config OutboxOneWorker.cfg MCOutboxWorker
    tlc -config RoomHub.cfg MCRoomHub
    tlc -config DirectChat.cfg MCDirectChat
    tlc -config MessageHistory.cfg MCMessageHistory
    tlc -config Calls.cfg MCCalls
    tlc -config Connection.cfg MCConnection          # and the others, see PROJECT.json
    tlc -config Backend.cfg MCBackend
    tlc -config Reading.cfg MCReading

    for m in SendMessage OutboxWorker DirectChat MessageHistory \
             RoomHub Presence Connection Composition; do tlapm ${m}Proofs.tla; done
