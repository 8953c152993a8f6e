--------------------------- MODULE MessageHistory ---------------------------
(***************************************************************************)
(* Reading the messages of one chat while they are being written:          *)
(* GetMessages, page by page from the newest (GET /messages/{chatId}), and *)
(* GetAfterSeq, the resync event of a WebSocket.                           *)
(*                                                                         *)
(* A reader's requests are separate HTTP requests or events, each a        *)
(* membership check followed by one SELECT; commits and the deletion of    *)
(* the chat come in between.  What a reader does with an answer is the     *)
(* client's side of the protocol: it asks for the next page at nextCursor, *)
(* and resyncs after the highest seq it knows.                             *)
(***************************************************************************)
EXTENDS Integers, FiniteSets

CONSTANTS
  Readers,       \* clients that page through the history
  Syncers,       \* clients that follow the chat by resync
  Limits,        \* limits that requests ask for, 0 if they ask for none
  DefaultLimit,  \* defaultPageLimit
  MaxLimit,      \* maxPageLimit
  ResyncLimit,   \* resyncLimit
  MaxSeq         \* bound on the seqs drawn

ASSUME MessageHistoryAssumption ==
  /\ Limits \subseteq Int
  /\ DefaultLimit \in 1 .. MaxLimit
  /\ MaxLimit \in Nat
  /\ ResyncLimit \in Nat \ {0}
  /\ MaxSeq \in Nat

VARIABLES
  drawn, open, stored, exists,  \* the chat's messages: MessageLog
  overtaken,  \* messages committed when one with a higher seq had been already
  walk,       \* each reader's paging: what it asks next and what it was answered
  sync        \* each syncer's messages

log == <<drawn, open, stored, exists>>
vars == <<log, overtaken, walk, sync>>

Log == INSTANCE MessageLog

\* A walk through the history: the limit it asks for; the cursor of the next page, 0 for
\* the newest; what was stored when it began; what it was given, and given again.
Walk == [pc : {"idle", "ask", "select", "done", "refused"}, limit : Int, cursor : Nat,
         wanted : SUBSET Nat, given : SUBSET Nat, again : SUBSET Nat]

\* A client that resyncs: what it knows; what it was given although it knew it; what it
\* still missed when an answer last told it that there was no more.
Sync == [pc : {"ask", "select", "refused"}, known : SUBSET Nat, again : SUBSET Nat,
         missed : SUBSET Nat]

\* The log, the readers' cursors and the syncers' messages have their types, and no
\* reader or syncer holds a message that was never committed.
TypeOK ==
  /\ drawn \in 0 .. MaxSeq
  /\ open \cup stored \subseteq 1 .. drawn
  /\ overtaken \subseteq 1 .. drawn
  /\ exists \in BOOLEAN
  /\ walk \in [Readers -> Walk]
  /\ \A r \in Readers : walk[r].given \cap open = {} /\ walk[r].given \subseteq 1 .. drawn
  /\ sync \in [Syncers -> Sync]
  /\ \A c \in Syncers : sync[c].known \cap open = {} /\ sync[c].known \subseteq 1 .. drawn

Init ==
  /\ Log!Init
  /\ overtaken = {}
  /\ walk = [r \in Readers |-> [pc |-> "idle", limit |-> 0, cursor |-> 0, wanted |-> {},
                                given |-> {}, again |-> {}]]
  /\ sync = [c \in Syncers |-> [pc |-> "ask", known |-> {}, again |-> {}, missed |-> {}]]

-----------------------------------------------------------------------------
(* The messages change *)

Write ==
  /\ \/ drawn < MaxSeq /\ (Log!Burn \/ Log!Insert) /\ UNCHANGED overtaken
     \/ \E s \in open :
          /\ Log!Commit(s)
          /\ overtaken' = overtaken \cup {t \in {s} : \E u \in stored : u > t}
     \/ (\E s \in open : Log!Abort(s)) /\ UNCHANGED overtaken
     \/ Log!Clear /\ UNCHANGED overtaken
  /\ UNCHANGED <<walk, sync>>

-----------------------------------------------------------------------------
(* What a request computes *)

\* ORDER BY seq DESC LIMIT n, and ORDER BY seq ASC LIMIT n.
Newest(S, n) == {s \in S : Cardinality({t \in S : t > s}) < n}
Oldest(S, n) == {s \in S : Cardinality({t \in S : t < s}) < n}

\* The limit that GetMessages uses for the one a request asks for.
EffectiveLimit(limit) ==
  IF limit <= 0 THEN DefaultLimit ELSE IF limit > MaxLimit THEN MaxLimit ELSE limit

UpToCursor(cursor, n) ==  \* mutant: the cursor's own message again
  Newest(IF cursor > 0 THEN {s \in stored : s <= cursor} ELSE stored, n)

\* Mutant: rows of open transactions are read too.
ReadUncommitted(cursor, n) ==
  Newest({s \in stored \cup open : cursor > 0 => s < cursor}, n)

\* GetPage: the newest messages below the cursor.
GetPage(cursor, n) ==
  Newest(IF cursor > 0 THEN {s \in stored : s < cursor} ELSE stored, n)

FullPageEnds(fetched, n) == Cardinality(fetched) > n + 1  \* mutant: off by one

\* One message more than the page holds was asked for, to see if there is a next page.
HasMore(fetched, n) == Cardinality(fetched) > n

FromSeq(after) == Oldest({s \in stored : s >= after}, ResyncLimit)  \* mutant: seq >= afterSeq

AnyAfterSeq(after) == Newest({s \in stored : s > after}, ResyncLimit)  \* mutant: seq DESC

\* GetAfterSeq: the oldest messages above the seq.
GetAfterSeq(after) == Oldest({s \in stored : s > after}, ResyncLimit)

-----------------------------------------------------------------------------
(* Readers *)

\* A reader begins to page through the history.
Begin(r, limit) ==
  /\ walk[r].pc = "idle"
  /\ walk' = [walk EXCEPT ![r] = [@ EXCEPT !.pc = "ask", !.limit = limit, !.wanted = stored]]
  /\ UNCHANGED <<log, overtaken, sync>>

\* A page is asked for and the reader is found to be a member, or, with the chat gone,
\* refused.
AskPage(r) ==
  /\ walk[r].pc = "ask"
  /\ walk' = [walk EXCEPT ![r].pc = IF exists THEN "select" ELSE "refused"]
  /\ UNCHANGED <<log, overtaken, sync>>

\* The page is read and answered; with more messages below it, nextCursor is the seq of
\* its last.
SelectPage(r) ==
  LET n == EffectiveLimit(walk[r].limit)
      fetched == GetPage(walk[r].cursor, n + 1)
      page == Newest(fetched, n)
      hasMore == HasMore(fetched, n)
  IN
  /\ walk[r].pc = "select"
  /\ \E next \in IF hasMore THEN {s \in page : \A t \in page : s <= t} ELSE {0} :
       walk' = [walk EXCEPT ![r] =
                  [@ EXCEPT !.pc = IF hasMore THEN "ask" ELSE "done",
                            !.cursor = next,
                            !.given = walk[r].given \cup page,
                            !.again = walk[r].again \cup (walk[r].given \cap page)]]
  /\ UNCHANGED <<log, overtaken, sync>>

-----------------------------------------------------------------------------
(* Syncers *)

\* A resync event by a member; with the chat gone, it is logged and not answered.
AskSync(c) ==
  /\ sync[c].pc = "ask"
  /\ sync' = [sync EXCEPT ![c].pc = IF exists THEN "select" ELSE "refused"]
  /\ UNCHANGED <<log, overtaken, walk>>

\* The highest seq a syncer knows, 0 at first.
LastKnown(c) == {s \in sync[c].known \cup {0} : \A t \in sync[c].known : t <= s}

\* The answer, a full one or one that shows that there is no more.
SelectSync(c) ==
  /\ sync[c].pc = "select"
  /\ \E after \in LastKnown(c) :
       LET messages == GetAfterSeq(after)
           known == sync[c].known \cup messages
       IN sync' = [sync EXCEPT ![c] =
                     [@ EXCEPT !.pc = "ask",
                               !.known = known,
                               !.again = sync[c].again \cup (messages \cap sync[c].known),
                               !.missed = IF Cardinality(messages) < ResyncLimit
                                          THEN stored \ known ELSE sync[c].missed]]
  /\ UNCHANGED <<log, overtaken, walk>>

\* A reader's next request and the server's answer to it.
Read(r) == AskPage(r) \/ SelectPage(r)

\* The chat is gone, the bound on seqs used up, and everyone has been told so.
Rest ==
  /\ ~exists
  /\ drawn = MaxSeq
  /\ \A r \in Readers : walk[r].pc \in {"done", "refused"}
  /\ \A c \in Syncers : sync[c].pc = "refused"
  /\ UNCHANGED vars

Next ==
  \/ Write
  \/ \E r \in Readers : Read(r) \/ \E limit \in Limits : Begin(r, limit)
  \/ \E c \in Syncers : AskSync(c) \/ SelectSync(c)
  \/ Rest

Spec == Init /\ [][Next]_vars

\* A reader goes on until there is no next page, and every request is answered.
FairSpec == Spec /\ \A r \in Readers : WF_vars(Read(r))

-----------------------------------------------------------------------------
(* Properties *)

\* docs/message-send-flow.md:65, "Cursor ... seq ..., isliye no duplicates", and :74: pages
\* never give a reader a message twice, nor does a resync give a client what it knows,
\* whatever is committed between two requests.
NothingTwice ==
  /\ \A r \in Readers : walk[r].again = {}
  /\ \A c \in Syncers : sync[c].again = {}

\* A walk that has come to its end was given every message that was stored when it began:
\* what is committed in the meantime pushes nothing off a page.
WalkIsComplete ==
  \A r \in Readers : walk[r].pc = "done" /\ exists => walk[r].wanted \subseteq walk[r].given

\* Every walk comes to its end although messages keep arriving.
WalkEnds ==
  \A r \in Readers : walk[r].pc = "ask" ~> walk[r].pc \in {"done", "refused"}

\* A page that says there is another one gives its reader messages it did not have, and the
\* next page is asked for below it: no walk turns in a circle.
EveryPageAdvances ==
  [][\A r \in Readers : walk[r].pc = "select" /\ walk'[r].pc = "ask" =>
       /\ walk[r].given \subseteq walk'[r].given /\ walk'[r].given # walk[r].given
       /\ walk'[r].cursor > 0
       /\ walk[r].cursor > 0 => walk'[r].cursor < walk[r].cursor]_vars

\* A client that resyncs to the end misses nothing but messages that were committed after
\* one with a higher seq, if what it resyncs after is the highest seq it was given by a
\* resync.  One that counts what the hub delivers to it also misses what was dropped below.
ResyncMissesOnlyOvertaken ==
  \A c \in Syncers : sync[c].missed \subseteq overtaken

\* docs/message-send-flow.md:74, "Choota hua kuch nahi, duplicate bhi nahi" (nothing missed,
\* and nothing twice): a client that resyncs to the end misses nothing.
ResyncMissesNothing ==
  \A c \in Syncers : sync[c].missed = {}

=============================================================================
