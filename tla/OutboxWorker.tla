---------------------------- MODULE OutboxWorker ----------------------------
(***************************************************************************)
(* OutboxWorker and OutboxRepo: every server instance with Redis runs one  *)
(* worker, and all of them drain the one outbox_events table.              *)
(*                                                                         *)
(* A worker claims a batch in one autocommitted statement, then takes the  *)
(* events of the batch one by one: read the message, PUBLISH it, mark the  *)
(* row.  Every one of those is a database or Redis round trip, so the      *)
(* other workers, the request handlers and the crashes run in between.     *)
(***************************************************************************)
EXTENDS Naturals, FiniteSets

CONSTANTS
  Workers,      \* running instances
  Messages,     \* message ids
  Chats,        \* chat ids
  Events,       \* outbox_events ids
  MaxAttempts,  \* outboxMaxAttempts
  BatchSize,    \* outboxBatchSize
  MaxFaults     \* bound on the number of failed calls and crashes

ASSUME OutboxWorkerAssumption ==
  /\ IsFiniteSet(Workers)
  /\ Events \subseteq Nat
  /\ MaxAttempts \in Nat \ {0}
  /\ BatchSize \in Nat \ {0}
  /\ MaxFaults \in Nat

VARIABLES
  outbox,     \* rows of outbox_events, by id
  stored,     \* ids of the messages in the messages table
  published,  \* how often Redis has accepted each event
  pc,         \* what each worker is doing
  claimed,    \* each worker's remaining batch: event id -> attempts as claimed
  faults      \* failed calls and crashes so far

rows == <<outbox, stored>>
workers == <<pc, claimed>>
vars == <<rows, published, workers, faults>>

EventRow == [msg : Messages, chat : Chats, status : {"pending", "published", "failed"},
             attempts : Nat, due : BOOLEAN]

Phase == {"idle", "claiming", "resolve", "publish", "mark", "fail"}

\* The rows, the workers' program counters and their batches have their types, and a
\* batch, a snapshot taken earlier, never shows more attempts than the row has now.
TypeOK ==
  /\ outbox \in [DOMAIN outbox -> EventRow]
  /\ DOMAIN outbox \subseteq Events
  /\ stored \subseteq Messages
  /\ published \in [Events -> Nat]
  /\ pc \in [Workers -> Phase]
  /\ DOMAIN claimed = Workers
  /\ \A w \in Workers :
       /\ claimed[w] \in [DOMAIN claimed[w] -> 0 .. MaxAttempts - 1]
       /\ DOMAIN claimed[w] \subseteq DOMAIN outbox
       /\ \A e \in DOMAIN claimed[w] : claimed[w][e] <= outbox[e].attempts
       /\ pc[w] = "idle" <=> DOMAIN claimed[w] = {}
  /\ faults \in 0 .. MaxFaults

NoEvents == [e \in {} |-> 0]

Init ==
  /\ outbox = [e \in {} |-> 0]
  /\ stored = {}
  /\ published = [e \in Events |-> 0]
  /\ pc = [w \in Workers |-> "idle"]
  /\ claimed = [w \in Workers |-> NoEvents]
  /\ faults = 0

-----------------------------------------------------------------------------
(* The tables, as the rest of the program changes them *)

\* SendMessage commits a message together with its outbox event.  Events need not
\* become visible in the order of their ids.
CommitEvent(e, m, c) ==
  /\ e \notin DOMAIN outbox
  /\ m \notin stored
  /\ \A f \in DOMAIN outbox : outbox[f].msg # m
  /\ outbox' = [f \in DOMAIN outbox \cup {e} |->
                  IF f = e THEN [msg |-> m, chat |-> c, status |-> "pending",
                                 attempts |-> 0, due |-> TRUE]
                  ELSE outbox[f]]
  /\ stored' = stored \cup {m}
  /\ UNCHANGED <<published, workers, faults>>

\* A chat is deleted with its messages; the outbox rows stay.
DeleteChat(c) ==
  /\ \E f \in DOMAIN outbox : outbox[f].chat = c /\ outbox[f].msg \in stored
  /\ stored' = stored \ {outbox[f].msg : f \in {g \in DOMAIN outbox : outbox[g].chat = c}}
  /\ UNCHANGED <<outbox, published, workers, faults>>

\* next_attempt_at passes.
BackoffElapses(e) ==
  /\ e \in DOMAIN outbox
  /\ ~outbox[e].due
  /\ outbox' = [outbox EXCEPT ![e].due = TRUE]
  /\ UNCHANGED <<stored, published, workers, faults>>

-----------------------------------------------------------------------------
(* Claim *)

\* Rows that another worker's claim statement has locked at this moment.  The lock ends
\* with the statement: Claim runs outside any transaction.
LockedByOther(w, e) ==
  \E v \in Workers \ {w} : pc[v] = "claiming" /\ e \in DOMAIN claimed[v]

AnyStatus(w) == {e \in DOMAIN outbox :  \* mutant: the claim forgets status = 'pending'
  outbox[e].due /\ outbox[e].attempts < MaxAttempts /\ ~LockedByOther(w, e)}

\* WHERE status = 'pending' AND next_attempt_at <= now() AND attempts < max ...
\* FOR UPDATE SKIP LOCKED
Claimable(w) == {e \in DOMAIN outbox :
  /\ outbox[e].status = "pending"
  /\ outbox[e].due
  /\ outbox[e].attempts < MaxAttempts
  /\ ~LockedByOther(w, e)}

\* ORDER BY id LIMIT BatchSize: the events of E that fewer than BatchSize precede.
FirstBatch(E) == {e \in E : Cardinality({f \in E : f < e}) < BatchSize}

\* The claim statement locks its rows and reads them.  A tick that finds none does
\* nothing.
Claim(w) ==
  /\ pc[w] = "idle"
  /\ Claimable(w) # {}
  /\ pc' = [pc EXCEPT ![w] = "claiming"]
  /\ claimed' = [claimed EXCEPT ![w] =
                   [e \in FirstBatch(Claimable(w)) |-> outbox[e].attempts]]
  /\ UNCHANGED <<rows, published, faults>>

\* The statement ends, and with its implicit transaction every lock it took.
EndClaim(w) ==
  /\ pc[w] = "claiming"
  /\ pc' = [pc EXCEPT ![w] = "resolve"]
  /\ UNCHANGED <<rows, published, claimed, faults>>

-----------------------------------------------------------------------------
(* process, for the first event of the rest of the batch *)

\* e is the event worker w is at.
Current(w, e) ==
  /\ e \in DOMAIN claimed[w]
  /\ \A f \in DOMAIN claimed[w] : e <= f

NeverDone(w, e) ==  \* mutant: the loop does not leave an empty batch
  LET rest == DOMAIN claimed[w] \ {e} IN
  /\ claimed' = [claimed EXCEPT ![w] = [f \in rest |-> claimed[w][f]]]
  /\ pc' = [pc EXCEPT ![w] = "resolve"]

\* Worker w is done with event e and turns to the next one, if any.
NextEvent(w, e) ==
  LET rest == DOMAIN claimed[w] \ {e} IN
  /\ claimed' = [claimed EXCEPT ![w] = [f \in rest |-> claimed[w][f]]]
  /\ pc' = [pc EXCEPT ![w] = IF rest = {} THEN "idle" ELSE "resolve"]

\* msgRepo.GetByID: the message is there to be published, or its chat is gone and the
\* event counts as failed.
Resolve(w) ==
  /\ pc[w] = "resolve"
  /\ \E e \in DOMAIN claimed[w] :
       /\ Current(w, e)
       /\ pc' = [pc EXCEPT ![w] = IF outbox[e].msg \in stored THEN "publish" ELSE "fail"]
  /\ UNCHANGED <<rows, published, claimed, faults>>

\* Redis accepts the event.
Publish(w) ==
  /\ pc[w] = "publish"
  /\ \E e \in DOMAIN claimed[w] :
       /\ Current(w, e)
       /\ published' = [published EXCEPT ![e] = @ + 1]
  /\ pc' = [pc EXCEPT ![w] = "mark"]
  /\ UNCHANGED <<rows, claimed, faults>>

\* MarkPublished.  An UPDATE waits for a claim statement that has the row locked.
MarkPublished(w) ==
  /\ pc[w] = "mark"
  /\ \E e \in DOMAIN claimed[w] :
       /\ Current(w, e)
       /\ ~LockedByOther(w, e)
       /\ outbox' = [outbox EXCEPT ![e].status = "published", ![e].due = TRUE]
       /\ NextEvent(w, e)
  /\ UNCHANGED <<stored, published, faults>>

FailedAfterMax(n) == n >= MaxAttempts  \* mutant: compares the attempts before this one

FailedTooEarly(n) == n + 2 >= MaxAttempts  \* mutant: counts one attempt twice

\* MarkFailed gives the row up once the attempts the worker claimed it with, and this
\* one, use up the maximum.
LastAttempt(n) == n + 1 >= MaxAttempts

\* MarkFailed: the decision is taken from the attempts read at claim time, the increment
\* is applied to the attempts the row has now.
MarkFailed(w) ==
  /\ pc[w] = "fail"
  /\ \E e \in DOMAIN claimed[w] :
       /\ Current(w, e)
       /\ ~LockedByOther(w, e)
       /\ outbox' = [outbox EXCEPT
            ![e].status = IF LastAttempt(claimed[w][e]) THEN "failed" ELSE @,
            ![e].attempts = @ + 1,
            ![e].due = FALSE]
       /\ NextEvent(w, e)
  /\ UNCHANGED <<stored, published, faults>>

-----------------------------------------------------------------------------
(* Failures, MaxFaults of them *)

Fault == faults < MaxFaults /\ faults' = faults + 1

\* The message cannot be read, or Redis does not answer.
CallFails(w) ==
  /\ Fault
  /\ pc[w] \in {"resolve", "publish"}
  /\ pc' = [pc EXCEPT ![w] = "fail"]
  /\ UNCHANGED <<rows, published, claimed>>

\* Redis accepts the event but its answer is lost.  The client library sends the PUBLISH
\* again, or has no retry left and returns an error.
PublishUnacknowledged(w) ==
  /\ Fault
  /\ pc[w] = "publish"
  /\ \E e \in DOMAIN claimed[w] :
       /\ Current(w, e)
       /\ published' = [published EXCEPT ![e] = @ + 1]
  /\ \E next \in {"publish", "fail"} : pc' = [pc EXCEPT ![w] = next]
  /\ UNCHANGED <<rows, claimed>>

\* The UPDATE of MarkPublished or MarkFailed does not reach the database.  The error is
\* logged and the worker goes on.
MarkLost(w) ==
  /\ Fault
  /\ pc[w] \in {"mark", "fail"}
  /\ \E e \in DOMAIN claimed[w] : Current(w, e) /\ NextEvent(w, e)
  /\ UNCHANGED <<rows, published>>

\* The instance stops and starts again: its batch is forgotten.
Crash(w) ==
  /\ Fault
  /\ pc[w] # "idle"
  /\ pc' = [pc EXCEPT ![w] = "idle"]
  /\ claimed' = [claimed EXCEPT ![w] = NoEvents]
  /\ UNCHANGED <<rows, published>>

\* What worker w does by itself: the body of Run's loop.
Work(w) ==
  \/ Claim(w)
  \/ EndClaim(w)
  \/ Resolve(w)
  \/ Publish(w)
  \/ MarkPublished(w)
  \/ MarkFailed(w)

FaultOf(w) ==
  \/ CallFails(w)
  \/ PublishUnacknowledged(w)
  \/ MarkLost(w)
  \/ Crash(w)

\* Every event has been committed and settled: all the workers find nothing to claim.
Rest ==
  /\ DOMAIN outbox = Events
  /\ \A w \in Workers : pc[w] = "idle" /\ Claimable(w) = {}
  /\ UNCHANGED vars

Next ==
  \/ \E e \in Events, m \in Messages, c \in Chats : CommitEvent(e, m, c)
  \/ \E c \in Chats : DeleteChat(c)
  \/ \E e \in Events : BackoffElapses(e)
  \/ \E w \in Workers : Work(w) \/ FaultOf(w)
  \/ Rest

Spec == Init /\ [][Next]_vars

\* The ticker fires every second for as long as the process runs, every database and
\* Redis call returns, and time passes.
FairSpec ==
  /\ Spec
  /\ \A w \in Workers : WF_vars(Work(w))
  /\ \A e \in Events : WF_vars(BackoffElapses(e))

-----------------------------------------------------------------------------
(* Properties that hold for any number of workers *)

\* At least once: a row is marked published only after Redis accepted the event, and is
\* given up only if its message is gone or MaxAttempts calls really failed.
NoSilentLoss ==
  \A e \in DOMAIN outbox :
    /\ outbox[e].status = "published" => published[e] > 0
    /\ outbox[e].status = "failed" =>
         outbox[e].msg \notin stored \/ faults >= MaxAttempts

\* How often one event reaches Redis: once for every worker that may hold it, and once
\* more for every failure.  With one worker, every duplicate is due to a failure.
DuplicatesBounded ==
  \A e \in DOMAIN outbox : published[e] <= Cardinality(Workers) + faults

\* Workers that count a failure from a stale claim overshoot MaxAttempts by at most one
\* attempt for each worker but the first.
AttemptsBounded ==
  \A e \in DOMAIN outbox :
    outbox[e].attempts <= MaxAttempts - 1 + Cardinality(Workers)

-----------------------------------------------------------------------------
(* Properties that hold for one worker *)

\* outbox.go:51, "Once attempts reach maxAttempts the event is marked failed": no row is
\* left pending that Claim will never take again.
ExhaustedMarkedFailed ==
  \A e \in DOMAIN outbox :
    outbox[e].attempts >= MaxAttempts => outbox[e].status = "failed"

Fanout == INSTANCE ReliableFanout WITH
  status <- [e \in Events |-> IF e \in DOMAIN outbox THEN outbox[e].status ELSE "none"],
  delivered <- [e \in Events |-> published[e] > 0]

\* The worker implements the fan-out service: no event is confirmed before it is
\* delivered, what is confirmed or given up stays so, and every event becomes one or the
\* other.
ImplementsReliableFanout == Fanout!FairSpec

=============================================================================
