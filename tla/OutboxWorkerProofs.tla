------------------------- MODULE OutboxWorkerProofs -------------------------
(***************************************************************************)
(* The inductive invariant of OutboxWorker, and the safety properties that *)
(* follow from it for any number of workers, events, attempts and faults.  *)
(*                                                                         *)
(* The bounds are arguments by counting: for each event, the workers that  *)
(* hold it, are about to mark it, or are about to fail it are set against  *)
(* its attempts, its publications and the faults that happened so far.     *)
(***************************************************************************)
EXTENDS OutboxWorker, FiniteSetTheorems, TLAPS

\* Workers that hold event e in their batch.
Holders(e) == {w \in Workers : e \in DOMAIN claimed[w]}

\* Workers that are about to count a failure of e, and to mark it published.
Failing(e) == {w \in Workers : pc[w] = "fail" /\ Current(w, e)}
Marking(e) == {w \in Workers : pc[w] = "mark" /\ Current(w, e)}

\* Workers that may still publish e without anything failing.
Publishing(e) == Holders(e) \ Marking(e)

\* Every worker that holds e may still count one more attempt of it.
AttemptsHeld(e) ==
  outbox[e].attempts + Cardinality(Holders(e)) <= MaxAttempts - 1 + Cardinality(Workers)

\* While the message of e is there, each of e's attempts, those about to be counted
\* included, is due to a fault of its own.
FailuresCounted(e) ==
  outbox[e].msg \in stored => outbox[e].attempts + Cardinality(Failing(e)) <= faults

\* What is about to be marked published has been.
MarkDelivered(e) == Marking(e) # {} => published[e] > 0

\* Each worker that holds e may publish it once more.
PublishedHeld(e) ==
  published[e] + Cardinality(Publishing(e)) <= Cardinality(Workers) + faults

\* If a pending event was published, it is about to be marked or something failed.
PendingPublished(e) ==
  outbox[e].status = "pending" => published[e] <= faults + Cardinality(Marking(e))

\* What NoSilentLoss says of one row.
NotLost(e) ==
  /\ outbox[e].status = "published" => published[e] > 0
  /\ outbox[e].status = "failed" => outbox[e].msg \notin stored \/ faults >= MaxAttempts

\* The books of one event.
Balanced(e) ==
  /\ AttemptsHeld(e)
  /\ FailuresCounted(e)
  /\ MarkDelivered(e)
  /\ PublishedHeld(e)
  /\ PendingPublished(e)
  /\ NotLost(e)

\* Nothing was published of an event that has not been committed.
NothingEarly == \A e \in Events \ DOMAIN outbox : published[e] = 0

IInv ==
  /\ TypeOK
  /\ NothingEarly
  /\ \A e \in DOMAIN outbox : Balanced(e)

-----------------------------------------------------------------------------
(* Counting workers *)

\* The workers are finitely many, and so is every set of them.
LEMMA CountIsNat ==
  ASSUME NEW S \in SUBSET Workers
  PROVE  /\ IsFiniteSet(S)
         /\ Cardinality(S) \in Nat
         /\ Cardinality(S) <= Cardinality(Workers)
         /\ Cardinality(Workers) \in Nat
<1>1. IsFiniteSet(Workers)
  BY OutboxWorkerAssumption
<1>2. IsFiniteSet(S) /\ Cardinality(S) <= Cardinality(Workers)
  BY <1>1, FS_Subset
<1> QED
  BY <1>1, <1>2, FS_CardinalityType

\* Two sets of workers that differ in one worker at most.
LEMMA CountFrame ==
  ASSUME NEW S \in SUBSET Workers, NEW T \in SUBSET Workers, NEW w, S \ {w} = T \ {w}
  PROVE  /\ (w \in S <=> w \in T) => Cardinality(S) = Cardinality(T)
         /\ w \in S /\ w \notin T => Cardinality(S) = Cardinality(T) + 1
         /\ w \notin S /\ w \in T => Cardinality(T) = Cardinality(S) + 1
<1>1. (w \in S <=> w \in T) => S = T
  OBVIOUS
<1>2. w \in S /\ w \notin T => T = S \ {w}
  OBVIOUS
<1>3. w \notin S /\ w \in T => S = T \ {w}
  OBVIOUS
<1>4. /\ Cardinality(S \ {w}) = IF w \in S THEN Cardinality(S) - 1 ELSE Cardinality(S)
      /\ Cardinality(T \ {w}) = IF w \in T THEN Cardinality(T) - 1 ELSE Cardinality(T)
  BY CountIsNat, FS_RemoveElement
<1>5. Cardinality(S) \in Nat /\ Cardinality(T) \in Nat
  BY CountIsNat
<1> QED
  BY <1>1, <1>2, <1>3, <1>4, <1>5

\* Two disjoint sets of workers are no more than all of them.
LEMMA CountDisjoint ==
  ASSUME NEW S \in SUBSET Workers, NEW T \in SUBSET Workers, S \cap T = {}
  PROVE  Cardinality(S) + Cardinality(T) <= Cardinality(Workers)
<1>1. IsFiniteSet(Workers)
  BY OutboxWorkerAssumption
<1>2. ~(Cardinality(S) + Cardinality(T) > Cardinality(Workers))
  BY <1>1, FS_MajoritiesIntersect
<1> QED
  BY <1>2, CountIsNat

\* A claim that finds anything claims something: a set of event ids has a least element.
LEMMA BatchNotEmpty ==
  ASSUME NEW E \in SUBSET Nat, E # {}
  PROVE  FirstBatch(E) # {}
<1> DEFINE Below(e) == {f \in E : f <= e}
           All == {Below(e) : e \in E}
<1>1. All \subseteq FiniteSubsetsOf(Nat)
  <2>1. ASSUME NEW e \in E
        PROVE  IsFiniteSet(Below(e)) /\ Below(e) \subseteq Nat
    <3>1. e \in Nat /\ Below(e) \in SUBSET Nat /\ \A f \in Below(e) : f <= e
      OBVIOUS
    <3> HIDE DEF Below
    <3> QED
      BY <3>1, FS_BoundedSetOfNaturals
  <2> QED
    BY <2>1 DEF FiniteSubsetsOf
<1>2. All # {}
  OBVIOUS
<1>3. PICK S \in All : \A T \in All : ~(<<T, S>> \in StrictSubsetOrdering(Nat))
  <2> HIDE DEF All
  <2> QED
    BY <1>1, <1>2, FS_StrictSubsetOrderingWellFounded, WFMin
<1>4. PICK e \in E : S = Below(e)
  OBVIOUS
<1>5. {f \in E : f < e} = {}
  <2>1. SUFFICES ASSUME NEW f \in E, f < e PROVE FALSE
    OBVIOUS
  <2>2. Below(f) \subseteq Below(e) /\ Below(f) # Below(e)
    <3>1. e \in Nat /\ f \in Nat /\ e \in Below(e) /\ e \notin Below(f)
      BY <2>1
    <3>2. ASSUME NEW g \in Below(f) PROVE g \in Below(e)
      BY <2>1, <3>1
    <3> QED
      BY <3>1, <3>2
  <2>3. <<Below(f), S>> \in StrictSubsetOrdering(Nat)
    BY <2>2, <1>4 DEF StrictSubsetOrdering
  <2> QED
    BY <2>3, <1>3
<1>6. e \in FirstBatch(E)
  BY <1>5, FS_EmptySet, OutboxWorkerAssumption DEF FirstBatch
<1> QED
  BY <1>6

-----------------------------------------------------------------------------
(* What the actions do *)

\* Worker w is the only one that changes, and its batch stays one that a worker can have.
Moves(w) ==
  /\ pc' \in [Workers -> Phase]
  /\ DOMAIN claimed' = Workers
  /\ \A v \in Workers \ {w} : pc'[v] = pc[v] /\ claimed'[v] = claimed[v]
  /\ claimed'[w] \in [DOMAIN claimed'[w] -> 0 .. MaxAttempts - 1]
  /\ DOMAIN claimed'[w] \subseteq DOMAIN outbox
  /\ \A e \in DOMAIN claimed'[w] : claimed'[w][e] <= outbox[e].attempts
  /\ pc'[w] = "idle" <=> DOMAIN claimed'[w] = {}

\* Rows are added or changed, and no row loses attempts.
RowsKept ==
  /\ outbox' \in [DOMAIN outbox' -> EventRow]
  /\ DOMAIN outbox \subseteq DOMAIN outbox'
  /\ DOMAIN outbox' \subseteq Events
  /\ \A e \in DOMAIN outbox : outbox[e].attempts <= outbox'[e].attempts

\* A worker is at one event of its batch at a time.
LEMMA OneCurrent ==
  ASSUME TypeOK, NEW w \in Workers, NEW e, NEW f, Current(w, e), Current(w, f)
  PROVE  e = f /\ e \in DOMAIN outbox /\ e \in Events /\ e \in Nat
<1>1. e \in DOMAIN claimed[w] /\ f \in DOMAIN claimed[w] /\ e <= f /\ f <= e
  BY DEF Current
<1>2. e \in DOMAIN outbox /\ e \in Events /\ f \in Events
  BY <1>1 DEF TypeOK
<1>3. e \in Nat /\ f \in Nat
  BY <1>2, OutboxWorkerAssumption
<1> QED
  BY <1>1, <1>2, <1>3

\* A worker that only changes its phase.
LEMMA PhaseMoves ==
  ASSUME TypeOK, NEW w \in Workers, NEW p \in Phase \ {"idle"}, pc[w] # "idle",
         pc' = [pc EXCEPT ![w] = p], claimed' = claimed
  PROVE  Moves(w) /\ pc'[w] = p
  BY DEF TypeOK, Moves

\* NextEvent shortens the batch by the current event.
LEMMA NextEventMoves ==
  ASSUME TypeOK, NEW w \in Workers, NEW e, Current(w, e), NextEvent(w, e)
  PROVE  /\ Moves(w)
         /\ DOMAIN claimed'[w] = DOMAIN claimed[w] \ {e}
         /\ pc'[w] \in {"idle", "resolve"}
<1> DEFINE rest == DOMAIN claimed[w] \ {e}
           batch == [f \in rest |-> claimed[w][f]]
<1>1. /\ claimed' = [claimed EXCEPT ![w] = batch]
      /\ pc' = [pc EXCEPT ![w] = IF rest = {} THEN "idle" ELSE "resolve"]
  BY DEF NextEvent
<1>2. pc \in [Workers -> Phase] /\ DOMAIN claimed = Workers
  BY DEF TypeOK
<1>3. /\ claimed[w] \in [DOMAIN claimed[w] -> 0 .. MaxAttempts - 1]
      /\ DOMAIN claimed[w] \subseteq DOMAIN outbox
      /\ \A f \in DOMAIN claimed[w] : claimed[w][f] <= outbox[f].attempts
  BY DEF TypeOK
<1>4. /\ batch \in [rest -> 0 .. MaxAttempts - 1]
      /\ DOMAIN batch = rest
      /\ rest \subseteq DOMAIN outbox
      /\ \A f \in rest : batch[f] <= outbox[f].attempts
  BY <1>3
<1>5. claimed'[w] = batch /\ pc'[w] = IF rest = {} THEN "idle" ELSE "resolve"
  BY <1>1, <1>2
<1>6. pc' \in [Workers -> Phase] /\ DOMAIN claimed' = Workers
  BY <1>1, <1>2 DEF Phase
<1>7. \A v \in Workers \ {w} : pc'[v] = pc[v] /\ claimed'[v] = claimed[v]
  BY <1>1, <1>2
<1> HIDE DEF batch, rest
<1>8. Moves(w)
  BY <1>4, <1>5, <1>6, <1>7 DEF Moves
<1> QED
  BY <1>4, <1>5, <1>8 DEF rest

\* A claim takes only due, pending rows with attempts left, and at least one of them.
LEMMA ClaimDoes ==
  ASSUME TypeOK, NEW w \in Workers, Claim(w)
  PROVE  /\ Moves(w)
         /\ pc[w] = "idle" /\ pc'[w] = "claiming"
         /\ \A e \in DOMAIN claimed'[w] :
              /\ e \in DOMAIN outbox
              /\ outbox[e].status = "pending"
              /\ outbox[e].attempts < MaxAttempts
<1> DEFINE B == FirstBatch(Claimable(w))
           batch == [e \in B |-> outbox[e].attempts]
<1>1. B \subseteq Claimable(w)
  BY DEF FirstBatch
<1>2. Claimable(w) \subseteq DOMAIN outbox /\ Claimable(w) # {}
  BY DEF Claim, Claimable
<1>3. B # {}
  <2>1. Claimable(w) \in SUBSET Nat
    BY <1>2, OutboxWorkerAssumption DEF TypeOK
  <2> QED
    BY <2>1, <1>2, BatchNotEmpty
<1>4. ASSUME NEW e \in B
      PROVE  /\ e \in DOMAIN outbox
             /\ outbox[e].status = "pending"
             /\ outbox[e].attempts < MaxAttempts
             /\ outbox[e].attempts \in Nat
             /\ outbox[e].attempts \in 0 .. MaxAttempts - 1
  <2>1. e \in DOMAIN outbox /\ outbox[e].status = "pending" /\ outbox[e].attempts < MaxAttempts
    BY <1>1 DEF Claimable
  <2>2. outbox[e].attempts \in Nat
    BY <2>1 DEF TypeOK, EventRow
  <2> QED
    BY <2>1, <2>2, OutboxWorkerAssumption
<1>5. /\ claimed' = [claimed EXCEPT ![w] = batch]
      /\ pc' = [pc EXCEPT ![w] = "claiming"]
      /\ pc[w] = "idle"
  BY DEF Claim
<1>6. pc \in [Workers -> Phase] /\ DOMAIN claimed = Workers
  BY DEF TypeOK
<1>7. claimed'[w] = batch /\ pc'[w] = "claiming"
  BY <1>5, <1>6
<1>8. /\ DOMAIN batch = B
      /\ batch \in [B -> 0 .. MaxAttempts - 1]
      /\ \A e \in B : batch[e] <= outbox[e].attempts
  <2> HIDE DEF B
  <2> QED
    BY <1>4
<1>9. /\ pc' \in [Workers -> Phase] /\ DOMAIN claimed' = Workers
      /\ \A v \in Workers \ {w} : pc'[v] = pc[v] /\ claimed'[v] = claimed[v]
  BY <1>5, <1>6 DEF Phase
<1> HIDE DEF B, batch
<1>10. Moves(w)
  BY <1>3, <1>4, <1>7, <1>8, <1>9 DEF Moves
<1> QED
  BY <1>4, <1>5, <1>7, <1>8, <1>10

\* A worker that crashes forgets its batch.
LEMMA CrashDoes ==
  ASSUME TypeOK, NEW w \in Workers, Crash(w)
  PROVE  Moves(w) /\ pc'[w] = "idle" /\ DOMAIN claimed'[w] = {}
<1>1. /\ pc' = [pc EXCEPT ![w] = "idle"]
      /\ claimed' = [claimed EXCEPT ![w] = NoEvents]
  BY DEF Crash
<1>2. DOMAIN NoEvents = {} /\ NoEvents \in [DOMAIN NoEvents -> 0 .. MaxAttempts - 1]
  BY DEF NoEvents
<1>3. pc'[w] = "idle" /\ claimed'[w] = NoEvents
  BY <1>1 DEF TypeOK
<1>4. /\ pc' \in [Workers -> Phase] /\ DOMAIN claimed' = Workers
      /\ \A v \in Workers \ {w} : pc'[v] = pc[v] /\ claimed'[v] = claimed[v]
  BY <1>1 DEF TypeOK, Phase
<1> QED
  BY <1>2, <1>3, <1>4 DEF Moves

\* MarkPublished changes the status of a row, and nothing else that counts.
LEMMA RowPublished ==
  ASSUME NEW r \in EventRow, NEW q, q = [r EXCEPT !.status = "published", !.due = TRUE]
  PROVE  /\ q \in EventRow
         /\ q.msg = r.msg /\ q.status = "published" /\ q.attempts = r.attempts
  BY DEF EventRow

\* MarkFailed counts an attempt, and keeps the row or gives it up.
LEMMA RowFailed ==
  ASSUME NEW r \in EventRow, NEW last \in BOOLEAN, NEW q,
         q = [r EXCEPT !.status = IF last THEN "failed" ELSE r.status,
                       !.attempts = r.attempts + 1, !.due = FALSE]
  PROVE  /\ q \in EventRow
         /\ q.msg = r.msg /\ q.attempts = r.attempts + 1
         /\ q.status = IF last THEN "failed" ELSE r.status
<1>1. r.attempts + 1 \in Nat
  BY DEF EventRow
<1> QED
  BY <1>1 DEF EventRow

\* BackoffElapses changes nothing that counts.
LEMMA RowDue ==
  ASSUME NEW r \in EventRow, NEW q, q = [r EXCEPT !.due = TRUE]
  PROVE  q \in EventRow /\ q.msg = r.msg /\ q.status = r.status /\ q.attempts = r.attempts
  BY DEF EventRow

\* One row changes, and loses no attempts.
LEMMA OneRowChanges ==
  ASSUME TypeOK, NEW e, DOMAIN outbox' = DOMAIN outbox,
         outbox' = [f \in DOMAIN outbox |-> outbox'[f]],
         outbox'[e] \in EventRow, outbox[e].attempts <= outbox'[e].attempts,
         \A f \in DOMAIN outbox : f # e => outbox'[f] = outbox[f]
  PROVE  RowsKept
<1>1. /\ outbox \in [DOMAIN outbox -> EventRow] /\ DOMAIN outbox \subseteq Events
      /\ \A f \in DOMAIN outbox : outbox[f].attempts \in Nat
  BY DEF TypeOK, EventRow
<1>2. \A f \in DOMAIN outbox : outbox'[f] \in EventRow
  BY <1>1
<1>3. \A f \in DOMAIN outbox : outbox[f].attempts <= outbox'[f].attempts
  <2> TAKE f \in DOMAIN outbox
  <2>1. CASE f = e
    BY <2>1
  <2>2. CASE f # e
    <3>1. outbox'[f] = outbox[f] /\ outbox[f].attempts \in Nat
      BY <1>1, <2>2
    <3> QED
      BY <3>1
  <2> QED
    BY <2>1, <2>2
<1>4. outbox' \in [DOMAIN outbox' -> EventRow]
  BY <1>2
<1> QED
  BY <1>1, <1>3, <1>4 DEF RowsKept

\* The current event is marked published.
LEMMA MarkPublishedDoes ==
  ASSUME TypeOK, NEW w \in Workers, MarkPublished(w)
  PROVE  \E e \in DOMAIN outbox :
           /\ pc[w] = "mark" /\ Current(w, e)
           /\ Moves(w)
           /\ DOMAIN claimed'[w] = DOMAIN claimed[w] \ {e}
           /\ pc'[w] \in {"idle", "resolve"}
           /\ DOMAIN outbox' = DOMAIN outbox /\ RowsKept
           /\ outbox'[e].msg = outbox[e].msg /\ outbox'[e].status = "published"
           /\ outbox'[e].attempts = outbox[e].attempts
           /\ \A f \in DOMAIN outbox : f # e => outbox'[f] = outbox[f]
<1>1. PICK e \in DOMAIN claimed[w] :
        /\ Current(w, e)
        /\ outbox' = [outbox EXCEPT ![e].status = "published", ![e].due = TRUE]
        /\ NextEvent(w, e)
  BY DEF MarkPublished
<1>2. e \in DOMAIN outbox
  BY <1>1, OneCurrent
<1>3. /\ outbox \in [DOMAIN outbox -> EventRow]
      /\ DOMAIN outbox \subseteq Events
      /\ \A f \in DOMAIN outbox : outbox[f].attempts \in Nat
  BY DEF TypeOK, EventRow
<1>4. /\ DOMAIN outbox' = DOMAIN outbox
      /\ outbox'[e] = [outbox[e] EXCEPT !.status = "published", !.due = TRUE]
      /\ \A f \in DOMAIN outbox : f # e => outbox'[f] = outbox[f]
  BY <1>1, <1>2, <1>3
<1>5. outbox[e] \in EventRow
  BY <1>2, <1>3
<1>6. /\ outbox'[e] \in EventRow /\ outbox'[e].msg = outbox[e].msg
      /\ outbox'[e].status = "published" /\ outbox'[e].attempts = outbox[e].attempts
  <2>1. outbox'[e] = [outbox[e] EXCEPT !.status = "published", !.due = TRUE]
    BY <1>4
  <2> QED
    BY <1>5, <2>1, RowPublished
<1>7. RowsKept
  <2>1. outbox' = [f \in DOMAIN outbox |-> outbox'[f]]
    BY <1>1, <1>3
  <2>2. outbox[e].attempts <= outbox'[e].attempts
    BY <1>2, <1>3, <1>6
  <2> QED
    BY <2>1, <2>2, <1>4, <1>6, OneRowChanges
<1>8. /\ Moves(w)
      /\ DOMAIN claimed'[w] = DOMAIN claimed[w] \ {e}
      /\ pc'[w] \in {"idle", "resolve"}
  BY <1>1, NextEventMoves
<1>9. pc[w] = "mark" /\ Current(w, e)
  BY <1>1 DEF MarkPublished
<1> QED
  BY <1>2, <1>4, <1>6, <1>7, <1>8, <1>9

\* MarkFailed counts one attempt of the current event and may give it up.
LEMMA MarkFailedDoes ==
  ASSUME TypeOK, NEW w \in Workers, MarkFailed(w)
  PROVE  \E e \in DOMAIN outbox :
           /\ pc[w] = "fail" /\ Current(w, e)
           /\ Moves(w)
           /\ DOMAIN claimed'[w] = DOMAIN claimed[w] \ {e}
           /\ pc'[w] \in {"idle", "resolve"}
           /\ DOMAIN outbox' = DOMAIN outbox /\ RowsKept
           /\ outbox'[e].msg = outbox[e].msg
           /\ outbox'[e].attempts = outbox[e].attempts + 1
           /\ outbox'[e].status =
                IF LastAttempt(claimed[w][e]) THEN "failed" ELSE outbox[e].status
           /\ \A f \in DOMAIN outbox : f # e => outbox'[f] = outbox[f]
<1>1. PICK e \in DOMAIN claimed[w] :
        /\ Current(w, e)
        /\ outbox' = [outbox EXCEPT
             ![e].status = IF LastAttempt(claimed[w][e]) THEN "failed" ELSE @,
             ![e].attempts = @ + 1, ![e].due = FALSE]
        /\ NextEvent(w, e)
  BY DEF MarkFailed
<1>2. e \in DOMAIN outbox
  BY <1>1, OneCurrent
<1>3. /\ outbox \in [DOMAIN outbox -> EventRow]
      /\ DOMAIN outbox \subseteq Events
      /\ \A f \in DOMAIN outbox : outbox[f].attempts \in Nat
  BY DEF TypeOK, EventRow
<1>4. /\ DOMAIN outbox' = DOMAIN outbox
      /\ outbox'[e] = [outbox[e] EXCEPT
           !.status = IF LastAttempt(claimed[w][e]) THEN "failed" ELSE @,
           !.attempts = @ + 1, !.due = FALSE]
      /\ \A f \in DOMAIN outbox : f # e => outbox'[f] = outbox[f]
  BY <1>1, <1>2, <1>3
<1>5. outbox[e] \in EventRow
  BY <1>2, <1>3
<1>6. /\ outbox'[e] \in EventRow /\ outbox'[e].msg = outbox[e].msg
      /\ outbox'[e].attempts = outbox[e].attempts + 1
      /\ outbox'[e].status =
           IF LastAttempt(claimed[w][e]) THEN "failed" ELSE outbox[e].status
  <2> DEFINE last == LastAttempt(claimed[w][e])
  <2>1. outbox'[e] = [outbox[e] EXCEPT
                        !.status = IF last THEN "failed" ELSE outbox[e].status,
                        !.attempts = outbox[e].attempts + 1, !.due = FALSE]
    BY <1>4
  <2>2. last \in BOOLEAN
    BY DEF LastAttempt
  <2> HIDE DEF last
  <2>3. \A r \in EventRow : \A q :
          q = [r EXCEPT !.status = IF last THEN "failed" ELSE r.status,
                        !.attempts = r.attempts + 1, !.due = FALSE] =>
            /\ q \in EventRow /\ q.msg = r.msg /\ q.attempts = r.attempts + 1
            /\ q.status = IF last THEN "failed" ELSE r.status
    BY <2>2, RowFailed
  <2>4. /\ outbox'[e] \in EventRow /\ outbox'[e].msg = outbox[e].msg
        /\ outbox'[e].attempts = outbox[e].attempts + 1
        /\ outbox'[e].status = IF last THEN "failed" ELSE outbox[e].status
    BY <1>5, <2>1, <2>3
  <2> QED
    BY <2>4 DEF last
<1>7. RowsKept
  <2>1. outbox' = [f \in DOMAIN outbox |-> outbox'[f]]
    BY <1>1, <1>3
  <2>2. outbox[e].attempts <= outbox'[e].attempts
    BY <1>2, <1>3, <1>6
  <2> QED
    BY <2>1, <2>2, <1>4, <1>6, OneRowChanges
<1>8. /\ Moves(w)
      /\ DOMAIN claimed'[w] = DOMAIN claimed[w] \ {e}
      /\ pc'[w] \in {"idle", "resolve"}
  BY <1>1, NextEventMoves
<1>9. pc[w] = "fail" /\ Current(w, e)
  BY <1>1 DEF MarkFailed
<1>10. /\ DOMAIN outbox' = DOMAIN outbox
       /\ \A f \in DOMAIN outbox : f # e => outbox'[f] = outbox[f]
  BY <1>4
<1> QED
  BY <1>2, <1>6, <1>7, <1>8, <1>9, <1>10

\* A lost mark leaves the row alone.
LEMMA MarkLostDoes ==
  ASSUME TypeOK, NEW w \in Workers, MarkLost(w)
  PROVE  \E e \in DOMAIN outbox :
           /\ Current(w, e)
           /\ Moves(w)
           /\ DOMAIN claimed'[w] = DOMAIN claimed[w] \ {e}
           /\ pc'[w] \in {"idle", "resolve"}
  BY OneCurrent, NextEventMoves DEF MarkLost

\* A commit adds one row, of an event that nobody holds and a message that no row names.
LEMMA CommitEventDoes ==
  ASSUME TypeOK, NEW e \in Events, NEW m \in Messages, NEW c \in Chats, CommitEvent(e, m, c)
  PROVE  /\ e \notin DOMAIN outbox /\ DOMAIN outbox' = DOMAIN outbox \cup {e}
         /\ outbox'[e] = [msg |-> m, chat |-> c, status |-> "pending", attempts |-> 0,
                          due |-> TRUE]
         /\ \A f \in DOMAIN outbox : outbox'[f] = outbox[f] /\ outbox[f].msg # m
         /\ \A w \in Workers : e \notin DOMAIN claimed[w]
         /\ stored' = stored \cup {m}
         /\ RowsKept
<1>1. /\ e \notin DOMAIN outbox /\ DOMAIN outbox' = DOMAIN outbox \cup {e}
      /\ outbox'[e] = [msg |-> m, chat |-> c, status |-> "pending", attempts |-> 0,
                       due |-> TRUE]
      /\ \A f \in DOMAIN outbox : outbox'[f] = outbox[f] /\ outbox[f].msg # m
      /\ stored' = stored \cup {m}
  BY DEF CommitEvent
<1>2. /\ outbox \in [DOMAIN outbox -> EventRow] /\ DOMAIN outbox \subseteq Events
      /\ \A w \in Workers : DOMAIN claimed[w] \subseteq DOMAIN outbox
      /\ \A f \in DOMAIN outbox : outbox[f].attempts \in Nat
  BY DEF TypeOK, EventRow
<1>3. outbox'[e] \in EventRow
  BY <1>1 DEF EventRow
<1>4. \A f \in DOMAIN outbox' : outbox'[f] \in EventRow
  BY <1>1, <1>2, <1>3
<1>5. outbox' = [f \in DOMAIN outbox' |-> outbox'[f]]
  BY <1>1 DEF CommitEvent
<1>6. outbox' \in [DOMAIN outbox' -> EventRow]
  BY <1>4, <1>5
<1>7. RowsKept
  BY <1>1, <1>2, <1>6 DEF RowsKept
<1> QED
  BY <1>1, <1>2, <1>7

\* Time makes a row due again.
LEMMA BackoffElapsesDoes ==
  ASSUME TypeOK, NEW e \in Events, BackoffElapses(e)
  PROVE  /\ RowsKept /\ DOMAIN outbox' = DOMAIN outbox
         /\ \A f \in DOMAIN outbox :
              /\ outbox'[f].msg = outbox[f].msg
              /\ outbox'[f].status = outbox[f].status
              /\ outbox'[f].attempts = outbox[f].attempts
<1>1. e \in DOMAIN outbox /\ outbox' = [outbox EXCEPT ![e].due = TRUE]
  BY DEF BackoffElapses
<1>2. /\ outbox \in [DOMAIN outbox -> EventRow] /\ DOMAIN outbox \subseteq Events
      /\ \A f \in DOMAIN outbox : outbox[f].attempts \in Nat
  BY DEF TypeOK, EventRow
<1>3. /\ DOMAIN outbox' = DOMAIN outbox
      /\ outbox'[e] = [outbox[e] EXCEPT !.due = TRUE]
      /\ \A f \in DOMAIN outbox : f # e => outbox'[f] = outbox[f]
  BY <1>1, <1>2
<1>4. outbox[e] \in EventRow
  BY <1>1, <1>2
<1>5. /\ outbox'[e] \in EventRow /\ outbox'[e].msg = outbox[e].msg
      /\ outbox'[e].status = outbox[e].status /\ outbox'[e].attempts = outbox[e].attempts
  <2>1. outbox'[e] = [outbox[e] EXCEPT !.due = TRUE]
    BY <1>3
  <2> QED
    BY <1>4, <2>1, RowDue
<1>6. RowsKept
  <2>1. outbox' = [f \in DOMAIN outbox |-> outbox'[f]]
    BY <1>1, <1>2
  <2>2. outbox[e].attempts <= outbox'[e].attempts
    BY <1>1, <1>2, <1>5
  <2> QED
    BY <2>1, <2>2, <1>3, <1>5, OneRowChanges
<1> QED
  BY <1>3, <1>5, <1>6

-----------------------------------------------------------------------------
(* Types, and the workers' part in the counts *)

\* A step of worker w that keeps the rows keeps the types.
LEMMA MovesType ==
  ASSUME TypeOK, NEW w \in Workers, Moves(w), RowsKept,
         stored' \subseteq Messages, published' \in [Events -> Nat], faults' \in 0 .. MaxFaults
  PROVE  TypeOK'
<1>1. ASSUME NEW v \in Workers
      PROVE  /\ claimed'[v] \in [DOMAIN claimed'[v] -> 0 .. MaxAttempts - 1]
             /\ DOMAIN claimed'[v] \subseteq DOMAIN outbox
             /\ \A e \in DOMAIN claimed'[v] : claimed'[v][e] <= outbox[e].attempts
             /\ pc'[v] = "idle" <=> DOMAIN claimed'[v] = {}
  <2>1. CASE v = w
    BY <2>1 DEF Moves
  <2>2. CASE v # w
    <3>1. pc'[v] = pc[v] /\ claimed'[v] = claimed[v]
      BY <2>2 DEF Moves
    <3> QED
      BY <3>1 DEF TypeOK
  <2> QED
    BY <2>1, <2>2
<1>2. ASSUME NEW v \in Workers
      PROVE  /\ DOMAIN claimed'[v] \subseteq DOMAIN outbox'
             /\ \A e \in DOMAIN claimed'[v] : claimed'[v][e] <= outbox'[e].attempts
  <2>1. ASSUME NEW e \in DOMAIN claimed'[v]
        PROVE  e \in DOMAIN outbox' /\ claimed'[v][e] <= outbox'[e].attempts
    <3>1. e \in DOMAIN outbox /\ claimed'[v][e] <= outbox[e].attempts
      BY <1>1
    <3>2. e \in DOMAIN outbox' /\ outbox[e].attempts <= outbox'[e].attempts
      BY <3>1 DEF RowsKept
    <3>3. outbox[e] \in EventRow /\ outbox'[e] \in EventRow
      BY <3>1, <3>2 DEF RowsKept, TypeOK
    <3>4. outbox[e].attempts \in Nat /\ outbox'[e].attempts \in Nat
      BY <3>3 DEF EventRow
    <3>5. claimed'[v][e] \in 0 .. MaxAttempts - 1
      BY <1>1
    <3>6. claimed'[v][e] \in Nat
      BY <3>5, OutboxWorkerAssumption
    <3> QED
      BY <3>1, <3>2, <3>4, <3>6
  <2> QED
    BY <2>1
<1>3. pc' \in [Workers -> Phase] /\ DOMAIN claimed' = Workers
  BY DEF Moves
<1> QED
  BY <1>1, <1>2, <1>3 DEF TypeOK, RowsKept

\* How two counts of workers compare that differ in worker w at most.
Differ(S, T, w) ==
  /\ S \ {w} = T \ {w}
  /\ Cardinality(S) \in Nat /\ Cardinality(T) \in Nat
  /\ Cardinality(T) <= Cardinality(Workers)
  /\ (w \in S <=> w \in T) => Cardinality(S) = Cardinality(T)
  /\ w \in S /\ w \notin T => Cardinality(S) = Cardinality(T) + 1
  /\ w \notin S /\ w \in T => Cardinality(T) = Cardinality(S) + 1

\* A step of worker w moves only w in or out of an event's counts.
LEMMA WorkerCounts ==
  ASSUME NEW w \in Workers, Moves(w), NEW e
  PROVE  /\ Differ(Holders(e), Holders(e)', w)
         /\ Differ(Failing(e), Failing(e)', w)
         /\ Differ(Marking(e), Marking(e)', w)
         /\ Differ(Publishing(e), Publishing(e)', w)
<1>1. \A v \in Workers \ {w} : pc'[v] = pc[v] /\ claimed'[v] = claimed[v]
  BY DEF Moves
<1>2. \A v \in Workers \ {w} : Current(v, e)' <=> Current(v, e)
  BY <1>1 DEF Current
<1>3. /\ Holders(e) \ {w} = Holders(e)' \ {w}
      /\ Failing(e) \ {w} = Failing(e)' \ {w}
      /\ Marking(e) \ {w} = Marking(e)' \ {w}
  BY <1>1, <1>2 DEF Holders, Failing, Marking
<1>4. Publishing(e) \ {w} = Publishing(e)' \ {w}
  BY <1>3 DEF Publishing
<1>5. /\ Holders(e) \in SUBSET Workers /\ Holders(e)' \in SUBSET Workers
      /\ Failing(e) \in SUBSET Workers /\ Failing(e)' \in SUBSET Workers
      /\ Marking(e) \in SUBSET Workers /\ Marking(e)' \in SUBSET Workers
      /\ Publishing(e) \in SUBSET Workers /\ Publishing(e)' \in SUBSET Workers
  BY DEF Holders, Failing, Marking, Publishing
<1>6. ASSUME NEW S \in SUBSET Workers, NEW T \in SUBSET Workers, S \ {w} = T \ {w}
      PROVE  Differ(S, T, w)
  BY <1>6, CountFrame, CountIsNat DEF Differ
<1> QED
  BY <1>3, <1>4, <1>5, <1>6

\* When worker w counts, before and after a step.
LEMMA WorkerCounted ==
  ASSUME NEW w \in Workers, NEW e
  PROVE  /\ w \in Holders(e) <=> e \in DOMAIN claimed[w]
         /\ w \in Failing(e) <=> pc[w] = "fail" /\ Current(w, e)
         /\ w \in Marking(e) <=> pc[w] = "mark" /\ Current(w, e)
         /\ w \in Publishing(e) <=> e \in DOMAIN claimed[w] /\ w \notin Marking(e)
         /\ w \in Holders(e)' <=> e \in DOMAIN claimed'[w]
         /\ w \in Failing(e)' <=> pc'[w] = "fail" /\ Current(w, e)'
         /\ w \in Marking(e)' <=> pc'[w] = "mark" /\ Current(w, e)'
         /\ w \in Publishing(e)' <=> e \in DOMAIN claimed'[w] /\ w \notin Marking(e)'
  BY DEF Holders, Failing, Marking, Publishing

\* The numbers in the books of an event are natural numbers.
LEMMA RowNumbers ==
  ASSUME TypeOK, NEW e \in DOMAIN outbox
  PROVE  /\ e \in Events
         /\ outbox[e].attempts \in Nat /\ published[e] \in Nat /\ faults \in Nat
         /\ MaxAttempts \in Nat /\ Cardinality(Workers) \in Nat
<1>1. e \in Events /\ outbox[e] \in EventRow
  BY DEF TypeOK
<1>2. Cardinality(Workers) \in Nat
  BY CountIsNat
<1> QED
  BY <1>1, <1>2, OutboxWorkerAssumption DEF TypeOK, EventRow

-----------------------------------------------------------------------------
(* The steps of a worker *)

\* A step of worker w that leaves row f alone keeps its books, if w joins a count only
\* when the failure it may cause does not count or is paid for by a fault.
LEMMA QuietStep ==
  ASSUME TypeOK, NEW w \in Workers, Moves(w), NEW f \in DOMAIN outbox, Balanced(f),
         outbox'[f].msg = outbox[f].msg, outbox'[f].status = outbox[f].status,
         outbox'[f].attempts = outbox[f].attempts,
         stored' = stored, published'[f] = published[f],
         faults' = faults \/ faults' = faults + 1,
         w \in Holders(f)' => w \in Holders(f),
         w \in Failing(f)' =>
           w \in Failing(f) \/ faults' = faults + 1 \/ outbox[f].msg \notin stored,
         w \in Marking(f)' <=> w \in Marking(f) /\ faults' = faults,
         w \in Publishing(f)' => w \in Publishing(f)
  PROVE  Balanced(f)'
<1>1. /\ Differ(Holders(f), Holders(f)', w) /\ Differ(Failing(f), Failing(f)', w)
      /\ Differ(Marking(f), Marking(f)', w) /\ Differ(Publishing(f), Publishing(f)', w)
  BY WorkerCounts
<1>2. /\ outbox[f].attempts \in Nat /\ published[f] \in Nat /\ faults \in Nat
      /\ MaxAttempts \in Nat /\ Cardinality(Workers) \in Nat
  BY RowNumbers
<1>3. AttemptsHeld(f)'
  BY <1>1, <1>2 DEF Balanced, AttemptsHeld, Differ
<1>4. FailuresCounted(f)'
  BY <1>1, <1>2 DEF Balanced, FailuresCounted, Differ
<1>5. MarkDelivered(f)'
  <2>1. Marking(f)' # {} => Marking(f) # {}
    BY <1>1 DEF Differ
  <2> QED
    BY <2>1 DEF Balanced, MarkDelivered
<1>6. PublishedHeld(f)'
  BY <1>1, <1>2 DEF Balanced, PublishedHeld, Differ
<1>7. PendingPublished(f)'
  BY <1>1, <1>2 DEF Balanced, PendingPublished, Differ
<1>8. NotLost(f)'
  BY <1>2 DEF Balanced, NotLost
<1> QED
  BY <1>3, <1>4, <1>5, <1>6, <1>7, <1>8 DEF Balanced

\* A step of worker w that leaves the tables alone and publishes known events only.
LEMMA SameRows ==
  ASSUME IInv, NEW w \in Workers, Moves(w), rows' = rows,
         published' \in [Events -> Nat], faults' \in 0 .. MaxFaults,
         \A e \in Events \ DOMAIN outbox : published'[e] = published[e],
         \A f \in DOMAIN outbox : Balanced(f)'
  PROVE  IInv'
<1>1. TypeOK /\ NothingEarly /\ outbox' = outbox /\ stored' = stored
  BY DEF IInv, rows
<1>2. RowsKept
  <2>1. \A e \in DOMAIN outbox : outbox[e].attempts <= outbox[e].attempts
    BY <1>1, RowNumbers
  <2> QED
    BY <1>1, <2>1 DEF RowsKept, TypeOK
<1>3. TypeOK'
  BY <1>1, <1>2, MovesType DEF TypeOK
<1>4. NothingEarly'
  BY <1>1 DEF NothingEarly
<1> QED
  BY <1>1, <1>3, <1>4 DEF IInv

\* A claim: the worker joins the holders of pending events that have attempts left.
LEMMA ClaimKeeps ==
  ASSUME IInv, NEW w \in Workers, Claim(w)
  PROVE  IInv'
<1>1. TypeOK /\ UNCHANGED <<rows, published, faults>>
  BY DEF IInv, Claim
<1>2. /\ Moves(w)
      /\ pc[w] = "idle" /\ pc'[w] = "claiming"
      /\ DOMAIN claimed[w] = {}
      /\ \A e \in DOMAIN claimed'[w] :
           e \in DOMAIN outbox /\ outbox[e].status = "pending" /\ outbox[e].attempts < MaxAttempts
  BY <1>1, ClaimDoes DEF TypeOK
<1>3. ASSUME NEW f \in DOMAIN outbox
      PROVE  Balanced(f)'
  <2>1. Balanced(f) /\ outbox' = outbox /\ stored' = stored /\ published' = published
        /\ faults' = faults
    BY <1>1 DEF IInv, rows
  <2>2. /\ w \notin Holders(f) /\ w \notin Failing(f) /\ w \notin Failing(f)'
        /\ w \notin Marking(f) /\ w \notin Marking(f)' /\ w \notin Publishing(f)
        /\ w \in Holders(f)' <=> f \in DOMAIN claimed'[w]
        /\ w \in Publishing(f)' <=> f \in DOMAIN claimed'[w]
    BY <1>2, WorkerCounted
  <2>3. CASE f \notin DOMAIN claimed'[w]
    BY <1>1, <1>2, <2>1, <2>2, <2>3, QuietStep
  <2>4. CASE f \in DOMAIN claimed'[w]
    <3>1. outbox[f].status = "pending" /\ outbox[f].attempts < MaxAttempts
      BY <1>2, <2>4
    <3>2. /\ outbox[f].attempts \in Nat /\ published[f] \in Nat /\ faults \in Nat
          /\ MaxAttempts \in Nat /\ Cardinality(Workers) \in Nat
      BY <1>1, RowNumbers
    <3>3. /\ Differ(Holders(f), Holders(f)', w) /\ Differ(Failing(f), Failing(f)', w)
          /\ Differ(Marking(f), Marking(f)', w)
      BY <1>2, WorkerCounts
    <3>4. AttemptsHeld(f)'
      BY <2>1, <3>1, <3>2, <3>3 DEF AttemptsHeld, Differ
    <3>5. FailuresCounted(f)'
      BY <2>1, <2>2, <3>3 DEF Balanced, FailuresCounted, Differ
    <3>6. Marking(f)' = Marking(f)
      <4>1. Marking(f) \ {w} = Marking(f)' \ {w}
        BY <3>3 DEF Differ
      <4> QED
        BY <4>1, <2>2
    <3>7. MarkDelivered(f)'
      BY <2>1, <3>6 DEF Balanced, MarkDelivered
    <3>8. PublishedHeld(f)'
      <4>1. published[f] <= faults + Cardinality(Marking(f))
        BY <2>1, <3>1 DEF Balanced, PendingPublished
      <4>2. /\ Publishing(f)' \in SUBSET Workers /\ Marking(f)' \in SUBSET Workers
            /\ Publishing(f)' \cap Marking(f)' = {}
        BY DEF Publishing, Marking, Holders
      <4>3. Cardinality(Publishing(f)') + Cardinality(Marking(f)') <= Cardinality(Workers)
        BY <4>2, CountDisjoint
      <4>4. Cardinality(Publishing(f)') \in Nat /\ Cardinality(Marking(f)') \in Nat
        BY <4>2, CountIsNat
      <4>5. published[f] + Cardinality(Publishing(f)') <= Cardinality(Workers) + faults
        BY <4>1, <4>3, <4>4, <3>2, <3>6
      <4> QED
        BY <4>5, <2>1 DEF PublishedHeld
    <3>9. PendingPublished(f)'
      BY <2>1, <3>6 DEF Balanced, PendingPublished
    <3>10. NotLost(f)'
      BY <2>1 DEF Balanced, NotLost
    <3> QED
      BY <3>4, <3>5, <3>7, <3>8, <3>9, <3>10 DEF Balanced
  <2> QED
    BY <2>3, <2>4
<1> QED
  BY <1>1, <1>2, <1>3, SameRows DEF TypeOK

\* The steps in which a worker only changes its phase: EndClaim, Resolve, CallFails.
LEMMA PhaseKeeps ==
  ASSUME IInv, NEW w \in Workers, EndClaim(w) \/ Resolve(w) \/ CallFails(w)
  PROVE  IInv'
<1>1. /\ TypeOK /\ UNCHANGED <<rows, published, claimed>>
      /\ faults' = faults \/ faults' = faults + 1
      /\ faults' \in 0 .. MaxFaults
  BY OutboxWorkerAssumption DEF IInv, TypeOK, EndClaim, Resolve, CallFails, Fault
<1>2. PICK p \in Phase \ {"idle"} :
        /\ pc' = [pc EXCEPT ![w] = p]
        /\ pc[w] \in {"claiming", "resolve", "publish"}
        /\ p \in {"resolve", "publish", "fail"}
        /\ p = "fail" => \/ faults' = faults + 1
                        \/ \E e \in DOMAIN claimed[w] :
                             Current(w, e) /\ outbox[e].msg \notin stored
  BY DEF EndClaim, Resolve, CallFails, Fault, Phase
<1>3. Moves(w) /\ pc'[w] = p
  BY <1>1, <1>2, PhaseMoves
<1>4. ASSUME NEW f \in DOMAIN outbox
      PROVE  Balanced(f)'
  <2>1. /\ Balanced(f) /\ outbox' = outbox /\ stored' = stored /\ published' = published
        /\ claimed' = claimed
    BY <1>1 DEF IInv, rows
  <2>2. Current(w, f)' <=> Current(w, f)
    BY <2>1 DEF Current
  <2>3. /\ w \in Holders(f)' <=> w \in Holders(f)
        /\ w \notin Marking(f) /\ w \notin Marking(f)'
        /\ w \in Publishing(f)' <=> w \in Publishing(f)
        /\ w \in Failing(f)' <=> p = "fail" /\ Current(w, f)
    BY <1>2, <1>3, <2>1, <2>2, WorkerCounted
  <2>4. w \in Failing(f)' => faults' = faults + 1 \/ outbox[f].msg \notin stored
    BY <1>1, <1>2, <2>3, OneCurrent
  <2> QED
    BY <1>1, <1>3, <2>1, <2>3, <2>4, QuietStep
<1> QED
  BY <1>1, <1>3, <1>4, SameRows DEF TypeOK

\* A worker publishes its current event: one publication more, and one worker less that
\* may still publish it.
LEMMA PublishKeeps ==
  ASSUME IInv, NEW w \in Workers, Publish(w)
  PROVE  IInv'
<1>1. TypeOK /\ UNCHANGED <<rows, claimed, faults>> /\ pc[w] = "publish"
  BY DEF IInv, Publish
<1>2. Moves(w) /\ pc'[w] = "mark"
  BY <1>1, PhaseMoves DEF Publish, Phase
<1>3. PICK e \in DOMAIN claimed[w] :
        Current(w, e) /\ published' = [published EXCEPT ![e] = @ + 1]
  BY DEF Publish
<1>4. e \in DOMAIN outbox /\ e \in Events
  BY <1>1, <1>3, OneCurrent
<1>5. /\ published' \in [Events -> Nat] /\ published'[e] = published[e] + 1
      /\ \A f \in Events : f # e => published'[f] = published[f]
  BY <1>1, <1>3, <1>4 DEF TypeOK
<1>6. ASSUME NEW f \in DOMAIN outbox
      PROVE  Balanced(f)'
  <2>1. /\ Balanced(f) /\ outbox' = outbox /\ stored' = stored /\ faults' = faults
        /\ claimed' = claimed /\ f \in Events
    BY <1>1 DEF IInv, rows, TypeOK
  <2>2. Current(w, f)' <=> Current(w, f)
    BY <2>1 DEF Current
  <2>3. Current(w, f) <=> f = e
    BY <1>1, <1>3, OneCurrent
  <2>4. /\ w \in Holders(f)' <=> w \in Holders(f)
        /\ w \notin Failing(f) /\ w \notin Failing(f)'
        /\ w \notin Marking(f)
        /\ w \in Marking(f)' <=> f = e
        /\ w \in Publishing(f) <=> f \in DOMAIN claimed[w]
        /\ w \in Publishing(f)' <=> f \in DOMAIN claimed[w] /\ f # e
    BY <1>1, <1>2, <2>1, <2>2, <2>3, WorkerCounted
  <2>5. CASE f # e
    BY <1>1, <1>2, <1>5, <2>1, <2>4, <2>5, QuietStep
  <2>6. CASE f = e
    <3>1. /\ outbox[f].attempts \in Nat /\ published[f] \in Nat /\ faults \in Nat
          /\ Cardinality(Workers) \in Nat /\ published'[f] = published[f] + 1
      BY <1>1, <1>5, <2>6, RowNumbers
    <3>2. /\ Differ(Holders(f), Holders(f)', w) /\ Differ(Failing(f), Failing(f)', w)
          /\ Differ(Marking(f), Marking(f)', w) /\ Differ(Publishing(f), Publishing(f)', w)
      BY <1>2, WorkerCounts
    <3>3. AttemptsHeld(f)' /\ FailuresCounted(f)'
      BY <2>1, <2>4, <3>2 DEF Balanced, AttemptsHeld, FailuresCounted, Differ
    <3>4. MarkDelivered(f)'
      BY <3>1 DEF MarkDelivered
    <3>5. PublishedHeld(f)'
      BY <2>1, <2>4, <1>3, <2>6, <3>1, <3>2 DEF Balanced, PublishedHeld, Differ
    <3>6. PendingPublished(f)'
      BY <2>1, <2>4, <2>6, <3>1, <3>2 DEF Balanced, PendingPublished, Differ
    <3>7. NotLost(f)'
      BY <2>1, <3>1 DEF Balanced, NotLost
    <3> QED
      BY <3>3, <3>4, <3>5, <3>6, <3>7 DEF Balanced
  <2> QED
    BY <2>5, <2>6
<1>7. \A f \in Events \ DOMAIN outbox : published'[f] = published[f]
  BY <1>4, <1>5
<1> QED
  BY <1>1, <1>2, <1>5, <1>6, <1>7, SameRows DEF TypeOK

\* A publication whose answer is lost is paid for by a fault.
LEMMA PublishUnacknowledgedKeeps ==
  ASSUME IInv, NEW w \in Workers, PublishUnacknowledged(w)
  PROVE  IInv'
<1>1. /\ TypeOK /\ UNCHANGED <<rows, claimed>> /\ pc[w] = "publish"
      /\ faults' = faults + 1 /\ faults' \in 0 .. MaxFaults
  BY OutboxWorkerAssumption DEF IInv, TypeOK, PublishUnacknowledged, Fault
<1>2. PICK next \in {"publish", "fail"} : pc' = [pc EXCEPT ![w] = next]
  BY DEF PublishUnacknowledged
<1>3. Moves(w) /\ pc'[w] = next
  BY <1>1, <1>2, PhaseMoves DEF Phase
<1>4. PICK e \in DOMAIN claimed[w] :
        Current(w, e) /\ published' = [published EXCEPT ![e] = @ + 1]
  BY DEF PublishUnacknowledged
<1>5. e \in DOMAIN outbox /\ e \in Events
  BY <1>1, <1>4, OneCurrent
<1>6. /\ published' \in [Events -> Nat] /\ published'[e] = published[e] + 1
      /\ \A f \in Events : f # e => published'[f] = published[f]
  BY <1>1, <1>4, <1>5 DEF TypeOK
<1>7. ASSUME NEW f \in DOMAIN outbox
      PROVE  Balanced(f)'
  <2>1. /\ Balanced(f) /\ outbox' = outbox /\ stored' = stored /\ claimed' = claimed
        /\ f \in Events
    BY <1>1 DEF IInv, rows, TypeOK
  <2>2. /\ w \in Holders(f)' <=> w \in Holders(f)
        /\ w \notin Failing(f)
        /\ w \notin Marking(f) /\ w \notin Marking(f)'
        /\ w \in Publishing(f)' <=> w \in Publishing(f)
    BY <1>1, <1>3, <2>1, WorkerCounted
  <2>3. /\ outbox[f].attempts \in Nat /\ published[f] \in Nat /\ faults \in Nat
        /\ Cardinality(Workers) \in Nat
        /\ published'[f] = published[f] \/ published'[f] = published[f] + 1
    BY <1>1, <1>6, <2>1, RowNumbers
  <2>4. /\ Differ(Holders(f), Holders(f)', w) /\ Differ(Failing(f), Failing(f)', w)
        /\ Differ(Marking(f), Marking(f)', w) /\ Differ(Publishing(f), Publishing(f)', w)
    BY <1>3, WorkerCounts
  <2>5. AttemptsHeld(f)'
    BY <2>1, <2>2, <2>4 DEF Balanced, AttemptsHeld, Differ
  <2>6. FailuresCounted(f)'
    BY <1>1, <2>1, <2>3, <2>4 DEF Balanced, FailuresCounted, Differ
  <2>7. MarkDelivered(f)'
    <3>1. Marking(f)' # {} => Marking(f) # {}
      BY <2>2, <2>4 DEF Differ
    <3> QED
      BY <2>1, <2>3, <3>1 DEF Balanced, MarkDelivered
  <2>8. PublishedHeld(f)'
    BY <1>1, <2>1, <2>2, <2>3, <2>4 DEF Balanced, PublishedHeld, Differ
  <2>9. PendingPublished(f)'
    BY <1>1, <2>1, <2>2, <2>3, <2>4 DEF Balanced, PendingPublished, Differ
  <2>10. NotLost(f)'
    BY <1>1, <2>1, <2>3, OutboxWorkerAssumption DEF Balanced, NotLost
  <2> QED
    BY <2>5, <2>6, <2>7, <2>8, <2>9, <2>10 DEF Balanced
<1>8. \A f \in Events \ DOMAIN outbox : published'[f] = published[f]
  BY <1>5, <1>6
<1> QED
  BY <1>1, <1>3, <1>6, <1>7, <1>8, SameRows

\* A worker that loses a mark, or crashes, leaves the counts at the price of a fault.
LEMMA LossKeeps ==
  ASSUME IInv, NEW w \in Workers, MarkLost(w) \/ Crash(w)
  PROVE  IInv'
<1>1. /\ TypeOK /\ UNCHANGED <<rows, published>>
      /\ faults' = faults + 1 /\ faults' \in 0 .. MaxFaults
  BY OutboxWorkerAssumption DEF IInv, TypeOK, MarkLost, Crash, Fault
<1>2. /\ Moves(w) /\ pc'[w] \in {"idle", "resolve"}
      /\ DOMAIN claimed'[w] \subseteq DOMAIN claimed[w]
      /\ \A f \in DOMAIN claimed'[w] : ~(pc[w] = "mark" /\ Current(w, f))
  <2>1. CASE MarkLost(w)
    BY <1>1, <2>1, MarkLostDoes, OneCurrent
  <2>2. CASE Crash(w)
    BY <1>1, <2>2, CrashDoes
  <2> QED
    BY <2>1, <2>2
<1>3. ASSUME NEW f \in DOMAIN outbox
      PROVE  Balanced(f)'
  <2>1. /\ Balanced(f) /\ outbox' = outbox /\ stored' = stored /\ published' = published
    BY <1>1 DEF IInv, rows
  <2>2. /\ w \in Holders(f)' => w \in Holders(f)
        /\ w \notin Failing(f)' /\ w \notin Marking(f)'
        /\ w \in Publishing(f)' => w \in Publishing(f)
    BY <1>2, WorkerCounted
  <2>3. faults' # faults
    BY <1>1 DEF TypeOK
  <2> QED
    BY <1>1, <1>2, <2>1, <2>2, <2>3, QuietStep
<1> QED
  BY <1>1, <1>2, <1>3, SameRows DEF TypeOK

\* A worker marks its current event published: it has delivered it, and holds it no more.
LEMMA MarkPublishedKeeps ==
  ASSUME IInv, NEW w \in Workers, MarkPublished(w)
  PROVE  IInv'
<1>1. TypeOK /\ NothingEarly /\ UNCHANGED <<stored, published, faults>>
  BY DEF IInv, MarkPublished
<1>2. PICK e \in DOMAIN outbox :
        /\ pc[w] = "mark" /\ Current(w, e)
        /\ Moves(w)
        /\ DOMAIN claimed'[w] = DOMAIN claimed[w] \ {e}
        /\ pc'[w] \in {"idle", "resolve"}
        /\ DOMAIN outbox' = DOMAIN outbox /\ RowsKept
        /\ outbox'[e].msg = outbox[e].msg /\ outbox'[e].status = "published"
        /\ outbox'[e].attempts = outbox[e].attempts
        /\ \A f \in DOMAIN outbox : f # e => outbox'[f] = outbox[f]
  BY <1>1, MarkPublishedDoes
<1>3. ASSUME NEW f \in DOMAIN outbox
      PROVE  Balanced(f)'
  <2>1. Balanced(f)
    BY DEF IInv
  <2>2. Current(w, f) <=> f = e
    BY <1>1, <1>2, OneCurrent
  <2>3. /\ w \in Holders(f)' => w \in Holders(f)
        /\ w \notin Failing(f) /\ w \notin Failing(f)'
        /\ w \in Marking(f) <=> f = e
        /\ w \notin Marking(f)'
        /\ w \in Publishing(f)' => w \in Publishing(f)
    BY <1>2, <2>2, WorkerCounted
  <2>4. CASE f # e
    BY <1>1, <1>2, <2>1, <2>3, <2>4, QuietStep
  <2>5. CASE f = e
    <3>1. /\ outbox[f].attempts \in Nat /\ published[f] \in Nat /\ faults \in Nat
          /\ MaxAttempts \in Nat /\ Cardinality(Workers) \in Nat
      BY <1>1, RowNumbers
    <3>2. /\ Differ(Holders(f), Holders(f)', w) /\ Differ(Failing(f), Failing(f)', w)
          /\ Differ(Marking(f), Marking(f)', w) /\ Differ(Publishing(f), Publishing(f)', w)
      BY <1>2, WorkerCounts
    <3>3. /\ outbox'[f].msg = outbox[f].msg /\ outbox'[f].status = "published"
          /\ outbox'[f].attempts = outbox[f].attempts
      BY <1>2, <2>5
    <3>4. published[f] > 0
      BY <2>1, <2>3, <2>5 DEF Balanced, MarkDelivered
    <3>5. AttemptsHeld(f)'
      BY <1>1, <2>1, <2>3, <3>1, <3>2, <3>3 DEF Balanced, AttemptsHeld, Differ
    <3>6. FailuresCounted(f)'
      BY <1>1, <2>1, <2>3, <3>1, <3>2, <3>3 DEF Balanced, FailuresCounted, Differ
    <3>7. PublishedHeld(f)'
      BY <1>1, <2>1, <2>3, <3>1, <3>2 DEF Balanced, PublishedHeld, Differ
    <3>8. MarkDelivered(f)' /\ PendingPublished(f)' /\ NotLost(f)'
      BY <1>1, <3>3, <3>4 DEF MarkDelivered, PendingPublished, NotLost
    <3> QED
      BY <3>5, <3>6, <3>7, <3>8 DEF Balanced
  <2> QED
    BY <2>4, <2>5
<1>4. TypeOK'
  BY <1>1, <1>2, MovesType DEF TypeOK
<1>5. NothingEarly'
  BY <1>1, <1>2 DEF NothingEarly
<1> QED
  BY <1>2, <1>3, <1>4, <1>5 DEF IInv

\* A worker counts a failure of its current event: one attempt more, and one worker less
\* that may count another.  When it gives the event up, that many attempts have failed.
LEMMA MarkFailedKeeps ==
  ASSUME IInv, NEW w \in Workers, MarkFailed(w)
  PROVE  IInv'
<1>1. TypeOK /\ NothingEarly /\ UNCHANGED <<stored, published, faults>>
  BY DEF IInv, MarkFailed
<1>2. PICK e \in DOMAIN outbox :
        /\ pc[w] = "fail" /\ Current(w, e)
        /\ Moves(w)
        /\ DOMAIN claimed'[w] = DOMAIN claimed[w] \ {e}
        /\ pc'[w] \in {"idle", "resolve"}
        /\ DOMAIN outbox' = DOMAIN outbox /\ RowsKept
        /\ outbox'[e].msg = outbox[e].msg
        /\ outbox'[e].attempts = outbox[e].attempts + 1
        /\ outbox'[e].status =
             IF LastAttempt(claimed[w][e]) THEN "failed" ELSE outbox[e].status
        /\ \A f \in DOMAIN outbox : f # e => outbox'[f] = outbox[f]
  BY <1>1, MarkFailedDoes
<1>3. ASSUME NEW f \in DOMAIN outbox
      PROVE  Balanced(f)'
  <2>1. Balanced(f)
    BY DEF IInv
  <2>2. Current(w, f) <=> f = e
    BY <1>1, <1>2, OneCurrent
  <2>3. /\ w \in Holders(f)' <=> w \in Holders(f) /\ f # e
        /\ w \in Failing(f) <=> f = e
        /\ w \notin Failing(f)'
        /\ w \notin Marking(f) /\ w \notin Marking(f)'
        /\ w \in Publishing(f)' => w \in Publishing(f)
    BY <1>2, <2>2, WorkerCounted
  <2>4. CASE f # e
    BY <1>1, <1>2, <2>1, <2>3, <2>4, QuietStep
  <2>5. CASE f = e
    <3>1. /\ outbox[f].attempts \in Nat /\ published[f] \in Nat /\ faults \in Nat
          /\ MaxAttempts \in Nat /\ Cardinality(Workers) \in Nat
      BY <1>1, RowNumbers
    <3>2. /\ Differ(Holders(f), Holders(f)', w) /\ Differ(Failing(f), Failing(f)', w)
          /\ Differ(Marking(f), Marking(f)', w) /\ Differ(Publishing(f), Publishing(f)', w)
      BY <1>2, WorkerCounts
    <3>3. /\ outbox'[f].msg = outbox[f].msg
          /\ outbox'[f].attempts = outbox[f].attempts + 1
          /\ \/ outbox'[f].status = outbox[f].status
             \/ outbox'[f].status = "failed" /\ LastAttempt(claimed[w][f])
      <4>1. /\ outbox'[f].msg = outbox[f].msg
            /\ outbox'[f].attempts = outbox[f].attempts + 1
        BY <1>2, <2>5
      <4>2. outbox'[f].status =
              IF LastAttempt(claimed[w][f]) THEN "failed" ELSE outbox[f].status
        BY <1>2, <2>5
      <4>3. CASE LastAttempt(claimed[w][f])
        BY <4>1, <4>2, <4>3
      <4>4. CASE ~LastAttempt(claimed[w][f])
        BY <4>1, <4>2, <4>4
      <4> QED
        BY <4>3, <4>4
    <3>4. w \in Holders(f)
      BY <1>2, <2>5, WorkerCounted DEF Current
    <3>5. AttemptsHeld(f)'
      BY <2>1, <2>3, <2>5, <3>1, <3>2, <3>3, <3>4 DEF Balanced, AttemptsHeld, Differ
    <3>6. FailuresCounted(f)'
      BY <1>1, <2>1, <2>3, <2>5, <3>1, <3>2, <3>3 DEF Balanced, FailuresCounted, Differ
    <3>7. Marking(f)' # {} => Marking(f) # {}
      BY <2>3, <3>2 DEF Differ
    <3>8. MarkDelivered(f)'
      BY <1>1, <2>1, <3>7 DEF Balanced, MarkDelivered
    <3>9. PublishedHeld(f)'
      BY <1>1, <2>1, <2>3, <3>1, <3>2 DEF Balanced, PublishedHeld, Differ
    <3>10. PendingPublished(f)'
      BY <1>1, <2>1, <2>3, <3>1, <3>2, <3>3 DEF Balanced, PendingPublished, Differ
    <3>11. LastAttempt(claimed[w][f]) => outbox[f].msg \notin stored \/ faults >= MaxAttempts
      <4>1. claimed[w][f] \in 0 .. MaxAttempts - 1 /\ claimed[w][f] <= outbox[f].attempts
        BY <1>1, <3>4, WorkerCounted DEF TypeOK
      <4>2. claimed[w][f] \in Nat
        BY <4>1, <3>1
      <4>3. outbox[f].msg \in stored => outbox[f].attempts + 1 <= faults
        BY <1>1, <3>1, <3>3, <3>6, <3>2 DEF FailuresCounted, Differ
      <4> QED
        BY <3>1, <4>1, <4>2, <4>3 DEF LastAttempt
    <3>12. NotLost(f)'
      BY <1>1, <2>1, <3>3, <3>11 DEF Balanced, NotLost
    <3> QED
      BY <3>5, <3>6, <3>8, <3>9, <3>10, <3>12 DEF Balanced
  <2> QED
    BY <2>4, <2>5
<1>4. TypeOK'
  BY <1>1, <1>2, MovesType DEF TypeOK
<1>5. NothingEarly'
  BY <1>1, <1>2 DEF NothingEarly
<1> QED
  BY <1>2, <1>3, <1>4, <1>5 DEF IInv

-----------------------------------------------------------------------------
(* The steps of the tables *)

\* A step that leaves the workers alone and keeps the rows keeps the types.
LEMMA TablesType ==
  ASSUME TypeOK, RowsKept, workers' = workers, stored' \subseteq Messages,
         published' = published, faults' = faults
  PROVE  TypeOK'
<1>1. pc' = pc /\ claimed' = claimed
  BY DEF workers
<1>2. ASSUME NEW w \in Workers, NEW e \in DOMAIN claimed[w]
      PROVE  e \in DOMAIN outbox' /\ claimed[w][e] <= outbox'[e].attempts
  <2>1. /\ e \in DOMAIN outbox /\ claimed[w][e] <= outbox[e].attempts
        /\ claimed[w][e] \in 0 .. MaxAttempts - 1
    BY DEF TypeOK
  <2>2. e \in DOMAIN outbox' /\ outbox[e].attempts <= outbox'[e].attempts
    BY <2>1 DEF RowsKept
  <2>3. outbox[e] \in EventRow /\ outbox'[e] \in EventRow
    BY <2>1, <2>2 DEF RowsKept, TypeOK
  <2>4. outbox[e].attempts \in Nat /\ outbox'[e].attempts \in Nat
    BY <2>3 DEF EventRow
  <2>5. claimed[w][e] \in Nat
    BY <2>1, OutboxWorkerAssumption
  <2> QED
    BY <2>1, <2>2, <2>4, <2>5
<1> QED
  BY <1>1, <1>2 DEF TypeOK, RowsKept

\* The counts of an event are about the workers only.
LEMMA SameCounts ==
  ASSUME workers' = workers, NEW e
  PROVE  /\ Holders(e)' = Holders(e) /\ Failing(e)' = Failing(e)
         /\ Marking(e)' = Marking(e) /\ Publishing(e)' = Publishing(e)
  BY DEF workers, Holders, Failing, Marking, Publishing, Current

\* A new event has been neither published nor claimed by anyone.
LEMMA CommitEventKeeps ==
  ASSUME IInv, NEW e \in Events, NEW m \in Messages, NEW c \in Chats, CommitEvent(e, m, c)
  PROVE  IInv'
<1>1. TypeOK /\ NothingEarly /\ UNCHANGED <<published, workers, faults>>
  BY DEF IInv, CommitEvent
<1>2. /\ e \notin DOMAIN outbox /\ DOMAIN outbox' = DOMAIN outbox \cup {e}
      /\ outbox'[e] = [msg |-> m, chat |-> c, status |-> "pending", attempts |-> 0,
                       due |-> TRUE]
      /\ \A f \in DOMAIN outbox : outbox'[f] = outbox[f] /\ outbox[f].msg # m
      /\ \A w \in Workers : e \notin DOMAIN claimed[w]
      /\ stored' = stored \cup {m}
      /\ RowsKept
  BY <1>1, CommitEventDoes
<1>3. ASSUME NEW f \in DOMAIN outbox
      PROVE  Balanced(f)'
  <2>1. /\ Balanced(f) /\ outbox'[f] = outbox[f]
        /\ outbox[f].msg \in stored' <=> outbox[f].msg \in stored
    BY <1>2 DEF IInv
  <2> QED
    BY <1>1, <2>1, SameCounts
    DEF Balanced, AttemptsHeld, FailuresCounted, MarkDelivered, PublishedHeld,
        PendingPublished, NotLost
<1>4. Balanced(e)'
  <2>1. Holders(e) = {} /\ Failing(e) = {} /\ Marking(e) = {} /\ Publishing(e) = {}
    BY <1>2 DEF Holders, Failing, Marking, Publishing, Current
  <2>2. /\ Holders(e)' = {} /\ Failing(e)' = {} /\ Marking(e)' = {} /\ Publishing(e)' = {}
    BY <1>1, <2>1, SameCounts
  <2>3. Cardinality({}) = 0
    BY FS_EmptySet
  <2>4. published[e] = 0 /\ published' = published /\ faults' = faults
    BY <1>1, <1>2 DEF NothingEarly
  <2>5. faults \in Nat /\ Cardinality(Workers) \in Nat /\ MaxAttempts \in Nat \ {0}
    BY <1>1, CountIsNat, OutboxWorkerAssumption DEF TypeOK
  <2>6. outbox'[e].status = "pending" /\ outbox'[e].attempts = 0
    BY <1>2
  <2> QED
    BY <2>2, <2>3, <2>4, <2>5, <2>6
    DEF Balanced, AttemptsHeld, FailuresCounted, MarkDelivered, PublishedHeld,
        PendingPublished, NotLost
<1>5. TypeOK'
  BY <1>1, <1>2, TablesType DEF TypeOK
<1>6. NothingEarly'
  BY <1>1, <1>2 DEF NothingEarly
<1> QED
  BY <1>2, <1>3, <1>4, <1>5, <1>6 DEF IInv

\* Deleting messages and letting time pass change nothing that is counted.
LEMMA TablesKeep ==
  ASSUME IInv, \/ \E c \in Chats : DeleteChat(c)
               \/ \E e \in Events : BackoffElapses(e)
  PROVE  IInv'
<1>1. /\ TypeOK /\ NothingEarly /\ UNCHANGED <<published, workers, faults>>
      /\ stored' \subseteq stored
  BY DEF IInv, DeleteChat, BackoffElapses
<1>2. /\ RowsKept /\ DOMAIN outbox' = DOMAIN outbox
      /\ \A f \in DOMAIN outbox :
           /\ outbox'[f].msg = outbox[f].msg
           /\ outbox'[f].status = outbox[f].status
           /\ outbox'[f].attempts = outbox[f].attempts
  <2>1. CASE \E c \in Chats : DeleteChat(c)
    <3>1. outbox' = outbox
      BY <2>1 DEF DeleteChat
    <3>2. \A f \in DOMAIN outbox : outbox[f].attempts <= outbox[f].attempts
      BY <1>1, RowNumbers
    <3> QED
      BY <1>1, <3>1, <3>2 DEF RowsKept, TypeOK
  <2>2. CASE \E e \in Events : BackoffElapses(e)
    BY <1>1, <2>2, BackoffElapsesDoes
  <2> QED
    BY <2>1, <2>2
<1>3. ASSUME NEW f \in DOMAIN outbox
      PROVE  Balanced(f)'
  <2>1. /\ Balanced(f)
        /\ outbox'[f].msg = outbox[f].msg /\ outbox'[f].status = outbox[f].status
        /\ outbox'[f].attempts = outbox[f].attempts
    BY <1>2 DEF IInv
  <2> QED
    BY <1>1, <2>1, SameCounts
    DEF Balanced, AttemptsHeld, FailuresCounted, MarkDelivered, PublishedHeld,
        PendingPublished, NotLost
<1>4. TypeOK'
  BY <1>1, <1>2, TablesType DEF TypeOK
<1>5. NothingEarly'
  BY <1>1, <1>2 DEF NothingEarly
<1> QED
  BY <1>2, <1>3, <1>4, <1>5 DEF IInv

-----------------------------------------------------------------------------
(* The theorems *)

\* Initially there is nothing to count.
LEMMA InitIInv == Init => IInv
<1> SUFFICES ASSUME Init PROVE IInv
  OBVIOUS
<1>1. DOMAIN outbox = {} /\ outbox \in [DOMAIN outbox -> EventRow]
  BY DEF Init
<1>2. ASSUME NEW w \in Workers
      PROVE  /\ DOMAIN claimed[w] = {} /\ pc[w] = "idle"
             /\ claimed[w] \in [DOMAIN claimed[w] -> 0 .. MaxAttempts - 1]
  BY DEF Init, NoEvents
<1>3. TypeOK
  BY <1>1, <1>2, OutboxWorkerAssumption DEF Init, TypeOK, Phase
<1>4. NothingEarly
  BY DEF Init, NothingEarly
<1> QED
  BY <1>1, <1>3, <1>4 DEF IInv

\* The books of every event stay balanced, whatever the workers, the tables and the
\* failures do.
LEMMA StepIInv == IInv /\ [Next]_vars => IInv'
<1> SUFFICES ASSUME IInv, [Next]_vars PROVE IInv'
  OBVIOUS
<1>1. CASE \E e \in Events, m \in Messages, c \in Chats : CommitEvent(e, m, c)
  BY <1>1, CommitEventKeeps
<1>2. CASE \E c \in Chats : DeleteChat(c)
  BY <1>2, TablesKeep
<1>3. CASE \E e \in Events : BackoffElapses(e)
  BY <1>3, TablesKeep
<1>4. ASSUME NEW w \in Workers, Work(w)
      PROVE  IInv'
  <2>1. CASE Claim(w)
    BY <2>1, ClaimKeeps
  <2>2. CASE EndClaim(w)
    BY <2>2, PhaseKeeps
  <2>3. CASE Resolve(w)
    BY <2>3, PhaseKeeps
  <2>4. CASE Publish(w)
    BY <2>4, PublishKeeps
  <2>5. CASE MarkPublished(w)
    BY <2>5, MarkPublishedKeeps
  <2>6. CASE MarkFailed(w)
    BY <2>6, MarkFailedKeeps
  <2> QED
    BY <1>4, <2>1, <2>2, <2>3, <2>4, <2>5, <2>6 DEF Work
<1>5. ASSUME NEW w \in Workers, FaultOf(w)
      PROVE  IInv'
  <2>1. CASE CallFails(w)
    BY <2>1, PhaseKeeps
  <2>2. CASE PublishUnacknowledged(w)
    BY <2>2, PublishUnacknowledgedKeeps
  <2>3. CASE MarkLost(w)
    BY <2>3, LossKeeps
  <2>4. CASE Crash(w)
    BY <2>4, LossKeeps
  <2> QED
    BY <1>5, <2>1, <2>2, <2>3, <2>4 DEF FaultOf
<1>6. CASE Rest \/ UNCHANGED vars
  <2>1. UNCHANGED vars
    BY <1>6 DEF Rest
  <2>2. /\ rows' = rows /\ outbox' = outbox /\ stored' = stored /\ published' = published
        /\ workers' = workers /\ pc' = pc /\ claimed' = claimed /\ faults' = faults
    BY <2>1 DEF vars, rows, workers
  <2>3. TypeOK' /\ NothingEarly'
    BY <2>2 DEF IInv, TypeOK, NothingEarly
  <2>4. ASSUME NEW f \in DOMAIN outbox
        PROVE  Balanced(f)'
    <3>1. Balanced(f)
      BY DEF IInv
    <3> QED
      BY <2>2, <3>1, SameCounts
      DEF Balanced, AttemptsHeld, FailuresCounted, MarkDelivered, PublishedHeld,
          PendingPublished, NotLost
  <2> QED
    BY <2>2, <2>3, <2>4 DEF IInv
<1> QED
  BY <1>1, <1>2, <1>3, <1>4, <1>5, <1>6 DEF Next

\* The inductive invariant is an invariant of OutboxWorker.
THEOREM Invariance == Spec => []IInv
<1>1. Init => IInv
  BY InitIInv
<1>2. IInv /\ [Next]_vars => IInv'
  BY StepIInv
<1> QED
  BY <1>1, <1>2, PTL DEF Spec

\* The rows, the counters, the workers and their batches always have their types, and no
\* batch shows more attempts than the row has (outbox_worker.go, process and drain).
THEOREM TypeCorrect == Spec => []TypeOK
<1>1. IInv => TypeOK
  BY DEF IInv
<1> QED
  BY <1>1, Invariance, PTL

\* At least once: whatever fails and however many workers overlap, MarkPublished comes
\* only after Redis accepted the event, and MarkFailed gives up only an event whose
\* message is gone or for which MaxAttempts calls really failed.
THEOREM NothingIsLostSilently == Spec => []NoSilentLoss
<1>1. IInv => NoSilentLoss
  BY DEF IInv, Balanced, NotLost, NoSilentLoss
<1> QED
  BY <1>1, Invariance, PTL

\* Claim's SKIP LOCKED lasts for the statement only, so several workers may publish one
\* event: at most once each, and once more for every failure.
THEOREM DuplicatesAreBounded == Spec => []DuplicatesBounded
<1>1. IInv => DuplicatesBounded
  <2> SUFFICES ASSUME IInv, NEW e \in DOMAIN outbox
               PROVE  published[e] <= Cardinality(Workers) + faults
    BY DEF DuplicatesBounded
  <2>1. /\ published[e] \in Nat /\ faults \in Nat /\ Cardinality(Workers) \in Nat
        /\ PublishedHeld(e)
    BY RowNumbers DEF IInv, Balanced
  <2>2. Cardinality(Publishing(e)) \in Nat
    BY CountIsNat DEF Publishing, Holders
  <2> QED
    BY <2>1, <2>2 DEF PublishedHeld
<1> QED
  BY <1>1, Invariance, PTL

\* Workers that count failures from stale claims overshoot the maximum by at most one
\* attempt for each worker but the first.
THEOREM AttemptsAreBounded == Spec => []AttemptsBounded
<1>1. IInv => AttemptsBounded
  <2> SUFFICES ASSUME IInv, NEW e \in DOMAIN outbox
               PROVE  outbox[e].attempts <= MaxAttempts - 1 + Cardinality(Workers)
    BY DEF AttemptsBounded
  <2>1. /\ outbox[e].attempts \in Nat /\ MaxAttempts \in Nat
        /\ Cardinality(Workers) \in Nat /\ AttemptsHeld(e)
    BY RowNumbers DEF IInv, Balanced
  <2>2. Cardinality(Holders(e)) \in Nat
    BY CountIsNat DEF Holders
  <2> QED
    BY <2>1, <2>2 DEF AttemptsHeld
<1> QED
  BY <1>1, Invariance, PTL

-----------------------------------------------------------------------------
(***************************************************************************)
(* One instance alone.  No event is left to wait for a claim that will     *)
(* never come, and every step of the worker, the tables and the failures   *)
(* is a step of ReliableFanout or changes nothing there.                   *)
(*                                                                         *)
(* With one worker a batch is never stale: while the worker holds an       *)
(* event, its row stays pending and has the attempts that were read when   *)
(* it was claimed.  That is what a second worker would break.              *)
(***************************************************************************)


\* What worker w holds is pending, with the attempts it was claimed with.
FreshBatch(w) ==
  \A e \in DOMAIN claimed[w] :
    outbox[e].status = "pending" /\ claimed[w][e] = outbox[e].attempts

OneInv(w) ==
  /\ IInv
  /\ FreshBatch(w)
  /\ ExhaustedMarkedFailed

\* What Fanout maps status and delivered to.
StatusOf == [e \in Events |-> IF e \in DOMAIN outbox THEN outbox[e].status ELSE "none"]
DeliveredOf == [e \in Events |-> published[e] > 0]

-----------------------------------------------------------------------------
(* What the worker holds after a step *)

\* The attempts of a row, of a batch and the maximum are numbers.
LEMMA AttemptsAreNumbers ==
  ASSUME TypeOK
  PROVE  /\ MaxAttempts \in Nat \ {0}
         /\ \A e \in DOMAIN outbox : outbox[e] \in EventRow /\ outbox[e].attempts \in Nat
         /\ \A w \in Workers : \A e \in DOMAIN claimed[w] :
              /\ e \in DOMAIN outbox
              /\ claimed[w][e] \in Nat
              /\ claimed[w][e] < MaxAttempts
<1>1. MaxAttempts \in Nat \ {0}
  BY OutboxWorkerAssumption
<1>2. \A e \in DOMAIN outbox : outbox[e] \in EventRow
  BY DEF TypeOK
<1>3. ASSUME NEW w \in Workers, NEW e \in DOMAIN claimed[w]
      PROVE  e \in DOMAIN outbox /\ claimed[w][e] \in 0 .. MaxAttempts - 1
  BY DEF TypeOK
<1> QED BY <1>1, <1>2, <1>3 DEF EventRow

\* An event that is done leaves the batch, and the rest of the batch stays as it is.
LEMMA NextEventKeepsRest ==
  ASSUME TypeOK, NEW w \in Workers, NEW e, NextEvent(w, e)
  PROVE  /\ DOMAIN claimed'[w] = DOMAIN claimed[w] \ {e}
         /\ \A f \in DOMAIN claimed'[w] : claimed'[w][f] = claimed[w][f]
<1> DEFINE batch == [f \in DOMAIN claimed[w] \ {e} |-> claimed[w][f]]
<1>1. claimed' = [claimed EXCEPT ![w] = batch]
  BY DEF NextEvent
<1>2. claimed'[w] = batch
  BY <1>1 DEF TypeOK
<1> QED BY <1>2

\* A row that keeps its status and attempts keeps a fresh batch fresh and a settled table
\* settled.
LEMMA RowsUndisturbed ==
  ASSUME NEW w \in Workers, OneInv(w), DOMAIN outbox \subseteq DOMAIN outbox',
         \A e \in DOMAIN outbox :
           outbox'[e].status = outbox[e].status /\ outbox'[e].attempts = outbox[e].attempts,
         \A e \in DOMAIN outbox' \ DOMAIN outbox : outbox'[e].attempts = 0,
         DOMAIN claimed'[w] \subseteq DOMAIN claimed[w],
         \A e \in DOMAIN claimed'[w] : claimed'[w][e] = claimed[w][e]
  PROVE  FreshBatch(w)' /\ ExhaustedMarkedFailed'
<1>1. FreshBatch(w)'
  BY AttemptsAreNumbers DEF OneInv, IInv, FreshBatch
<1>2. ExhaustedMarkedFailed'
  BY AttemptsAreNumbers DEF OneInv, IInv, ExhaustedMarkedFailed
<1> QED BY <1>1, <1>2

-----------------------------------------------------------------------------
(* The invariant of one worker *)

LEMMA OneInit ==
  ASSUME NEW w \in Workers, Init
  PROVE  OneInv(w)
<1>1. IInv
  BY InitIInv
<1>2. FreshBatch(w) /\ ExhaustedMarkedFailed
  BY DEF Init, NoEvents, FreshBatch, ExhaustedMarkedFailed
<1> QED BY <1>1, <1>2 DEF OneInv

\* The tables change: a new row has no attempts, and no old one gets or loses any.
LEMMA OneTables ==
  ASSUME NEW w \in Workers, OneInv(w),
         \/ \E e \in Events, m \in Messages, c \in Chats : CommitEvent(e, m, c)
         \/ \E c \in Chats : DeleteChat(c)
         \/ \E e \in Events : BackoffElapses(e)
  PROVE  FreshBatch(w)' /\ ExhaustedMarkedFailed'
<1>0. TypeOK
  BY DEF OneInv, IInv
<1>1. ASSUME NEW e \in Events, NEW m \in Messages, NEW c \in Chats, CommitEvent(e, m, c)
      PROVE  FreshBatch(w)' /\ ExhaustedMarkedFailed'
  <2>1. claimed' = claimed
    BY <1>1 DEF CommitEvent, workers
  <2>2. /\ DOMAIN outbox' = DOMAIN outbox \cup {e}
        /\ outbox'[e].attempts = 0
        /\ \A f \in DOMAIN outbox : outbox'[f] = outbox[f]
    <3>1. /\ DOMAIN outbox' = DOMAIN outbox \cup {e}
          /\ outbox'[e] = [msg |-> m, chat |-> c, status |-> "pending", attempts |-> 0,
                           due |-> TRUE]
          /\ \A f \in DOMAIN outbox : outbox'[f] = outbox[f]
      BY <1>0, <1>1, CommitEventDoes
    <3> QED BY <3>1
  <2> QED BY <2>1, <2>2, RowsUndisturbed
<1>2. ASSUME NEW c \in Chats, DeleteChat(c)
      PROVE  FreshBatch(w)' /\ ExhaustedMarkedFailed'
  <2>1. claimed' = claimed /\ outbox' = outbox
    BY <1>2 DEF DeleteChat, workers
  <2> QED BY <2>1, RowsUndisturbed
<1>3. ASSUME NEW e \in Events, BackoffElapses(e)
      PROVE  FreshBatch(w)' /\ ExhaustedMarkedFailed'
  <2>1. claimed' = claimed
    BY <1>3 DEF BackoffElapses, workers
  <2>2. /\ DOMAIN outbox' = DOMAIN outbox
        /\ \A f \in DOMAIN outbox :
             outbox'[f].status = outbox[f].status /\ outbox'[f].attempts = outbox[f].attempts
    BY <1>0, <1>3, BackoffElapsesDoes
  <2> QED BY <2>1, <2>2, RowsUndisturbed
<1> QED BY <1>1, <1>2, <1>3

\* A claim reads the attempts of pending rows.
LEMMA OneClaim ==
  ASSUME NEW w \in Workers, OneInv(w), Claim(w)
  PROVE  FreshBatch(w)' /\ ExhaustedMarkedFailed'
<1>1. outbox' = outbox
  BY DEF Claim, rows
<1>2. \A e \in DOMAIN claimed'[w] : outbox[e].status = "pending"
  BY ClaimDoes DEF OneInv, IInv
<1>3. claimed'[w] = [e \in FirstBatch(Claimable(w)) |-> outbox[e].attempts]
  BY DEF Claim, OneInv, IInv, TypeOK
<1>4. FreshBatch(w)'
  BY <1>1, <1>2, <1>3 DEF FreshBatch
<1> QED BY <1>1, <1>4 DEF OneInv, ExhaustedMarkedFailed

\* A batch that only gets shorter, over rows that stay as they are.
LEMMA OneQuiet ==
  ASSUME NEW w \in Workers, OneInv(w),
         \/ EndClaim(w) \/ Resolve(w) \/ Publish(w)
         \/ CallFails(w) \/ PublishUnacknowledged(w) \/ MarkLost(w) \/ Crash(w)
  PROVE  FreshBatch(w)' /\ ExhaustedMarkedFailed'
<1>1. outbox' = outbox
  BY DEF EndClaim, Resolve, Publish, CallFails, PublishUnacknowledged, MarkLost, Crash, rows
<1>2. TypeOK
  BY DEF OneInv, IInv
<1>3. CASE EndClaim(w) \/ Resolve(w) \/ Publish(w) \/ CallFails(w) \/ PublishUnacknowledged(w)
  <2>1. claimed' = claimed
    BY <1>3 DEF EndClaim, Resolve, Publish, CallFails, PublishUnacknowledged
  <2> QED BY <2>1, <1>1, RowsUndisturbed
<1>4. CASE MarkLost(w)
  <2>1. PICK e : NextEvent(w, e)
    BY <1>4 DEF MarkLost
  <2>2. /\ DOMAIN claimed'[w] = DOMAIN claimed[w] \ {e}
        /\ \A f \in DOMAIN claimed'[w] : claimed'[w][f] = claimed[w][f]
    BY <2>1, <1>2, NextEventKeepsRest
  <2> QED BY <2>2, <1>1, RowsUndisturbed
<1>5. CASE Crash(w)
  <2>1. DOMAIN claimed'[w] = {}
    BY <1>2, <1>5, CrashDoes
  <2> QED BY <2>1, <1>1, RowsUndisturbed
<1> QED BY <1>3, <1>4, <1>5

\* A row that is marked leaves the batch with it, and the decision to give it up was taken
\* from the attempts that it has.
LEMMA OneMark ==
  ASSUME NEW w \in Workers, OneInv(w), MarkPublished(w) \/ MarkFailed(w)
  PROVE  FreshBatch(w)' /\ ExhaustedMarkedFailed'
<1>0. TypeOK
  BY DEF OneInv, IInv
<1>1. PICK e \in DOMAIN claimed[w] : Current(w, e) /\ NextEvent(w, e)
  BY DEF MarkPublished, MarkFailed
<1>2. /\ DOMAIN claimed'[w] = DOMAIN claimed[w] \ {e}
      /\ \A f \in DOMAIN claimed'[w] : claimed'[w][f] = claimed[w][f]
  BY <1>0, <1>1, NextEventKeepsRest
<1>3. /\ outbox[e].status = "pending" /\ claimed[w][e] = outbox[e].attempts
      /\ e \in DOMAIN outbox /\ outbox[e].attempts \in Nat
      /\ claimed[w][e] < MaxAttempts /\ MaxAttempts \in Nat
  BY <1>0, <1>1, AttemptsAreNumbers DEF OneInv, FreshBatch
<1>4. /\ DOMAIN outbox' = DOMAIN outbox
      /\ \A f \in DOMAIN outbox : f # e => outbox'[f] = outbox[f]
      /\ outbox'[e].attempts >= MaxAttempts => outbox'[e].status = "failed"
  <2>1. CASE MarkPublished(w)
    <3>1. PICK d \in DOMAIN outbox :
            /\ Current(w, d)
            /\ DOMAIN outbox' = DOMAIN outbox
            /\ outbox'[d].attempts = outbox[d].attempts
            /\ \A f \in DOMAIN outbox : f # d => outbox'[f] = outbox[f]
      BY <2>1, <1>0, MarkPublishedDoes
    <3>2. d = e
      BY <3>1, <1>0, <1>1, OneCurrent
    <3> QED BY <3>1, <3>2, <1>3
  <2>2. CASE MarkFailed(w)
    <3>1. PICK d \in DOMAIN outbox :
            /\ Current(w, d)
            /\ DOMAIN outbox' = DOMAIN outbox
            /\ outbox'[d].attempts = outbox[d].attempts + 1
            /\ outbox'[d].status =
                 IF LastAttempt(claimed[w][d]) THEN "failed" ELSE outbox[d].status
            /\ \A f \in DOMAIN outbox : f # d => outbox'[f] = outbox[f]
      BY <2>2, <1>0, MarkFailedDoes
    <3>2. d = e
      BY <3>1, <1>0, <1>1, OneCurrent
    <3> QED BY <3>1, <3>2, <1>3 DEF LastAttempt
  <2> QED BY <2>1, <2>2
<1>5. FreshBatch(w)'
  BY <1>0, <1>2, <1>4, AttemptsAreNumbers DEF OneInv, FreshBatch
<1>6. ExhaustedMarkedFailed'
  BY <1>4 DEF OneInv, ExhaustedMarkedFailed
<1> QED BY <1>5, <1>6

\* With one worker, every step keeps its batch fresh and no row exhausted but pending.
LEMMA OneStep ==
  ASSUME NEW w, Workers = {w}, OneInv(w), [Next]_vars
  PROVE  OneInv(w)'
<1>1. IInv'
  BY StepIInv DEF OneInv
<1>2. FreshBatch(w)' /\ ExhaustedMarkedFailed'
  <2>1. CASE \/ \E e \in Events, m \in Messages, c \in Chats : CommitEvent(e, m, c)
             \/ \E c \in Chats : DeleteChat(c)
             \/ \E e \in Events : BackoffElapses(e)
    BY <2>1, OneTables
  <2>2. CASE Claim(w)
    BY <2>2, OneClaim
  <2>3. CASE MarkPublished(w) \/ MarkFailed(w)
    BY <2>3, OneMark
  <2>4. CASE \/ EndClaim(w) \/ Resolve(w) \/ Publish(w)
             \/ CallFails(w) \/ PublishUnacknowledged(w) \/ MarkLost(w) \/ Crash(w)
    BY <2>4, OneQuiet
  <2>5. CASE UNCHANGED vars
    BY <2>5 DEF vars, rows, workers, OneInv, FreshBatch, ExhaustedMarkedFailed
  <2>6. \A v \in Workers : v = w
    OBVIOUS
  <2> QED BY <2>1, <2>2, <2>3, <2>4, <2>5, <2>6 DEF Next, Work, FaultOf, Rest
<1> QED BY <1>1, <1>2 DEF OneInv

-----------------------------------------------------------------------------
(* The steps of one worker as steps of ReliableFanout *)

\* A step that keeps every status and delivers nothing.
LEMMA FanoutUnchanged ==
  ASSUME DOMAIN outbox' = DOMAIN outbox, published' = published,
         \A e \in DOMAIN outbox : outbox'[e].status = outbox[e].status
  PROVE  [Fanout!Next]_(Fanout!vars)
<1>1. StatusOf' = StatusOf /\ DeliveredOf' = DeliveredOf
  BY DEF StatusOf, DeliveredOf
<1> QED BY <1>1 DEF Fanout!vars, StatusOf, DeliveredOf

\* A pending event reaches Redis.
LEMMA FanoutDelivered ==
  ASSUME TypeOK, NEW e \in DOMAIN outbox, outbox[e].status = "pending", outbox' = outbox,
         published' = [published EXCEPT ![e] = @ + 1]
  PROVE  [Fanout!Next]_(Fanout!vars)
<1>1. e \in Events /\ published \in [Events -> Nat]
  BY DEF TypeOK
<1>2. StatusOf' = StatusOf /\ StatusOf[e] = "pending"
  BY <1>1 DEF StatusOf
<1>3. DeliveredOf' = [DeliveredOf EXCEPT ![e] = TRUE]
  <2>1. published'[e] > 0 /\ \A f \in Events : f # e => published'[f] = published[f]
    BY <1>1
  <2>2. \A f \in Events : (published'[f] > 0) = IF f = e THEN TRUE ELSE published[f] > 0
    <3>1. \A n \in Nat : n > 0 => (n > 0) = TRUE
      OBVIOUS
    <3>2. published'[e] \in Nat
      BY <1>1
    <3>3. (published'[e] > 0) = TRUE
      BY <2>1, <3>1, <3>2, Zenon
    <3>4. ASSUME NEW f \in Events
          PROVE  (published'[f] > 0) = IF f = e THEN TRUE ELSE published[f] > 0
      <4>1. CASE f = e
        BY <4>1, <3>3, Zenon
      <4>2. CASE f # e
        <5>1. published'[f] = published[f]
          BY <4>2, <2>1
        <5>2. (published'[f] > 0) = (published[f] > 0)
          BY <5>1, Zenon
        <5> QED BY <4>2, <5>2, Zenon
      <4> QED BY <4>1, <4>2
    <3> QED BY <3>4
  <2>3. DeliveredOf' = [f \in Events |-> IF f = e THEN TRUE ELSE DeliveredOf[f]]
    BY <2>2, Zenon DEF DeliveredOf
  <2> QED BY <2>3, Zenon DEF DeliveredOf
<1>4. Fanout!Deliver(e)
  BY <1>2, <1>3 DEF Fanout!Deliver, StatusOf, DeliveredOf
<1> QED BY <1>1, <1>4 DEF Fanout!Next

\* The status of one event changes.
LEMMA FanoutStatus ==
  ASSUME NEW e \in Events, published' = published,
         DOMAIN outbox' = DOMAIN outbox \cup {e},
         \A f \in DOMAIN outbox : f # e => outbox'[f] = outbox[f]
  PROVE  /\ StatusOf' = [StatusOf EXCEPT ![e] = outbox'[e].status]
         /\ DeliveredOf' = DeliveredOf
BY DEF StatusOf, DeliveredOf

\* The initial states of the outbox are initial states of the service.
LEMMA FanoutInit == Init => Fanout!Init
<1> SUFFICES ASSUME Init PROVE Fanout!Init
  OBVIOUS
<1>1. DOMAIN outbox = {} /\ published = [e \in Events |-> 0]
  BY DEF Init
<1>2. \A e \in Events : (published[e] > 0) = FALSE
  BY <1>1
<1>3. DeliveredOf = [e \in Events |-> FALSE]
  BY <1>2, Zenon DEF DeliveredOf
<1>4. StatusOf = [e \in Events |-> "none"]
  BY <1>1 DEF StatusOf
<1> QED BY <1>3, <1>4, Zenon DEF Fanout!Init, StatusOf, DeliveredOf

\* What a worker does on a fresh batch, and what happens to the tables, is what the
\* service allows: nothing is confirmed or given up twice, or confirmed undelivered.
LEMMA FanoutStep ==
  ASSUME NEW w, Workers = {w}, OneInv(w), [Next]_vars
  PROVE  [Fanout!Next]_(Fanout!vars)
<1>0. TypeOK /\ w \in Workers /\ FreshBatch(w)
  BY DEF OneInv, IInv
<1>1. ASSUME NEW e \in Events, NEW m \in Messages, NEW c \in Chats, CommitEvent(e, m, c)
      PROVE  Fanout!Next
  <2>1. /\ e \notin DOMAIN outbox
        /\ DOMAIN outbox' = DOMAIN outbox \cup {e}
        /\ outbox'[e] = [msg |-> m, chat |-> c, status |-> "pending", attempts |-> 0,
                         due |-> TRUE]
        /\ \A f \in DOMAIN outbox : outbox'[f] = outbox[f]
    BY <1>0, <1>1, CommitEventDoes
  <2>2. published' = published /\ outbox'[e].status = "pending"
    BY <1>1, <2>1 DEF CommitEvent
  <2>3. StatusOf' = [StatusOf EXCEPT ![e] = "pending"] /\ DeliveredOf' = DeliveredOf
    BY <2>1, <2>2, FanoutStatus
  <2>4. StatusOf[e] = "none"
    BY <2>1 DEF StatusOf
  <2>5. Fanout!Accept(e)
    BY <2>3, <2>4 DEF Fanout!Accept, StatusOf, DeliveredOf
  <2> QED BY <2>5 DEF Fanout!Next
<1>2. ASSUME NEW c \in Chats, DeleteChat(c)
      PROVE  [Fanout!Next]_(Fanout!vars)
  BY <1>2, FanoutUnchanged DEF DeleteChat
<1>3. ASSUME NEW e \in Events, BackoffElapses(e)
      PROVE  [Fanout!Next]_(Fanout!vars)
  <2>1. published' = published
    BY <1>3 DEF BackoffElapses
  <2> QED BY <2>1, <1>0, <1>3, BackoffElapsesDoes, FanoutUnchanged
<1>4. CASE \/ Claim(w) \/ EndClaim(w) \/ Resolve(w)
           \/ CallFails(w) \/ MarkLost(w) \/ Crash(w) \/ UNCHANGED vars
  <2>1. outbox' = outbox /\ published' = published
    BY <1>4 DEF Claim, EndClaim, Resolve, CallFails, MarkLost, Crash, vars, rows
  <2> QED BY <2>1, FanoutUnchanged
<1>5. CASE Publish(w) \/ PublishUnacknowledged(w)
  <2>1. PICK e \in DOMAIN claimed[w] : published' = [published EXCEPT ![e] = @ + 1]
    BY <1>5 DEF Publish, PublishUnacknowledged
  <2>2. outbox' = outbox
    BY <1>5 DEF Publish, PublishUnacknowledged, rows
  <2>3. e \in DOMAIN outbox /\ outbox[e].status = "pending"
    BY <1>0, AttemptsAreNumbers DEF FreshBatch
  <2> QED BY <1>0, <2>1, <2>2, <2>3, FanoutDelivered
<1>6. CASE MarkPublished(w)
  <2>1. PICK e \in DOMAIN outbox :
          /\ pc[w] = "mark" /\ Current(w, e)
          /\ DOMAIN outbox' = DOMAIN outbox
          /\ outbox'[e].status = "published"
          /\ \A f \in DOMAIN outbox : f # e => outbox'[f] = outbox[f]
    BY <1>0, <1>6, MarkPublishedDoes
  <2>2. e \in Events /\ e \in DOMAIN claimed[w] /\ published' = published
    BY <1>0, <1>6, <2>1 DEF TypeOK, MarkPublished, Current
  <2>3. StatusOf' = [StatusOf EXCEPT ![e] = "published"] /\ DeliveredOf' = DeliveredOf
    BY <2>1, <2>2, FanoutStatus
  <2>4. StatusOf[e] = "pending"
    BY <1>0, <2>1, <2>2 DEF FreshBatch, StatusOf
  <2>5. DeliveredOf[e]
    <3>1. published[e] > 0
      BY <1>0, <2>1 DEF OneInv, IInv, Balanced, MarkDelivered, Marking
    <3> QED BY <2>2, <3>1 DEF DeliveredOf
  <2>6. Fanout!Confirm(e)
    BY <2>3, <2>4, <2>5 DEF Fanout!Confirm, StatusOf, DeliveredOf
  <2> QED BY <2>2, <2>6 DEF Fanout!Next
<1>7. CASE MarkFailed(w)
  <2>1. PICK e \in DOMAIN outbox :
          /\ Current(w, e)
          /\ DOMAIN outbox' = DOMAIN outbox
          /\ outbox'[e].status =
               IF LastAttempt(claimed[w][e]) THEN "failed" ELSE outbox[e].status
          /\ \A f \in DOMAIN outbox : f # e => outbox'[f] = outbox[f]
    BY <1>0, <1>7, MarkFailedDoes
  <2>2. e \in Events /\ e \in DOMAIN claimed[w] /\ published' = published
    BY <1>0, <1>7, <2>1 DEF TypeOK, MarkFailed, Current
  <2>3. CASE LastAttempt(claimed[w][e])
    <3>1. StatusOf' = [StatusOf EXCEPT ![e] = "failed"] /\ DeliveredOf' = DeliveredOf
      BY <2>1, <2>2, <2>3, FanoutStatus
    <3>2. StatusOf[e] = "pending"
      BY <1>0, <2>1, <2>2 DEF FreshBatch, StatusOf
    <3>3. Fanout!GiveUp(e)
      BY <3>1, <3>2 DEF Fanout!GiveUp, StatusOf, DeliveredOf
    <3> QED BY <2>2, <3>3 DEF Fanout!Next
  <2>4. CASE ~LastAttempt(claimed[w][e])
    <3>1. \A f \in DOMAIN outbox : outbox'[f].status = outbox[f].status
      BY <2>1, <2>4
    <3> QED BY <3>1, <2>1, <2>2, FanoutUnchanged
  <2> QED BY <2>3, <2>4
<1>8. \A v \in Workers : v = w
  OBVIOUS
<1> QED BY <1>1, <1>2, <1>3, <1>4, <1>5, <1>6, <1>7, <1>8 DEF Next, Work, FaultOf, Rest

-----------------------------------------------------------------------------
(* Theorems *)

\* With one worker, its batch is never stale (outbox_worker.go, drain; outbox.go, Claim).
THEOREM OneWorkerInvariance ==
  ASSUME NEW CONSTANT w, Workers = {w}
  PROVE  Spec => []OneInv(w)
<1>1. Init => OneInv(w)
  BY OneInit
<1>2. OneInv(w) /\ [Next]_vars => OneInv(w)'
  BY OneStep
<1> QED BY <1>1, <1>2, PTL DEF Spec

\* With one worker, MarkFailed leaves no row pending that has used up its attempts.
THEOREM ExhaustedAreMarkedFailed ==
  ASSUME NEW CONSTANT w, Workers = {w}
  PROVE  Spec => []ExhaustedMarkedFailed
<1>1. OneInv(w) => ExhaustedMarkedFailed
  BY DEF OneInv
<1> QED BY <1>1, OneWorkerInvariance, PTL

\* With one worker, the outbox is a reliable fan-out: an event is confirmed only once
\* Redis accepted it, and what is confirmed or given up stays so.
THEOREM OutboxImplementsFanout ==
  ASSUME NEW CONSTANT w, Workers = {w}
  PROVE  Spec => Fanout!Spec
<1>1. Init => Fanout!Init
  BY FanoutInit
<1>2. OneInv(w) /\ [Next]_vars => [Fanout!Next]_(Fanout!vars)
  BY FanoutStep
<1> QED BY <1>1, <1>2, OneWorkerInvariance, PTL DEF Spec, Fanout!Spec

=============================================================================
