------------------------ MODULE MessageHistoryProofs ------------------------
(***************************************************************************)
(* MessageHistory, for any readers, syncers, limits and number of messages *)
(* committed, rolled back or deleted between two requests.                 *)
(***************************************************************************)
EXTENDS MessageHistory, FiniteSetTheorems, WellFoundedInduction, TLAPS

\* A message is open or stored, and a deleted chat has neither.
LogSound ==
  /\ open \cap stored = {}
  /\ ~exists => open = {} /\ stored = {}

\* A reader has been given nothing below its cursor, and of what it wanted everything that
\* is not below it.
WalkSound(r) ==
  /\ walk[r].pc = "idle" => walk[r].cursor = 0 /\ walk[r].given = {}
  /\ walk[r].pc \in {"ask", "select"} =>
       /\ walk[r].cursor = 0 => walk[r].given = {}
       /\ \A s \in walk[r].given : walk[r].cursor <= s
       /\ exists =>
            /\ walk[r].wanted \subseteq stored
            /\ \A s \in walk[r].wanted :
                 s \in walk[r].given \/ walk[r].cursor = 0 \/ s < walk[r].cursor

WalksSound == \A r \in Readers : WalkSound(r)

\* What is stored below something a syncer knows, and unknown to it, was overtaken.
SyncSound(c) ==
  /\ exists => sync[c].known \subseteq stored
  /\ \A s \in stored \ sync[c].known : \A u \in sync[c].known : s < u => s \in overtaken

SyncsSound == \A c \in Syncers : SyncSound(c)

IInv ==
  /\ TypeOK
  /\ LogSound
  /\ WalksSound
  /\ WalkIsComplete
  /\ SyncsSound
  /\ NothingTwice
  /\ ResyncMissesOnlyOvertaken

-----------------------------------------------------------------------------
(* The newest and the oldest of finitely many messages *)

\* A finite set that is not empty has an element with none before it, in any order.
LEMMA HasFirst ==
  ASSUME NEW D, IsFiniteSet(D), D # {}, NEW R,
         \A s, t \in D : ~(<<s, s>> \in R) /\ (<<s, t>> \in R => ~(<<t, s>> \in R)),
         \A s, t, u \in D : <<s, t>> \in R /\ <<t, u>> \in R => <<s, u>> \in R
  PROVE  \E s \in D : \A t \in D : ~(<<t, s>> \in R)
<1> DEFINE Before(s) == {t \in D : <<t, s>> \in R}
           T == {Before(s) : s \in D}
<1>1. IsWellFoundedOn(StrictSubsetOrdering(D), SUBSET D)
  BY FS_StrictSubsetOrderingWellFounded, FS_FiniteSubsetsOfFinite
<1>2. T \subseteq SUBSET D /\ T # {}
  <2>1. \A s \in D : Before(s) \in SUBSET D
    OBVIOUS
  <2> HIDE DEF Before
  <2> QED BY <2>1
<1>3. PICK x \in T : \A y \in T : ~(<<y, x>> \in StrictSubsetOrdering(D))
  <2> HIDE DEF T
  <2> QED BY <1>1, <1>2, WFMin
<1>4. PICK s \in D : x = Before(s)
  OBVIOUS
<1>5. ASSUME NEW t \in D, <<t, s>> \in R
      PROVE  FALSE
  <2>1. Before(t) \in T
    OBVIOUS
  <2>2. Before(t) \subseteq x /\ Before(t) # x
    BY <1>4, <1>5
  <2>3. <<Before(t), x>> \in StrictSubsetOrdering(D)
    BY <2>2, <1>4 DEF StrictSubsetOrdering
  <2> QED BY <2>1, <2>3, <1>3
<1> QED BY <1>5

\* What is left out of the newest n is below all of them.
LEMMA NewestAreAbove ==
  ASSUME NEW S \in SUBSET Nat, IsFiniteSet(S), NEW n \in Nat,
         NEW p \in Newest(S, n), NEW s \in S \ Newest(S, n)
  PROVE  s < p
<1> SUFFICES ASSUME p <= s PROVE FALSE
  BY DEF Newest
<1> DEFINE Above(x) == {t \in S : t > x}
<1>1. Above(s) \in SUBSET Above(p) /\ Above(p) \in SUBSET S
  <2>1. p \in Nat /\ s \in Nat /\ S \subseteq Nat
    BY DEF Newest
  <2>2. \A t \in S : t > s => t > p
    BY <2>1
  <2> QED BY <2>2
<1>2. IsFiniteSet(Above(p))
  BY <1>1, FS_Subset
<1>3. Cardinality(Above(s)) <= Cardinality(Above(p))
  BY <1>1, <1>2, FS_Subset
<1>4. Cardinality(Above(s)) \in Nat /\ Cardinality(Above(p)) \in Nat
  BY <1>1, <1>2, FS_Subset, FS_CardinalityType
<1>5. Cardinality(Above(p)) < n /\ ~(Cardinality(Above(s)) < n)
  BY DEF Newest
<1> HIDE DEF Above
<1> QED BY <1>3, <1>4, <1>5

\* What is left out of the oldest n is above all of them.
LEMMA OldestAreBelow ==
  ASSUME NEW S \in SUBSET Nat, IsFiniteSet(S), NEW n \in Nat,
         NEW p \in Oldest(S, n), NEW s \in S \ Oldest(S, n)
  PROVE  p < s
<1> SUFFICES ASSUME s <= p PROVE FALSE
  BY DEF Oldest
<1> DEFINE Below(x) == {t \in S : t < x}
<1>1. Below(s) \in SUBSET Below(p) /\ Below(p) \in SUBSET S
  <2>1. p \in Nat /\ s \in Nat /\ S \subseteq Nat
    BY DEF Oldest
  <2>2. \A t \in S : t < s => t < p
    BY <2>1
  <2> QED BY <2>2
<1>2. IsFiniteSet(Below(p))
  BY <1>1, FS_Subset
<1>3. Cardinality(Below(s)) <= Cardinality(Below(p))
  BY <1>1, <1>2, FS_Subset
<1>4. Cardinality(Below(s)) \in Nat /\ Cardinality(Below(p)) \in Nat
  BY <1>1, <1>2, FS_Subset, FS_CardinalityType
<1>5. Cardinality(Below(p)) < n /\ ~(Cardinality(Below(s)) < n)
  BY DEF Oldest
<1> HIDE DEF Below
<1> QED BY <1>3, <1>4, <1>5

\* Fewer than n newest are all there are.
LEMMA FewNewestAreAll ==
  ASSUME NEW S \in SUBSET Nat, IsFiniteSet(S), NEW n \in Nat,
         Cardinality(Newest(S, n)) < n
  PROVE  Newest(S, n) = S
<1> DEFINE D == S \ Newest(S, n)
           R == {x \in Nat \X Nat : x[1] > x[2]}
<1>1. Newest(S, n) \in SUBSET S /\ D \in SUBSET S
  BY DEF Newest
<1> SUFFICES ASSUME D # {} PROVE FALSE
  BY <1>1
<1>2. IsFiniteSet(D) /\ IsFiniteSet(Newest(S, n))
  BY <1>1, FS_Subset
<1>3. \A s, t \in Nat : <<s, t>> \in R <=> s > t
  OBVIOUS
<1>4. PICK s \in D : \A t \in D : ~(<<t, s>> \in R)
  <2>1. /\ \A s, t \in D : ~(<<s, s>> \in R) /\ (<<s, t>> \in R => ~(<<t, s>> \in R))
        /\ \A s, t, u \in D : <<s, t>> \in R /\ <<t, u>> \in R => <<s, u>> \in R
    BY <1>3
  <2> HIDE DEF D, R
  <2> QED BY <2>1, <1>2, HasFirst
<1> DEFINE Above == {t \in S : t > s}
<1>5. Above \in SUBSET Newest(S, n)
  BY <1>3, <1>4
<1>6. Cardinality(Above) <= Cardinality(Newest(S, n)) /\ IsFiniteSet(Above)
  BY <1>2, <1>5, FS_Subset
<1>7. Cardinality(Above) \in Nat /\ Cardinality(Newest(S, n)) \in Nat
  BY <1>2, <1>6, FS_CardinalityType
<1>8. ~(Cardinality(Above) < n)
  BY DEF Newest
<1> HIDE DEF Above
<1> QED BY <1>6, <1>7, <1>8

\* Fewer than n oldest are all there are.
LEMMA FewOldestAreAll ==
  ASSUME NEW S \in SUBSET Nat, IsFiniteSet(S), NEW n \in Nat,
         Cardinality(Oldest(S, n)) < n
  PROVE  Oldest(S, n) = S
<1> DEFINE D == S \ Oldest(S, n)
           R == {x \in Nat \X Nat : x[1] < x[2]}
<1>1. Oldest(S, n) \in SUBSET S /\ D \in SUBSET S
  BY DEF Oldest
<1> SUFFICES ASSUME D # {} PROVE FALSE
  BY <1>1
<1>2. IsFiniteSet(D) /\ IsFiniteSet(Oldest(S, n))
  BY <1>1, FS_Subset
<1>3. \A s, t \in Nat : <<s, t>> \in R <=> s < t
  OBVIOUS
<1>4. PICK s \in D : \A t \in D : ~(<<t, s>> \in R)
  <2>1. /\ \A s, t \in D : ~(<<s, s>> \in R) /\ (<<s, t>> \in R => ~(<<t, s>> \in R))
        /\ \A s, t, u \in D : <<s, t>> \in R /\ <<t, u>> \in R => <<s, u>> \in R
    BY <1>3
  <2> HIDE DEF D, R
  <2> QED BY <2>1, <1>2, HasFirst
<1> DEFINE Below == {t \in S : t < s}
<1>5. Below \in SUBSET Oldest(S, n)
  BY <1>3, <1>4
<1>6. Cardinality(Below) <= Cardinality(Oldest(S, n)) /\ IsFiniteSet(Below)
  BY <1>2, <1>5, FS_Subset
<1>7. Cardinality(Below) \in Nat /\ Cardinality(Oldest(S, n)) \in Nat
  BY <1>2, <1>6, FS_CardinalityType
<1>8. ~(Cardinality(Below) < n)
  BY DEF Oldest
<1> HIDE DEF Below
<1> QED BY <1>6, <1>7, <1>8

\* The newest n of a set with no more than n elements are all of it.
LEMMA NewestOfFew ==
  ASSUME NEW S \in SUBSET Nat, IsFiniteSet(S), NEW n \in Nat, Cardinality(S) <= n
  PROVE  Newest(S, n) = S
<1> SUFFICES ASSUME NEW s \in S PROVE Cardinality({t \in S : t > s}) < n
  BY DEF Newest
<1> DEFINE Above == {t \in S : t > s}
<1> SUFFICES Cardinality(Above) < n
  OBVIOUS
<1>1. Above \in SUBSET S /\ Above # S
  OBVIOUS
<1>2. Cardinality(Above) <= Cardinality(S) /\ Cardinality(Above) # Cardinality(S)
  BY <1>1, FS_Subset
<1>3. Cardinality(Above) \in Nat /\ Cardinality(S) \in Nat
  BY <1>1, FS_Subset, FS_CardinalityType
<1> HIDE DEF Above
<1> QED BY <1>2, <1>3

-----------------------------------------------------------------------------
(* The steps *)

\* The messages of the chat are finitely many positive numbers, and so is every part.
LEMMA StoredIsFinite ==
  ASSUME TypeOK
  PROVE  /\ drawn \in Nat
         /\ stored \in SUBSET Nat
         /\ 0 \notin stored
         /\ \A S \in SUBSET stored : S \in SUBSET Nat /\ IsFiniteSet(S)
<1>1. drawn \in Nat /\ stored \subseteq 1 .. drawn
  BY MessageHistoryAssumption DEF TypeOK
<1>2. IsFiniteSet(1 .. drawn)
  BY <1>1, FS_Interval
<1>3. \A S \in SUBSET stored : IsFiniteSet(S)
  BY <1>1, <1>2, FS_Subset
<1> QED BY <1>1, <1>3

\* The limit in use is a positive number.
LEMMA EffectiveLimitType == \A limit \in Int : EffectiveLimit(limit) \in Nat
BY MessageHistoryAssumption DEF EffectiveLimit

LEMMA InitIsSound == Init => IInv
<1> SUFFICES ASSUME Init PROVE IInv
  OBVIOUS
<1>1. TypeOK
  BY MessageHistoryAssumption DEF Init, Log!Init, TypeOK, Walk, Sync
<1>2. LogSound /\ WalksSound /\ SyncsSound
  BY DEF Init, Log!Init, LogSound, WalksSound, WalkSound, SyncsSound, SyncSound
<1>3. WalkIsComplete /\ NothingTwice /\ ResyncMissesOnlyOvertaken
  BY DEF Init, Log!Init, WalkIsComplete, NothingTwice, ResyncMissesOnlyOvertaken
<1> QED BY <1>1, <1>2, <1>3 DEF IInv

\* Whatever is committed, rolled back or deleted between two requests, what the readers and
\* the syncers hold stays sound: no new seq is below one that somebody has been given
\* without being overtaken.
LEMMA WriteIsSound ==
  ASSUME IInv, Write
  PROVE  IInv'
<1> USE DEF IInv
<1>0. walk' = walk /\ sync' = sync
  BY DEF Write
<1>1. drawn' \in 0 .. MaxSeq /\ drawn <= drawn' /\ drawn \in Nat
  BY MessageHistoryAssumption
     DEF Write, Log!Burn, Log!Insert, Log!Commit, Log!Abort, Log!Clear, TypeOK
<1>2. \/ open' \subseteq open /\ stored' = stored
      \/ open' = open \cup {drawn + 1} /\ drawn' = drawn + 1 /\ stored' = stored /\ exists
      \/ \E s \in open : open' = open \ {s} /\ stored' = stored \cup {s}
      \/ ~exists' /\ stored' = {} /\ open = {} /\ open' = {}
  BY DEF Write, Log!Burn, Log!Insert, Log!Commit, Log!Abort, Log!Clear
<1>3. overtaken \subseteq overtaken' /\ overtaken' \subseteq overtaken \cup open
  BY DEF Write
<1>4. exists' \in BOOLEAN /\ (exists' => exists)
  <2>1. ASSUME NEW s, Log!Commit(s) \/ Log!Abort(s)
        PROVE  exists' = exists
    BY <2>1 DEF Log!Commit, Log!Abort
  <2>2. CASE Log!Burn \/ Log!Insert
    BY <2>2 DEF TypeOK, Log!Burn, Log!Insert
  <2>3. CASE Log!Clear
    BY <2>3 DEF Log!Clear
  <2> QED BY <2>1, <2>2, <2>3 DEF Write, TypeOK
<1>5. exists => exists' \/ (stored' = {} /\ open' = {})
  BY DEF Write, Log!Burn, Log!Insert, Log!Commit, Log!Abort, Log!Clear, TypeOK
<1>6. exists' => stored \subseteq stored'
  BY <1>2, <1>4 DEF Write, Log!Burn, Log!Insert, Log!Commit, Log!Abort, Log!Clear
<1>7. TypeOK'
  <2>1. 1 .. drawn \subseteq 1 .. drawn' /\ drawn + 1 \notin 1 .. drawn
    BY <1>1
  <2>2. open' \cup stored' \subseteq 1 .. drawn'
    BY <1>1, <1>2, <2>1 DEF TypeOK
  <2>3. overtaken' \subseteq 1 .. drawn'
    BY <1>3, <2>1 DEF TypeOK
  <2>4. \A S \in SUBSET (1 .. drawn) : S \cap open = {} => S \cap open' = {}
    BY <1>2, <2>1
  <2> QED BY <1>0, <1>1, <1>4, <2>1, <2>2, <2>3, <2>4 DEF TypeOK
<1>8. LogSound'
  <2>1. drawn + 1 \notin stored
    BY <1>1 DEF TypeOK
  <2>2. (open \cap stored)' = {}
    BY <1>2, <2>1 DEF LogSound
  <2>3. ~exists' => open' = {} /\ stored' = {}
    BY <1>2, <1>5 DEF LogSound
  <2> QED BY <2>2, <2>3 DEF LogSound
<1>9. WalksSound' /\ WalkIsComplete'
  BY <1>0, <1>4, <1>6 DEF WalksSound, WalkSound, WalkIsComplete
<1>10. SyncsSound'
  <2> SUFFICES ASSUME NEW c \in Syncers PROVE SyncSound(c)'
    BY DEF SyncsSound
  <2>1. SyncSound(c)
    BY DEF SyncsSound
  <2>2. exists' => sync'[c].known \subseteq stored'
    BY <1>0, <1>4, <1>6, <2>1 DEF SyncSound
  <2>3. ASSUME NEW s \in stored' \ sync'[c].known, NEW u \in sync'[c].known, s < u
        PROVE  s \in overtaken'
    <3>1. CASE s \in stored
      BY <1>0, <1>3, <2>1, <2>3, <3>1 DEF SyncSound
    <3>2. CASE s \notin stored
      <4>1. s \in open
        BY <1>2, <2>3, <3>2
      <4>2. exists /\ u \in stored
        BY <4>1, <1>0, <2>1, <2>3 DEF LogSound, SyncSound
      <4>3. Log!Commit(s) /\ overtaken' = overtaken \cup {t \in {s} : \E v \in stored : v > t}
        BY <4>1, <2>3, <3>2
           DEF Write, Log!Burn, Log!Insert, Log!Commit, Log!Abort, Log!Clear, LogSound
      <4>4. s \in Nat /\ u \in Nat
        BY <4>1, <4>2 DEF TypeOK
      <4> QED BY <4>2, <4>3, <4>4, <2>3
    <3> QED BY <3>1, <3>2
  <2> QED BY <2>2, <2>3 DEF SyncSound
<1>11. NothingTwice' /\ ResyncMissesOnlyOvertaken'
  BY <1>0, <1>3 DEF NothingTwice, ResyncMissesOnlyOvertaken
<1> QED BY <1>7, <1>8, <1>9, <1>10, <1>11

\* What a reader's step leaves alone.
LEMMA ReaderStep ==
  ASSUME IInv, NEW r \in Readers, NEW w \in Walk, walk' = [walk EXCEPT ![r] = w],
         UNCHANGED <<log, overtaken, sync>>, WalkSound(r)', w.again = {},
         w.given \cap open = {}, w.given \subseteq 1 .. drawn,
         w.pc = "done" /\ exists => w.wanted \subseteq w.given
  PROVE  IInv'
<1> USE DEF IInv
<1>1. walk'[r] = w /\ \A q \in Readers \ {r} : walk'[q] = walk[q]
  BY DEF TypeOK
<1>2. UNCHANGED <<drawn, open, stored, exists, overtaken, sync>>
  BY DEF log
<1>3. walk' \in [Readers -> Walk]
  BY DEF TypeOK
<1>4. TypeOK'
  <2>1. \A q \in Readers : walk'[q].given \cap open = {} /\ walk'[q].given \subseteq 1 .. drawn
    BY <1>1 DEF TypeOK
  <2> QED BY <1>2, <1>3, <2>1 DEF TypeOK
<1>5. WalksSound'
  <2>1. ASSUME NEW q \in Readers \ {r} PROVE WalkSound(q)'
    <3>1. walk'[q] = walk[q] /\ WalkSound(q)
      BY <1>1 DEF WalksSound
    <3> QED BY <1>2, <3>1 DEF WalkSound
  <2> QED BY <2>1 DEF WalksSound
<1>6. WalkIsComplete'
  BY <1>1, <1>2 DEF WalkIsComplete
<1>7. NothingTwice'
  BY <1>1, <1>2 DEF NothingTwice
<1>8. LogSound' /\ SyncsSound' /\ ResyncMissesOnlyOvertaken'
  BY <1>2 DEF LogSound, SyncsSound, SyncSound, ResyncMissesOnlyOvertaken
<1> QED BY <1>4, <1>5, <1>6, <1>7, <1>8

LEMMA BeginIsSound ==
  ASSUME IInv, NEW r \in Readers, NEW limit \in Limits, Begin(r, limit)
  PROVE  IInv'
<1> USE DEF IInv
<1> DEFINE w == [walk[r] EXCEPT !.pc = "ask", !.limit = limit, !.wanted = stored]
<1>1. walk[r] \in Walk /\ walk[r].pc = "idle" /\ WalkSound(r)
  BY DEF TypeOK, Begin, WalksSound
<1>2. w \in Walk /\ w.pc = "ask" /\ w.cursor = 0 /\ w.given = {} /\ w.wanted = stored
      /\ w.again = walk[r].again
  BY <1>1, StoredIsFinite, MessageHistoryAssumption DEF Walk, WalkSound
<1>3. walk' = [walk EXCEPT ![r] = w] /\ UNCHANGED <<log, overtaken, sync>>
  BY DEF Begin
<1>4. walk'[r] = w
  BY <1>3 DEF TypeOK
<1> HIDE DEF w
<1>5. WalkSound(r)'
  BY <1>2, <1>3, <1>4 DEF WalkSound, log
<1>6. w.again = {}
  BY <1>2 DEF NothingTwice
<1> QED BY <1>2, <1>3, <1>5, <1>6, ReaderStep

LEMMA AskPageIsSound ==
  ASSUME IInv, NEW r \in Readers, AskPage(r)
  PROVE  IInv'
<1> USE DEF IInv
<1> DEFINE w == [walk[r] EXCEPT !.pc = IF exists THEN "select" ELSE "refused"]
<1>1. walk[r] \in Walk /\ walk[r].pc = "ask" /\ WalkSound(r)
  BY DEF TypeOK, AskPage, WalksSound
<1>2. /\ w \in Walk
      /\ w.pc \in {"select", "refused"}
      /\ w.cursor = walk[r].cursor
      /\ w.given = walk[r].given
      /\ w.wanted = walk[r].wanted
      /\ w.again = walk[r].again
  BY <1>1 DEF Walk
<1>3. walk' = [walk EXCEPT ![r] = w] /\ UNCHANGED <<log, overtaken, sync>>
  BY DEF AskPage
<1>4. walk'[r] = w
  BY <1>3 DEF TypeOK
<1> HIDE DEF w
<1>5. WalkSound(r)'
  BY <1>1, <1>2, <1>3, <1>4 DEF WalkSound, log
<1>6. w.again = {} /\ w.given \cap open = {} /\ w.given \subseteq 1 .. drawn
  BY <1>2 DEF NothingTwice, TypeOK
<1> QED BY <1>2, <1>3, <1>5, <1>6, ReaderStep

\* A page is below everything the reader has been given, and what it leaves out for lack
\* of space is below the page.
LEMMA SelectPageIsSound ==
  ASSUME IInv, NEW r \in Readers, SelectPage(r)
  PROVE  IInv'
<1> USE DEF IInv
<1> DEFINE cursor == walk[r].cursor
           S == IF cursor > 0 THEN {s \in stored : s < cursor} ELSE stored
           n == EffectiveLimit(walk[r].limit)
           fetched == GetPage(cursor, n + 1)
           page == Newest(fetched, n)
           hasMore == HasMore(fetched, n)
<1>1. PICK next \in IF hasMore THEN {s \in page : \A t \in page : s <= t} ELSE {0} :
        walk' = [walk EXCEPT ![r] =
                   [@ EXCEPT !.pc = IF hasMore THEN "ask" ELSE "done",
                             !.cursor = next,
                             !.given = walk[r].given \cup page,
                             !.again = walk[r].again \cup (walk[r].given \cap page)]]
  BY DEF SelectPage
<1>2. walk[r] \in Walk /\ walk[r].pc = "select" /\ WalkSound(r) /\ walk[r].again = {}
  BY DEF TypeOK, SelectPage, WalksSound, NothingTwice
<1>3. cursor \in Nat /\ n \in Nat /\ n + 1 \in Nat
  BY <1>2, EffectiveLimitType DEF Walk
<1>4. fetched = Newest(S, n + 1)
  BY DEF GetPage
<1>5. /\ S \in SUBSET stored
      /\ fetched \in SUBSET S
      /\ page \in SUBSET fetched
  BY <1>4 DEF Newest
<1>6. /\ S \in SUBSET Nat /\ fetched \in SUBSET Nat /\ page \in SUBSET Nat /\ 0 \notin page
      /\ IsFiniteSet(S) /\ IsFiniteSet(fetched)
  BY <1>5, StoredIsFinite
<1>7. Cardinality(fetched) \in Nat
  BY <1>6, FS_CardinalityType
<1>8. next \in Nat
  BY <1>1, <1>6
<1> DEFINE w == [walk[r] EXCEPT !.pc = IF hasMore THEN "ask" ELSE "done",
                                !.cursor = next,
                                !.given = walk[r].given \cup page,
                                !.again = walk[r].again \cup (walk[r].given \cap page)]
<1>9. /\ w \in Walk
      /\ w.pc = IF hasMore THEN "ask" ELSE "done"
      /\ w.cursor = next
      /\ w.given = walk[r].given \cup page
      /\ w.wanted = walk[r].wanted
      /\ w.again = walk[r].again \cup (walk[r].given \cap page)
  <2> HIDE DEF page, hasMore
  <2> QED BY <1>2, <1>6, <1>8 DEF Walk
<1>10. walk' = [walk EXCEPT ![r] = w] /\ UNCHANGED <<log, overtaken, sync>>
  BY <1>1 DEF SelectPage
<1>11. walk'[r] = w
  BY <1>10 DEF TypeOK
<1>12. ASSUME NEW s \in page
       PROVE  s \in stored /\ s \in Nat /\ (cursor > 0 => s < cursor)
  <2>1. s \in S
    BY <1>5
  <2> QED BY <2>1, StoredIsFinite
<1>13. walk[r].given \cap page = {}
  <2> SUFFICES ASSUME NEW s \in page, s \in walk[r].given PROVE FALSE
    OBVIOUS
  <2>1. cursor # 0 /\ cursor <= s
    BY <1>2 DEF WalkSound
  <2> HIDE DEF cursor, page
  <2> QED BY <2>1, <1>3, <1>12
<1>14. w.given \cap open = {} /\ w.given \subseteq 1 .. drawn
  <2>1. page \cap open = {} /\ page \subseteq 1 .. drawn
    BY <1>12 DEF LogSound, TypeOK
  <2> HIDE DEF page, w
  <2> QED BY <2>1, <1>9 DEF TypeOK
<1>15. ASSUME exists, NEW s \in walk[r].wanted
       PROVE  s \in walk[r].given \/ s \in S
  <2>1. s \in stored /\ (s \in walk[r].given \/ cursor = 0 \/ s < cursor)
    BY <1>2, <1>15 DEF WalkSound
  <2> QED BY <2>1, <1>3
<1>16. ASSUME hasMore, NEW s \in S \ page
       PROVE  s < next
  <2>1. next \in page
    BY <1>1, <1>16
  <2>2. CASE s \in fetched
    <3> HIDE DEF fetched, n, hasMore, S
    <3> QED BY <1>3, <1>6, <1>16, <2>1, <2>2, NewestAreAbove
  <2>3. CASE s \notin fetched
    <3>1. next \in Newest(S, n + 1) /\ s \in S \ Newest(S, n + 1)
      BY <1>4, <1>5, <1>16, <2>1, <2>3
    <3> HIDE DEF n, S, hasMore
    <3> QED BY <1>3, <1>6, <3>1, NewestAreAbove
  <2> QED BY <2>2, <2>3
<1>17. ASSUME ~hasMore
       PROVE  page = S
  <2>1. Cardinality(fetched) <= n /\ Cardinality(fetched) < n + 1
    <3>1. ~(Cardinality(fetched) > n)
      BY <1>17 DEF HasMore
    <3> HIDE DEF fetched, n
    <3> QED BY <3>1, <1>3, <1>7
  <2>2. page = fetched
    <3> HIDE DEF fetched, n
    <3> QED BY <1>3, <1>6, <2>1, NewestOfFew
  <2>3. Cardinality(Newest(S, n + 1)) < n + 1
    BY <1>4, <2>1
  <2>4. Newest(S, n + 1) = S
    <3> HIDE DEF n, S
    <3> QED BY <1>3, <1>6, <2>3, FewNewestAreAll
  <2> QED BY <1>4, <2>2, <2>4
<1>18. ASSUME w.pc = "done", exists
       PROVE  w.wanted \subseteq w.given
  <2>1. ~hasMore
    BY <1>9, <1>18
  <2>2. page = S
    BY <2>1, <1>17
  <2> HIDE DEF page, S, w
  <2> QED BY <2>2, <1>9, <1>15, <1>18
<1>19. WalkSound(r)'
  <2>1. CASE ~hasMore
    <3>1. walk'[r].pc = "done"
      BY <2>1, <1>9, <1>11
    <3> QED BY <3>1 DEF WalkSound
  <2>2. CASE hasMore
    <3>1. next \in page /\ next # 0 /\ \A t \in page : next <= t
      BY <1>1, <1>6, <2>2
    <3>2. ASSUME NEW s \in walk[r].given
          PROVE  next <= s
      <4>1. cursor # 0 /\ cursor <= s /\ s \in Nat
        BY <1>2 DEF WalkSound, Walk
      <4> HIDE DEF cursor, page
      <4> QED BY <4>1, <3>1, <1>3, <1>12
    <3>3. \A s \in w.given : next <= s
      <4> HIDE DEF page, w
      <4> QED BY <1>9, <3>1, <3>2
    <3>4. ASSUME exists
          PROVE  w.wanted \subseteq stored /\ \A s \in w.wanted : s \in w.given \/ s < next
      <4>1. w.wanted \subseteq stored
        BY <1>2, <1>9, <3>4 DEF WalkSound
      <4> HIDE DEF page, w, S, hasMore
      <4> QED BY <4>1, <1>9, <1>15, <1>16, <2>2, <3>4
    <3>5. w.pc = "ask" /\ w.cursor = next
      BY <1>9, <2>2
    <3>6. exists' = exists /\ stored' = stored
      BY <1>10 DEF log
    <3> HIDE DEF w
    <3> QED BY <1>11, <3>1, <3>3, <3>4, <3>5, <3>6 DEF WalkSound
  <2> QED BY <2>1, <2>2
<1>20. w.again = {}
  BY <1>2, <1>9, <1>13
<1> HIDE DEF w
<1> QED BY <1>9, <1>10, <1>14, <1>18, <1>19, <1>20, ReaderStep

\* What a syncer's step leaves alone.
LEMMA SyncerStep ==
  ASSUME IInv, NEW c \in Syncers, NEW y \in Sync, sync' = [sync EXCEPT ![c] = y],
         UNCHANGED <<log, overtaken, walk>>, SyncSound(c)', y.again = {},
         y.known \cap open = {}, y.known \subseteq 1 .. drawn, y.missed \subseteq overtaken
  PROVE  IInv'
<1> USE DEF IInv
<1>1. sync'[c] = y /\ \A d \in Syncers \ {c} : sync'[d] = sync[d]
  BY DEF TypeOK
<1>2. UNCHANGED <<drawn, open, stored, exists, overtaken, walk>>
  BY DEF log
<1>3. sync' \in [Syncers -> Sync]
  BY DEF TypeOK
<1>4. TypeOK'
  <2>1. \A d \in Syncers : sync'[d].known \cap open = {} /\ sync'[d].known \subseteq 1 .. drawn
    BY <1>1 DEF TypeOK
  <2> QED BY <1>2, <1>3, <2>1 DEF TypeOK
<1>5. SyncsSound'
  <2>1. ASSUME NEW d \in Syncers \ {c} PROVE SyncSound(d)'
    <3>1. sync'[d] = sync[d] /\ SyncSound(d)
      BY <1>1 DEF SyncsSound
    <3> QED BY <1>2, <3>1 DEF SyncSound
  <2> QED BY <2>1 DEF SyncsSound
<1>6. NothingTwice' /\ ResyncMissesOnlyOvertaken'
  BY <1>1, <1>2 DEF NothingTwice, ResyncMissesOnlyOvertaken
<1>7. LogSound' /\ WalksSound' /\ WalkIsComplete'
  BY <1>2 DEF LogSound, WalksSound, WalkSound, WalkIsComplete
<1> QED BY <1>4, <1>5, <1>6, <1>7

LEMMA AskSyncIsSound ==
  ASSUME IInv, NEW c \in Syncers, AskSync(c)
  PROVE  IInv'
<1> USE DEF IInv
<1> DEFINE y == [sync[c] EXCEPT !.pc = IF exists THEN "select" ELSE "refused"]
<1>1. sync[c] \in Sync /\ SyncSound(c)
  BY DEF TypeOK, SyncsSound
<1>2. /\ y \in Sync
      /\ y.known = sync[c].known
      /\ y.again = sync[c].again
      /\ y.missed = sync[c].missed
  BY <1>1 DEF Sync
<1>3. sync' = [sync EXCEPT ![c] = y] /\ UNCHANGED <<log, overtaken, walk>>
  BY DEF AskSync
<1>4. sync'[c] = y
  BY <1>3 DEF TypeOK
<1> HIDE DEF y
<1>5. SyncSound(c)'
  BY <1>1, <1>2, <1>3, <1>4 DEF SyncSound, log
<1>6. y.again = {} /\ y.missed \subseteq overtaken
  BY <1>2 DEF NothingTwice, ResyncMissesOnlyOvertaken
<1>7. y.known \cap open = {} /\ y.known \subseteq 1 .. drawn
  BY <1>2 DEF TypeOK
<1> QED BY <1>2, <1>3, <1>5, <1>6, <1>7, SyncerStep

\* The answer brings what is stored right above what the syncer knows: of what it still
\* does not know, whatever is below a message that it does was overtaken.
LEMMA SelectSyncIsSound ==
  ASSUME IInv, NEW c \in Syncers, SelectSync(c)
  PROVE  IInv'
<1> USE DEF IInv
<1>1. PICK after \in LastKnown(c) :
        LET messages == GetAfterSeq(after)
            known == sync[c].known \cup messages
        IN sync' = [sync EXCEPT ![c] =
                      [@ EXCEPT !.pc = "ask",
                                !.known = known,
                                !.again = sync[c].again \cup (messages \cap sync[c].known),
                                !.missed = IF Cardinality(messages) < ResyncLimit
                                           THEN stored \ known ELSE sync[c].missed]]
  BY DEF SelectSync
<1> DEFINE S == {s \in stored : s > after}
           messages == GetAfterSeq(after)
           known == sync[c].known \cup messages
           missed == IF Cardinality(messages) < ResyncLimit
                     THEN stored \ known ELSE sync[c].missed
           y == [sync[c] EXCEPT !.pc = "ask",
                                !.known = known,
                                !.again = sync[c].again \cup (messages \cap sync[c].known),
                                !.missed = missed]
<1>2. sync[c] \in Sync /\ SyncSound(c) /\ sync[c].again = {} /\ sync[c].missed \subseteq overtaken
  BY DEF TypeOK, SyncsSound, NothingTwice, ResyncMissesOnlyOvertaken
<1>3. /\ after \in Nat
      /\ after \in sync[c].known \cup {0}
      /\ \A t \in sync[c].known : t \in Nat /\ t <= after
  BY <1>2 DEF LastKnown, Sync
<1>4. messages = Oldest(S, ResyncLimit)
  BY DEF GetAfterSeq
<1>5. S \in SUBSET stored /\ messages \in SUBSET S
  BY <1>4 DEF Oldest
<1>6. stored \in SUBSET Nat /\ S \in SUBSET Nat /\ IsFiniteSet(S) /\ messages \in SUBSET Nat
      /\ 0 \notin stored
  BY <1>5, StoredIsFinite
<1>7. /\ y \in Sync
      /\ y.known = known
      /\ y.again = sync[c].again \cup (messages \cap sync[c].known)
      /\ y.missed = missed
  <2>1. known \in SUBSET Nat /\ missed \in SUBSET Nat
    <3> HIDE DEF messages
    <3> QED BY <1>2, <1>6 DEF Sync
  <2> HIDE DEF messages, known, missed
  <2> QED BY <1>2, <1>6, <2>1 DEF Sync
<1>8. sync' = [sync EXCEPT ![c] = y] /\ UNCHANGED <<log, overtaken, walk>>
  BY <1>1 DEF SelectSync
<1>9. sync'[c] = y
  BY <1>8 DEF TypeOK
<1>10. \A s \in messages : s \in stored /\ s \in Nat /\ s > after
  BY <1>5, <1>6
<1>11. messages \cap sync[c].known = {}
  <2> SUFFICES ASSUME NEW s \in messages, s \in sync[c].known PROVE FALSE
    OBVIOUS
  <2> HIDE DEF messages
  <2> QED BY <1>3, <1>10
\* What is stored up to the last message known, and is unknown, was overtaken.
<1>12. ASSUME NEW s \in stored \ sync[c].known, ~(s > after)
       PROVE  s \in overtaken
  <2>1. s \in Nat /\ s # 0 /\ s # after
    BY <1>3, <1>6, <1>12
  <2>2. after \in sync[c].known /\ s < after
    BY <2>1, <1>3, <1>12
  <2> QED BY <2>2, <1>2 DEF SyncSound
<1>13. ASSUME NEW s \in stored \ known, NEW u \in known, s < u
       PROVE  s \in overtaken
  <2>1. CASE ~(s > after)
    BY <2>1, <1>12
  <2>2. CASE s > after
    <3>1. s \in S \ Oldest(S, ResyncLimit)
      BY <1>4, <1>6, <2>2
    <3>2. u \in Nat /\ s \in Nat
      BY <1>3, <1>6
    <3>3. u \in messages
      <4> HIDE DEF messages
      <4> QED BY <3>2, <1>3, <1>13, <2>2
    <3>4. u \in Oldest(S, ResyncLimit) /\ ResyncLimit \in Nat
      BY <3>3, <1>4, MessageHistoryAssumption
    <3>5. u < s
      <4> HIDE DEF S
      <4> QED BY <3>1, <3>4, <1>6, OldestAreBelow
    <3> QED BY <3>2, <3>5, <1>13
  <2> QED BY <2>1, <2>2
<1>14. missed \subseteq overtaken
  <2>1. CASE ~(Cardinality(messages) < ResyncLimit)
    BY <2>1, <1>2
  <2>2. CASE Cardinality(messages) < ResyncLimit
    <3>1. messages = S
      <4>1. Cardinality(Oldest(S, ResyncLimit)) < ResyncLimit /\ ResyncLimit \in Nat
        BY <1>4, <2>2, MessageHistoryAssumption
      <4>2. Oldest(S, ResyncLimit) = S
        <5> HIDE DEF S
        <5> QED BY <4>1, <1>6, FewOldestAreAll
      <4> QED BY <4>2, <1>4
    <3>2. \A s \in stored \ known : ~(s > after)
      BY <3>1
    <3> QED BY <3>2, <2>2, <1>12
  <2> QED BY <2>1, <2>2
<1>15. y.known \cap open = {} /\ y.known \subseteq 1 .. drawn
  <2>1. messages \cap open = {} /\ messages \subseteq 1 .. drawn
    BY <1>10 DEF LogSound, TypeOK
  <2> HIDE DEF messages, y
  <2> QED BY <2>1, <1>7 DEF TypeOK
<1>16. y.again = {}
  BY <1>2, <1>7, <1>11
<1>17. exists => known \subseteq stored
  BY <1>2, <1>10 DEF SyncSound
<1> HIDE DEF y, missed
<1>18. SyncSound(c)'
  <2>1. exists' = exists /\ stored' = stored /\ overtaken' = overtaken /\ sync'[c].known = known
    BY <1>7, <1>8, <1>9 DEF log
  <2> HIDE DEF known
  <2> QED BY <2>1, <1>13, <1>17 DEF SyncSound
<1> QED BY <1>7, <1>8, <1>14, <1>15, <1>16, <1>18, SyncerStep

LEMMA StutterIsSound ==
  ASSUME IInv, UNCHANGED vars
  PROVE  IInv'
BY DEF IInv, vars, log, TypeOK, LogSound, WalksSound, WalkSound, WalkIsComplete, SyncsSound,
       SyncSound, NothingTwice, ResyncMissesOnlyOvertaken

-----------------------------------------------------------------------------
(* Theorems *)

\* The inductive invariant holds in every reachable state.
THEOREM Invariance == Spec => []IInv
<1>1. Init => IInv
  BY InitIsSound
<1>2. IInv /\ [Next]_vars => IInv'
  <2> SUFFICES ASSUME IInv, [Next]_vars PROVE IInv'
    OBVIOUS
  <2>1. CASE Write
    BY <2>1, WriteIsSound
  <2>2. ASSUME NEW r \in Readers, NEW limit \in Limits, Begin(r, limit) PROVE IInv'
    BY <2>2, BeginIsSound
  <2>3. ASSUME NEW r \in Readers, AskPage(r) PROVE IInv'
    BY <2>3, AskPageIsSound
  <2>4. ASSUME NEW r \in Readers, SelectPage(r) PROVE IInv'
    BY <2>4, SelectPageIsSound
  <2>5. ASSUME NEW c \in Syncers, AskSync(c) PROVE IInv'
    BY <2>5, AskSyncIsSound
  <2>6. ASSUME NEW c \in Syncers, SelectSync(c) PROVE IInv'
    BY <2>6, SelectSyncIsSound
  <2>7. CASE UNCHANGED vars
    BY <2>7, StutterIsSound
  <2> QED BY <2>1, <2>2, <2>3, <2>4, <2>5, <2>6, <2>7 DEF Next, Read, Rest
<1> QED BY <1>1, <1>2, PTL DEF Spec

\* The log, the cursors and the messages of the clients always have their types.
THEOREM TypeCorrect == Spec => []TypeOK
<1>1. IInv => TypeOK
  BY DEF IInv
<1> QED BY <1>1, Invariance, PTL

\* Neither GetMessages, page by page, nor GetAfterSeq ever gives a client a message twice.
THEOREM NothingIsGivenTwice == Spec => []NothingTwice
<1>1. IInv => NothingTwice
  BY DEF IInv
<1> QED BY <1>1, Invariance, PTL

\* A walk through GetMessages that ends has seen all that was stored when it began.
THEOREM WalksAreComplete == Spec => []WalkIsComplete
<1>1. IInv => WalkIsComplete
  BY DEF IInv
<1> QED BY <1>1, Invariance, PTL

\* What GetAfterSeq leaves out was committed after a message with a higher seq.
THEOREM OnlyOvertakenAreMissed == Spec => []ResyncMissesOnlyOvertaken
<1>1. IInv => ResyncMissesOnlyOvertaken
  BY DEF IInv
<1> QED BY <1>1, Invariance, PTL

-----------------------------------------------------------------------------
(* Paging gets on *)

PageAdvances(r) ==
  /\ walk[r].given \subseteq walk'[r].given /\ walk'[r].given # walk[r].given
  /\ walk'[r].cursor > 0
  /\ walk[r].cursor > 0 => walk'[r].cursor < walk[r].cursor

\* The last message of a page is below what the reader has, and new to it.
LEMMA SelectPageAdvances ==
  ASSUME IInv, NEW r \in Readers, SelectPage(r), walk'[r].pc = "ask"
  PROVE  PageAdvances(r)
<1> DEFINE cursor == walk[r].cursor
           n == EffectiveLimit(walk[r].limit)
           fetched == GetPage(cursor, n + 1)
           page == Newest(fetched, n)
           hasMore == HasMore(fetched, n)
<1>1. PICK next \in IF hasMore THEN {s \in page : \A t \in page : s <= t} ELSE {0} :
        walk' = [walk EXCEPT ![r] =
                   [@ EXCEPT !.pc = IF hasMore THEN "ask" ELSE "done",
                             !.cursor = next,
                             !.given = walk[r].given \cup page,
                             !.again = walk[r].again \cup (walk[r].given \cap page)]]
  BY DEF SelectPage
<1>2. walk \in [Readers -> Walk] /\ walk[r] \in Walk /\ walk[r].pc = "select" /\ WalkSound(r)
  BY DEF IInv, TypeOK, SelectPage, WalksSound
<1>3. \A s \in page : s \in stored /\ (cursor > 0 => s < cursor)
  BY DEF Newest, GetPage
<1> HIDE DEF hasMore, page
<1>4. /\ walk'[r].pc = IF hasMore THEN "ask" ELSE "done"
      /\ walk'[r].cursor = next
      /\ walk'[r].given = walk[r].given \cup page
  BY <1>1, <1>2 DEF Walk
<1>5. next \in page
  BY <1>1, <1>4
<1>6. /\ next \in Nat /\ next # 0 /\ cursor \in Nat
      /\ cursor > 0 => next < cursor
  BY <1>2, <1>3, <1>5, StoredIsFinite DEF IInv, Walk
<1>7. next \notin walk[r].given
  BY <1>2, <1>6 DEF WalkSound, Walk
<1> QED
  BY <1>4, <1>5, <1>6, <1>7 DEF PageAdvances

\* No walk turns in a circle.
THEOREM PagesAdvance == Spec => EveryPageAdvances
<1>1. IInv /\ [Next]_vars
      => \A r \in Readers : walk[r].pc = "select" /\ walk'[r].pc = "ask" => PageAdvances(r)
  <2> SUFFICES ASSUME IInv, [Next]_vars, NEW r \in Readers,
                      walk[r].pc = "select", walk'[r].pc = "ask"
               PROVE  PageAdvances(r)
    OBVIOUS
  <2>1. walk \in [Readers -> Walk]
    BY DEF IInv, TypeOK
  <2>2. SelectPage(r)
    <3>1. ASSUME NEW q \in Readers, NEW limit \in Limits, Begin(q, limit) PROVE FALSE
      BY <2>1, <3>1 DEF Begin
    <3>2. ASSUME NEW q \in Readers, AskPage(q) PROVE FALSE
      BY <2>1, <3>2 DEF AskPage
    <3>3. ASSUME NEW q \in Readers, SelectPage(q) PROVE q = r
      BY <2>1, <3>3 DEF SelectPage
    <3>4. walk' # walk
      OBVIOUS
    <3> QED
      BY <3>1, <3>2, <3>3, <3>4 DEF Next, Write, Read, AskSync, SelectSync, Rest, vars
  <2> QED
    BY <2>2, SelectPageAdvances
<1> QED
  BY <1>1, Invariance, PTL DEF Spec, EveryPageAdvances, PageAdvances

=============================================================================
