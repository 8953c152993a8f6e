-------------------------- MODULE ConnectionProofs --------------------------
(***************************************************************************)
(* Connection, for any connections and other goroutines, any size of the   *)
(* send buffers, and any number of events and broadcasts.                  *)
(***************************************************************************)
EXTENDS Connection, SequenceTheorems, TLAPS

\* The reader of c has an answer that is not in the buffer yet.
Waiting(c) == pc[c] \in {"asking", "answering"}

\* A buffer b, whose writer is writing frame f (w) and whose reader waits with an answer
\* (a), the last of n, holds each answer of o once and in the order of their numbers.
InLine(b, w, f, a, n, o) ==
  /\ o = ({b[i] : i \in 1 .. Len(b)} \cup {x \in {f} : w} \cup {x \in {n} : a}) \ {0}
  /\ \A i, j \in 1 .. Len(b) : i < j /\ b[j] # 0 => b[i] < b[j]
  /\ \A i \in 1 .. Len(b) : b[i] <= n
  /\ w => f <= n
  /\ w => \A i \in 1 .. Len(b) : b[i] # 0 => f < b[i]
  /\ a => n # 0
  /\ a => \A i \in 1 .. Len(b) : b[i] < n
  /\ a /\ w => f < n

LineSound(c) ==
  InLine(buffer[c], writer[c] = "writing", frame[c], Waiting(c), asks[c], owed[c])

LinesSound == \A c \in Clients : conn[c] = "up" => LineSound(c)

\* A writer starts when its client is in the hub.
WritersStart == \A c \in Clients : pc[c] = "entering" => writer[c] = "off"

IInv == TypeOK /\ LinesSound /\ WritersStart

-----------------------------------------------------------------------------
(* Buffers *)

\* A frame more at the end.
LEMMA AppendFacts ==
  ASSUME NEW S, NEW b \in Seq(S), NEW x \in S
  PROVE  /\ Append(b, x) \in Seq(S)
         /\ Len(b) \in Nat
         /\ Len(Append(b, x)) = Len(b) + 1
         /\ \A i \in 1 .. Len(b) : Append(b, x)[i] = b[i]
         /\ Append(b, x)[Len(b) + 1] = x
OBVIOUS

\* The first frame, and what is left.
LEMMA TakeFacts ==
  ASSUME NEW S, NEW b \in Seq(S), b # <<>>
  PROVE  /\ Tail(b) \in Seq(S)
         /\ Len(b) \in Nat \ {0}
         /\ Len(Tail(b)) = Len(b) - 1
         /\ Head(b) = b[1] /\ Head(b) \in S
         /\ \A i \in 1 .. Len(b) - 1 : Tail(b)[i] = b[i + 1]
OBVIOUS

\* The frames after one more was appended.
LEMMA AppendFrames ==
  ASSUME NEW b \in Seq(Nat), NEW x \in Nat
  PROVE  {Append(b, x)[i] : i \in 1 .. Len(Append(b, x))}
           = {b[i] : i \in 1 .. Len(b)} \cup {x}
<1> DEFINE c == Append(b, x)
<1>1. /\ Len(b) \in Nat /\ Len(c) = Len(b) + 1
      /\ \A i \in 1 .. Len(b) : c[i] = b[i]
      /\ c[Len(b) + 1] = x
  BY AppendFacts
<1> HIDE DEF c
<1>2. 1 .. Len(c) = (1 .. Len(b)) \cup {Len(b) + 1}
  BY <1>1
<1> QED
  <2>1. \A y \in {c[i] : i \in 1 .. Len(c)} : y \in {b[i] : i \in 1 .. Len(b)} \cup {x}
    BY <1>1, <1>2
  <2>2. \A y \in {b[i] : i \in 1 .. Len(b)} \cup {x} : y \in {c[i] : i \in 1 .. Len(c)}
    BY <1>1, <1>2
  <2>3. {c[i] : i \in 1 .. Len(c)} = {b[i] : i \in 1 .. Len(b)} \cup {x}
    BY <2>1, <2>2
  <2> QED BY <2>3 DEF c

\* The first frame and the others.
LEMMA TakeFrames ==
  ASSUME NEW b \in Seq(Nat), b # <<>>
  PROVE  {b[i] : i \in 1 .. Len(b)}
           = {Tail(b)[i] : i \in 1 .. Len(Tail(b))} \cup {Head(b)}
<1> DEFINE c == Tail(b)
           x == Head(b)
<1>1. /\ Len(b) \in Nat \ {0} /\ Len(c) = Len(b) - 1 /\ x = b[1]
      /\ \A i \in 1 .. Len(b) - 1 : c[i] = b[i + 1]
  BY TakeFacts
<1> HIDE DEF c, x
<1>2. \A i \in 1 .. Len(b) : i = 1 \/ (i - 1 \in 1 .. Len(c) /\ c[i - 1] = b[i])
  BY <1>1
<1>3. \A i \in 1 .. Len(c) : i + 1 \in 1 .. Len(b) /\ c[i] = b[i + 1]
  BY <1>1
<1>4. 1 \in 1 .. Len(b)
  BY <1>1
<1>5. \A y \in {c[i] : i \in 1 .. Len(c)} \cup {x} : y \in {b[i] : i \in 1 .. Len(b)}
  BY <1>1, <1>3, <1>4
<1>6. \A y \in {b[i] : i \in 1 .. Len(b)} : y \in {c[i] : i \in 1 .. Len(c)} \cup {x}
  BY <1>1, <1>2
<1>7. {b[i] : i \in 1 .. Len(b)} = {c[i] : i \in 1 .. Len(c)} \cup {x}
  BY <1>5, <1>6
<1> QED BY <1>7 DEF c, x

-----------------------------------------------------------------------------
(* What keeps the answers in line *)

\* A broadcast joins the line.
LEMMA OfferedInLine ==
  ASSUME NEW b \in Seq(Nat), NEW w \in BOOLEAN, NEW f \in Nat, NEW a \in BOOLEAN, NEW n \in Nat,
         NEW o, InLine(b, w, f, a, n, o)
  PROVE  InLine(Append(b, 0), w, f, a, n, o)
<1> DEFINE c == Append(b, 0)
<1>1. /\ Len(b) \in Nat /\ Len(c) = Len(b) + 1
      /\ \A i \in 1 .. Len(b) : c[i] = b[i]
      /\ c[Len(b) + 1] = 0
  BY AppendFacts
<1>2. {c[i] : i \in 1 .. Len(c)} = {b[i] : i \in 1 .. Len(b)} \cup {0}
  BY AppendFrames
<1> HIDE DEF c
<1>3. \A i \in 1 .. Len(c) : (i \in 1 .. Len(b) /\ c[i] = b[i]) \/ (i = Len(b) + 1 /\ c[i] = 0)
  BY <1>1
<1>4. InLine(c, w, f, a, n, o)
  <2>1. o = ({c[i] : i \in 1 .. Len(c)} \cup {x \in {f} : w} \cup {x \in {n} : a}) \ {0}
    BY <1>2 DEF InLine
  <2>2. \A i, j \in 1 .. Len(c) : i < j /\ c[j] # 0 => c[i] < c[j]
    BY <1>1, <1>3 DEF InLine
  <2>3. \A i \in 1 .. Len(c) : c[i] <= n
    BY <1>3 DEF InLine
  <2>4. w => \A i \in 1 .. Len(c) : c[i] # 0 => f < c[i]
    BY <1>3 DEF InLine
  <2>5. a => \A i \in 1 .. Len(c) : c[i] < n
    BY <1>3 DEF InLine
  <2> QED BY <2>1, <2>2, <2>3, <2>4, <2>5 DEF InLine
<1> QED BY <1>4 DEF c

\* The answer that waited joins the line.
LEMMA AnsweredInLine ==
  ASSUME NEW b \in Seq(Nat), NEW w \in BOOLEAN, NEW f \in Nat, NEW n \in Nat,
         NEW o, InLine(b, w, f, TRUE, n, o)
  PROVE  InLine(Append(b, n), w, f, FALSE, n, o)
<1> DEFINE c == Append(b, n)
<1>1. /\ Len(b) \in Nat /\ Len(c) = Len(b) + 1
      /\ \A i \in 1 .. Len(b) : c[i] = b[i]
      /\ c[Len(b) + 1] = n
  BY AppendFacts
<1>2. {c[i] : i \in 1 .. Len(c)} = {b[i] : i \in 1 .. Len(b)} \cup {n}
  BY AppendFrames
<1> HIDE DEF c
<1>3. \A i \in 1 .. Len(c) : (i \in 1 .. Len(b) /\ c[i] = b[i]) \/ (i = Len(b) + 1 /\ c[i] = n)
  BY <1>1
<1>4. InLine(c, w, f, FALSE, n, o)
  <2>1. o = ({c[i] : i \in 1 .. Len(c)} \cup {x \in {f} : w} \cup {x \in {n} : FALSE}) \ {0}
    BY <1>2 DEF InLine
  <2>2. \A i, j \in 1 .. Len(c) : i < j /\ c[j] # 0 => c[i] < c[j]
    BY <1>1, <1>3 DEF InLine
  <2>3. \A i \in 1 .. Len(c) : c[i] <= n
    BY <1>3 DEF InLine
  <2>4. w => \A i \in 1 .. Len(c) : c[i] # 0 => f < c[i]
    BY <1>3 DEF InLine
  <2> QED BY <2>1, <2>2, <2>3, <2>4 DEF InLine
<1> QED BY <1>4 DEF c

\* The first frame is taken out to be written.
LEMMA TakenInLine ==
  ASSUME NEW b \in Seq(Nat), b # <<>>, NEW f \in Nat, NEW a \in BOOLEAN, NEW n \in Nat, NEW o,
         InLine(b, FALSE, f, a, n, o)
  PROVE  InLine(Tail(b), TRUE, Head(b), a, n, o)
<1> DEFINE c == Tail(b)
           x == Head(b)
<1>1. /\ Len(b) \in Nat \ {0} /\ Len(c) = Len(b) - 1 /\ x = b[1]
      /\ \A i \in 1 .. Len(b) - 1 : c[i] = b[i + 1]
  BY TakeFacts
<1>2. {b[i] : i \in 1 .. Len(b)} = {c[i] : i \in 1 .. Len(c)} \cup {x}
  BY TakeFrames
<1> HIDE DEF c, x
<1>3. \A i \in 1 .. Len(c) : i \in Nat /\ i + 1 \in 1 .. Len(b) /\ 1 < i + 1 /\ c[i] = b[i + 1]
  BY <1>1
<1>4. 1 \in 1 .. Len(b)
  BY <1>1
<1>5. InLine(c, TRUE, x, a, n, o)
  <2>1. o = ({c[i] : i \in 1 .. Len(c)} \cup {y \in {x} : TRUE} \cup {y \in {n} : a}) \ {0}
    BY <1>2 DEF InLine
  <2>2. ASSUME NEW i \in 1 .. Len(c), NEW j \in 1 .. Len(c), i < j, c[j] # 0
        PROVE  c[i] < c[j]
    <3>1. i + 1 < j + 1
      BY <1>3, <2>2
    <3>2. \A k, l \in 1 .. Len(b) : k < l /\ b[l] # 0 => b[k] < b[l]
      BY DEF InLine
    <3> QED BY <1>3, <2>2, <3>1, <3>2
  <2>3. \A i \in 1 .. Len(c) : c[i] <= n
    BY <1>3 DEF InLine
  <2>4. x <= n /\ \A i \in 1 .. Len(c) : c[i] # 0 => x < c[i]
    BY <1>1, <1>3, <1>4 DEF InLine
  <2>5. a => x < n /\ \A i \in 1 .. Len(c) : c[i] < n
    BY <1>1, <1>3, <1>4 DEF InLine
  <2>6. a => n # 0
    BY DEF InLine
  <2> QED BY <2>1, <2>2, <2>3, <2>4, <2>5, <2>6 DEF InLine
<1> QED BY <1>5 DEF c, x

\* It has been received, and no other frame was the same answer.
LEMMA WrittenInLine ==
  ASSUME NEW b \in Seq(Nat), NEW f \in Nat, NEW a \in BOOLEAN, NEW n \in Nat, NEW o,
         InLine(b, TRUE, f, a, n, o)
  PROVE  InLine(b, FALSE, 0, a, n, o \ {f})
<1>1. \A i \in 1 .. Len(b) : b[i] \in Nat
  OBVIOUS
<1>2. f \notin ({b[i] : i \in 1 .. Len(b)} \cup {x \in {n} : a}) \ {0}
  BY <1>1 DEF InLine
<1>3. o \ {f} = ({b[i] : i \in 1 .. Len(b)} \cup {x \in {0} : FALSE} \cup {x \in {n} : a}) \ {0}
  BY <1>2 DEF InLine
<1> QED BY <1>3 DEF InLine

\* The next event is to be answered.
LEMMA AskedInLine ==
  ASSUME NEW b \in Seq(Nat), NEW w \in BOOLEAN, NEW f \in Nat, NEW n \in Nat, NEW o,
         InLine(b, w, f, FALSE, n, o)
  PROVE  InLine(b, w, f, TRUE, n + 1, o \cup {n + 1})
<1>1. \A i \in 1 .. Len(b) : b[i] \in Nat
  OBVIOUS
<1>2. o \cup {n + 1}
        = ({b[i] : i \in 1 .. Len(b)} \cup {x \in {f} : w} \cup {x \in {n + 1} : TRUE}) \ {0}
  BY DEF InLine
<1>3. n + 1 # 0 /\ \A k \in Nat : k <= n => k < n + 1 /\ k <= n + 1
  OBVIOUS
<1> QED BY <1>1, <1>2, <1>3 DEF InLine

-----------------------------------------------------------------------------
(* What the line of a connection looks like to its peer *)

\* Three sequences, one after the other.
LEMMA ConcatThree ==
  ASSUME NEW u \in Seq(Nat), NEW b \in Seq(Nat), NEW v \in Seq(Nat), NEW s, s = u \o b \o v,
         NEW p \in Nat, p = Len(u), NEW k \in Nat, k = Len(b), NEW q \in Nat, q = Len(v)
  PROVE  /\ DOMAIN s = 1 .. p + k + q
         /\ \A i \in 1 .. p + k + q :
              \/ i \in 1 .. p /\ s[i] = u[i]
              \/ i > p /\ i - p \in 1 .. k /\ s[i] = b[i - p]
              \/ i > p + k /\ i - (p + k) \in 1 .. q /\ s[i] = v[i - (p + k)]
<1>1. PICK m \in Seq(Nat) : m = u \o b
  <2>1. u \o b \in Seq(Nat)
    BY ConcatProperties, Zenon
  <2> QED BY <2>1, Zenon
<1>2. /\ Len(m) = p + k
      /\ \A i \in 1 .. p + k : m[i] = IF i <= p THEN u[i] ELSE b[i - p]
  BY <1>1, ConcatProperties
<1>3. s = m \o v
  BY <1>1
<1>4. s \in Seq(Nat) /\ Len(s) = p + k + q
  <2>1. m \o v \in Seq(Nat) /\ Len(m \o v) = Len(m) + Len(v)
    BY ConcatProperties, Zenon
  <2> QED BY <2>1, <1>2, <1>3
<1>5. \A i \in 1 .. Len(m) + Len(v) :
        (m \o v)[i] = IF i <= Len(m) THEN m[i] ELSE v[i - Len(m)]
  BY ConcatProperties, Zenon
<1>6. \A i \in 1 .. p + k + q : s[i] = IF i <= p + k THEN m[i] ELSE v[i - (p + k)]
  <2>1. Len(m) + Len(v) = p + k + q
    BY <1>2
  <2> QED BY <2>1, <1>2, <1>3, <1>5
<1>7. DOMAIN s = 1 .. p + k + q
  BY <1>4
<1>8. ASSUME NEW i \in 1 .. p + k + q
      PROVE  \/ i \in 1 .. p /\ s[i] = u[i]
             \/ i > p /\ i - p \in 1 .. k /\ s[i] = b[i - p]
             \/ i > p + k /\ i - (p + k) \in 1 .. q /\ s[i] = v[i - (p + k)]
  <2>1. CASE i <= p
    BY <2>1, <1>2, <1>6
  <2>2. CASE i > p /\ i <= p + k
    BY <2>2, <1>2, <1>6
  <2>3. CASE i > p + k
    BY <2>3, <1>6
  <2> QED BY <2>1, <2>2, <2>3
<1> QED BY <1>7, <1>8

\* The line of c, written as one sequence.
LEMMA InLineIsInFlight ==
  ASSUME TypeOK, NEW c \in Clients, LineSound(c)
  PROVE  /\ owed[c] = {InFlight(c)[i] : i \in DOMAIN InFlight(c)} \ {0}
         /\ \A i, j \in DOMAIN InFlight(c) :
              i < j /\ InFlight(c)[j] # 0 => InFlight(c)[i] < InFlight(c)[j]
<1> DEFINE wr == IF writer[c] = "writing" THEN <<frame[c]>> ELSE <<>>
           wt == IF pc[c] \in {"asking", "answering"} THEN <<asks[c]>> ELSE <<>>
<1>1. PICK b \in Seq(Nat), f \in Nat, n \in Nat : b = buffer[c] /\ f = frame[c] /\ n = asks[c]
  BY DEF TypeOK
<1>2. PICK w \in BOOLEAN, a \in BOOLEAN : (w <=> writer[c] = "writing") /\ (a <=> Waiting(c))
  <2>1. (writer[c] = "writing") \in BOOLEAN /\ Waiting(c) \in BOOLEAN
    BY DEF Waiting
  <2> QED BY <2>1
<1>3. wr \in Seq(Nat) /\ wt \in Seq(Nat)
  BY <1>1
<1>4. PICK p \in Nat, k \in Nat, q \in Nat : p = Len(wr) /\ k = Len(b) /\ q = Len(wt)
  <2>1. Len(wr) \in Nat /\ Len(b) \in Nat /\ Len(wt) \in Nat
    BY <1>3
  <2> HIDE DEF wr, wt
  <2> QED BY <2>1
<1>5. /\ w => p = 1 /\ wr[1] = f
      /\ ~w => p = 0
  BY <1>1, <1>2, <1>4
<1>6. /\ a => q = 1 /\ wt[1] = n
      /\ ~a => q = 0
  BY <1>1, <1>2, <1>4 DEF Waiting
<1>7. PICK s : s = wr \o b \o wt
  OBVIOUS
<1>8. InFlight(c) = s
  BY <1>1, <1>7 DEF InFlight
<1> HIDE DEF wr, wt
<1>9. /\ DOMAIN s = 1 .. p + k + q
      /\ \A i \in 1 .. p + k + q :
           \/ i \in 1 .. p /\ s[i] = wr[i]
           \/ i > p /\ i - p \in 1 .. k /\ s[i] = b[i - p]
           \/ i > p + k /\ i - (p + k) \in 1 .. q /\ s[i] = wt[i - (p + k)]
  BY <1>3, <1>4, <1>7, ConcatThree
\* Where each frame of s comes from, and where each part of the line is in s.
<1>10. ASSUME NEW i \in 1 .. p + k + q
       PROVE  \/ w /\ i = 1 /\ s[i] = f
              \/ i > p /\ i - p \in 1 .. k /\ s[i] = b[i - p]
              \/ a /\ i > p + k /\ i = p + k + 1 /\ s[i] = n
  BY <1>5, <1>6, <1>9
<1>11. ASSUME NEW i \in 1 .. k
       PROVE  i + p \in 1 .. p + k + q /\ s[i + p] = b[i]
  <2>1. PICK j \in Nat : j = i + p
    OBVIOUS
  <2>2. j \in 1 .. p + k + q /\ j \notin 1 .. p /\ ~(j > p + k) /\ j - p = i
    BY <2>1
  <2>3. s[j] = b[j - p]
    BY <2>2, <1>9
  <2> QED BY <2>1, <2>2, <2>3
<1>12. w => 1 \in 1 .. p + k + q /\ s[1] = f
  BY <1>5, <1>9
<1>13. a => p + k + 1 \in 1 .. p + k + q /\ s[p + k + 1] = n
  <2>1. /\ (p + k + 1) - (p + k) = 1
        /\ ~((p + k + 1) - p \in 1 .. k)
        /\ ~(p + k + 1 \in 1 .. p)
    OBVIOUS
  <2>2. SUFFICES ASSUME a
                 PROVE  p + k + 1 \in 1 .. p + k + q /\ s[p + k + 1] = n
    OBVIOUS
  <2>3. p + k + 1 \in 1 .. p + k + q
    BY <2>2, <1>6
  <2> QED BY <2>1, <2>2, <2>3, <1>6, <1>9
<1>14. InLine(b, w, f, a, n, owed[c])
  <2>1. w = (writer[c] = "writing") /\ a = Waiting(c)
    BY <1>2 DEF Waiting
  <2> QED BY <2>1, <1>1 DEF LineSound
<1> DEFINE Line == {b[i] : i \in 1 .. k} \cup {x \in {f} : w} \cup {x \in {n} : a}
<1>15. owed[c] = {s[i] : i \in 1 .. p + k + q} \ {0}
  <2>1. \A y \in {s[i] : i \in 1 .. p + k + q} : y \in Line
    BY <1>10
  <2>2. \A y \in Line : y \in {s[i] : i \in 1 .. p + k + q}
    BY <1>11, <1>12, <1>13
  <2> HIDE DEF Line
  <2>3. Line = {s[i] : i \in 1 .. p + k + q}
    BY <2>1, <2>2
  <2> QED BY <2>3, <1>4, <1>14 DEF InLine, Line
<1>16. ASSUME NEW i \in 1 .. p + k + q, NEW j \in 1 .. p + k + q, i < j, s[j] # 0
       PROVE  s[i] < s[j]
  <2>1. CASE i > p /\ i - p \in 1 .. k /\ s[i] = b[i - p]
    <3>1. CASE j > p /\ j - p \in 1 .. k /\ s[j] = b[j - p]
      <4>1. i - p < j - p
        BY <1>16
      <4> QED BY <2>1, <3>1, <4>1, <1>4, <1>14, <1>16 DEF InLine
    <3>2. CASE a /\ s[j] = n
      BY <2>1, <3>2, <1>4, <1>14 DEF InLine
    <3> QED BY <2>1, <3>1, <3>2, <1>5, <1>10, <1>16
  <2>2. CASE w /\ i = 1 /\ s[i] = f
    <3>1. CASE j > p /\ j - p \in 1 .. k /\ s[j] = b[j - p]
      BY <2>2, <3>1, <1>4, <1>14, <1>16 DEF InLine
    <3>2. CASE a /\ s[j] = n
      BY <2>2, <3>2, <1>14 DEF InLine
    <3> QED BY <2>2, <3>1, <3>2, <1>10, <1>16
  <2>3. CASE a /\ i > p + k /\ i = p + k + 1 /\ s[i] = n
    BY <2>3, <1>6, <1>16
  <2> QED BY <2>1, <2>2, <2>3, <1>10
<1> QED BY <1>8, <1>9, <1>15, <1>16

-----------------------------------------------------------------------------
(* Initial states *)

LEMMA InitIInv == Init => IInv
<1> SUFFICES ASSUME Init PROVE IInv
  OBVIOUS
<1>1. TypeOK
  <2>1. \A g \in Goroutines : pc[g] \in Phase
    BY DEF Init, Phase, AtLock, WantLock
  <2>2. \A c \in Clients : MaxAsks[c] \in Nat
    BY ConnectionAssumption
  <2> QED BY <2>1, <2>2, ConnectionAssumption DEF Init, TypeOK, Frame
<1>2. LinesSound
  <2> SUFFICES ASSUME NEW c \in Clients PROVE LineSound(c)
    BY DEF LinesSound
  <2>1. /\ buffer[c] = <<>> /\ writer[c] = "off" /\ ~Waiting(c) /\ asks[c] = 0 /\ owed[c] = {}
        /\ Len(buffer[c]) = 0
    BY DEF Init, Waiting, Goroutines
  <2> QED BY <2>1 DEF LineSound, InLine
<1>3. WritersStart
  BY DEF Init, WritersStart
<1> QED BY <1>1, <1>2, <1>3 DEF IInv

-----------------------------------------------------------------------------
(* Steps *)

\* Lines stay sound where nothing is said of them, or the connection breaks.
LEMMA QuietLines ==
  ASSUME LinesSound,
         \A c \in Clients : conn'[c] = "up" => conn[c] = "up" /\ (LineSound(c) => LineSound(c)')
  PROVE  LinesSound'
BY DEF LinesSound

\* A step changes the program counter of one goroutine, and no line.
LEMMA MoveIInv ==
  ASSUME IInv, NEW g \in Goroutines, NEW p \in Phase, pc' = [pc EXCEPT ![g] = p],
         pending' \in Clients \cup {None}, pending' # None => pc'[pending'] \in WantLock,
         todo' \in [Goroutines -> SUBSET Clients], clients' \in SUBSET Clients,
         casts' \in 0 .. MaxCasts, writer' \in [Clients -> {"off", "waiting", "writing", "ended"}],
         \A c \in Clients : writer'[c] = "writing" <=> writer[c] = "writing",
         \A c \in Clients : pc'[c] = "entering" => writer'[c] = "off",
         g \in Clients => (Waiting(g) <=> p \in {"asking", "answering"}),
         UNCHANGED <<asks, buffer, frame, conn, owed>>
  PROVE  IInv'
<1>1. TypeOK'
  BY DEF IInv, TypeOK, Frame
<1>2. \A c \in Clients : Waiting(c)' <=> Waiting(c)
  BY DEF IInv, TypeOK, Waiting, Goroutines
<1>3. \A c \in Clients : LineSound(c)' <=> LineSound(c)
  BY <1>2 DEF LineSound, InLine
<1>4. LinesSound'
  BY <1>3, QuietLines DEF IInv
<1> QED BY <1>1, <1>4 DEF IInv, WritersStart

\* A step that leaves the goroutine where it is, or asks for the lock.
LEMMA StayIInv ==
  ASSUME IInv, UNCHANGED <<pc, clients, writer, asks, buffer, frame, conn, owed>>,
         pending' \in Clients \cup {None}, pending' # None => pc[pending'] \in WantLock,
         todo' \in [Goroutines -> SUBSET Clients], casts' \in 0 .. MaxCasts
  PROVE  IInv'
<1>1. TypeOK'
  BY DEF IInv, TypeOK, Frame
<1>2. LinesSound'
  BY DEF IInv, LinesSound, LineSound, InLine, Waiting
<1> QED BY <1>1, <1>2 DEF IInv, WritersStart

\* Who holds the write lock has asked for it, and nobody else has.
LEMMA LockedFacts ==
  ASSUME IInv, NEW c \in Clients, Locked(c)
  PROVE  pending = c /\ pending' = None /\ None \notin Clients /\ pc[c] \in WantLock
BY ConnectionAssumption DEF IInv, TypeOK, Locked

\* Whoever is not at the write lock has not asked for it.
LEMMA OthersPending ==
  ASSUME IInv, NEW g \in Goroutines, NEW p \in Phase, pc[g] \notin WantLock,
         pc' = [pc EXCEPT ![g] = p], pending' = pending
  PROVE  /\ pending' \in Clients \cup {None}
         /\ pending' # None => pc'[pending'] \in WantLock
BY DEF IInv, TypeOK, Goroutines

LEMMA PhaseFacts ==
  /\ \A p \in WantLock : p \in Phase
  /\ \A p \in {"asking", "locking", "broadcasting", "reading", "answering", "closing", "done"} :
       p \in Phase /\ p \notin WantLock
BY DEF Phase, AtLock, WantLock, WantRLock

LEMMA AskLockIInv ==
  ASSUME IInv, NEW c \in Clients, AskLock(c)
  PROVE  IInv'
<1>1. pending' \in Clients \cup {None} /\ (pending' # None => pc[pending'] \in WantLock)
  BY DEF AskLock
<1> QED BY <1>1, StayIInv DEF AskLock, pump, IInv, TypeOK

\* Steps that read, tell or look.
LEMMA BroadcastIInv ==
  ASSUME IInv, NEW g \in Goroutines, Broadcast(g)
  PROVE  IInv'
<1>1. pc[g] = "locking" /\ pc' = [pc EXCEPT ![g] = "broadcasting"]
  BY DEF Broadcast, Goto
<1>2. todo' \in [Goroutines -> SUBSET Clients]
  BY DEF Broadcast, IInv, TypeOK
<1>3. /\ pending' \in Clients \cup {None}
      /\ pending' # None => pc'[pending'] \in WantLock
  BY <1>1, OthersPending, PhaseFacts DEF Broadcast
<1>4. \A c \in Clients : pc'[c] = "entering" => writer'[c] = "off"
  BY <1>1 DEF Broadcast, pump, IInv, WritersStart, TypeOK, Goroutines
<1> QED
  BY <1>1, <1>2, <1>3, <1>4, PhaseFacts, MoveIInv DEF Broadcast, pump, IInv, TypeOK, Waiting

LEMMA FinishBroadcastIInv ==
  ASSUME IInv, NEW g \in Goroutines, FinishBroadcast(g)
  PROVE  IInv'
<1>1. PICK p \in {"closing", "reading"} : pc' = [pc EXCEPT ![g] = p]
  BY DEF FinishBroadcast, Goto
<1>2. pc[g] = "broadcasting"
  BY DEF FinishBroadcast
<1>3. /\ pending' \in Clients \cup {None}
      /\ pending' # None => pc'[pending'] \in WantLock
  BY <1>1, <1>2, OthersPending, PhaseFacts DEF FinishBroadcast
<1>4. \A c \in Clients : pc'[c] = "entering" => writer'[c] = "off"
  BY <1>1 DEF FinishBroadcast, pump, IInv, WritersStart, TypeOK, Goroutines
<1> QED
  BY <1>1, <1>2, <1>3, <1>4, PhaseFacts, MoveIInv
     DEF FinishBroadcast, pump, IInv, TypeOK, Waiting

LEMMA CastIInv ==
  ASSUME IInv, NEW g \in Others, Cast(g)
  PROVE  IInv'
<1>1. /\ pc[g] = "reading" /\ pc' = [pc EXCEPT ![g] = "locking"]
      /\ g \in Goroutines /\ g \notin Clients
  BY ConnectionAssumption DEF Cast, Goto, Goroutines
<1>2. casts' \in 0 .. MaxCasts
  BY ConnectionAssumption DEF Cast, IInv, TypeOK
<1>3. /\ pending' \in Clients \cup {None}
      /\ pending' # None => pc'[pending'] \in WantLock
  BY <1>1, OthersPending, PhaseFacts DEF Cast
<1>4. \A c \in Clients : pc'[c] = "entering" => writer'[c] = "off"
  BY <1>1 DEF Cast, pump, IInv, WritersStart, TypeOK, Goroutines
<1> QED
  BY <1>1, <1>2, <1>3, <1>4, PhaseFacts, MoveIInv DEF Cast, pump, IInv, TypeOK

LEMMA TellIInv ==
  ASSUME IInv, NEW c \in Clients, Tell(c)
  PROVE  IInv'
<1>1. PICK p \in {"locking", "registering"} : pc' = [pc EXCEPT ![c] = p]
  BY DEF Tell, Goto
<1>2. pc[c] = "reading" /\ c \in Goroutines /\ p \in Phase /\ "reading" \notin WantLock
  BY <1>1, PhaseFacts DEF Tell, Goroutines, WantLock
<1>3. casts' \in 0 .. MaxCasts
  BY ConnectionAssumption DEF Tell, IInv, TypeOK
<1>4. /\ pending' \in Clients \cup {None}
      /\ pending' # None => pc'[pending'] \in WantLock
  BY <1>1, <1>2, OthersPending DEF Tell
<1>5. \A d \in Clients : pc'[d] = "entering" => writer'[d] = "off"
  BY <1>1 DEF Tell, pump, IInv, WritersStart, TypeOK, Goroutines
<1> QED
  BY <1>1, <1>2, <1>3, <1>4, <1>5, MoveIInv DEF Tell, pump, IInv, TypeOK, Waiting

LEMMA LookIInv ==
  ASSUME IInv, NEW c \in Clients, Look(c)
  PROVE  IInv'
<1>1. pc[c] = "asking" /\ c \in Goroutines /\ pc' = [pc EXCEPT ![c] = "answering"]
  BY DEF Look, Goto, Goroutines
<1>2. /\ pending' \in Clients \cup {None}
      /\ pending' # None => pc'[pending'] \in WantLock
  BY <1>1, OthersPending, PhaseFacts DEF Look
<1>3. \A d \in Clients : pc'[d] = "entering" => writer'[d] = "off"
  BY <1>1 DEF Look, pump, IInv, WritersStart, TypeOK, Goroutines
<1> QED
  BY <1>1, <1>2, <1>3, PhaseFacts, MoveIInv DEF Look, pump, IInv, TypeOK, Waiting

LEMMA ReadFailsIInv ==
  ASSUME IInv, NEW c \in Clients, ReadFails(c)
  PROVE  IInv'
<1>1. pc[c] = "reading" /\ c \in Goroutines /\ pc' = [pc EXCEPT ![c] = "leaving"]
  BY DEF ReadFails, BreakLoop, Goto, Goroutines
<1>2. "leaving" \in Phase
  BY PhaseFacts DEF WantLock
<1>3. /\ pending' \in Clients \cup {None}
      /\ pending' # None => pc'[pending'] \in WantLock
  BY <1>1, <1>2, OthersPending, PhaseFacts DEF ReadFails
<1>4. \A d \in Clients : pc'[d] = "entering" => writer'[d] = "off"
  BY <1>1 DEF ReadFails, pump, IInv, WritersStart, TypeOK, Goroutines
<1> QED
  BY <1>1, <1>2, <1>3, <1>4, MoveIInv DEF ReadFails, pump, IInv, TypeOK, Waiting

\* What is done under the write lock.
LEMMA EnterIInv ==
  ASSUME IInv, NEW c \in Clients, Enter(c)
  PROVE  IInv'
<1>1. /\ pc[c] = "entering" /\ c \in Goroutines /\ pc' = [pc EXCEPT ![c] = "reading"]
      /\ pending' = None /\ clients' \in SUBSET Clients
  BY LockedFacts DEF Enter, Goto, Goroutines, IInv, TypeOK
<1>2. writer[c] = "off" /\ writer' = [writer EXCEPT ![c] = "waiting"]
  BY <1>1 DEF Enter, IInv, WritersStart
<1>3. /\ writer' \in [Clients -> {"off", "waiting", "writing", "ended"}]
      /\ \A d \in Clients : writer'[d] = "writing" <=> writer[d] = "writing"
  BY <1>2 DEF IInv, TypeOK
<1>4. \A d \in Clients : pc'[d] = "entering" => writer'[d] = "off"
  BY <1>1, <1>2 DEF IInv, WritersStart, TypeOK, Goroutines
<1> QED
  BY <1>1, <1>3, <1>4, PhaseFacts, MoveIInv DEF Enter, IInv, TypeOK, Waiting

LEMMA LeaveIInv ==
  ASSUME IInv, NEW c \in Clients, Leave(c)
  PROVE  IInv'
<1>1. PICK p \in {"locking", "closing"} : pc' = [pc EXCEPT ![c] = p]
  BY DEF Leave, Goto
<1>2. pc[c] = "leaving" /\ c \in Goroutines /\ pending' = None /\ clients' \in SUBSET Clients
  BY LockedFacts DEF Leave, Goroutines, IInv, TypeOK
<1>3. \A d \in Clients : pc'[d] = "entering" => writer'[d] = "off"
  BY <1>1, <1>2 DEF Leave, pump, IInv, WritersStart, TypeOK, Goroutines
<1> QED
  BY <1>1, <1>2, <1>3, PhaseFacts, MoveIInv DEF Leave, pump, IInv, TypeOK, Waiting

-----------------------------------------------------------------------------
(* Steps of the connection *)

\* A connection that has broken leaves no line to keep.
LEMMA BrokenIInv ==
  ASSUME IInv, NEW c \in Clients, NEW state \in {"dead", "closed"},
         conn' = [conn EXCEPT ![c] = state], owed' = [owed EXCEPT ![c] = {}],
         NEW p \in Phase, pc' = [pc EXCEPT ![c] = p], p \notin {"entering"} \/ p = pc[c],
         pending' = pending, pending # None => pc'[pending] \in WantLock,
         writer' \in [Clients -> {"off", "waiting", "writing", "ended"}],
         writer[c] = "off" => writer'[c] = "off",
         \A d \in Clients \ {c} : writer'[d] = writer[d],
         frame' \in [Clients -> Nat], frame'[c] \in Frame(c),
         \A d \in Clients \ {c} : frame'[d] = frame[d],
         UNCHANGED <<todo, clients, asks, buffer, casts>>
  PROVE  IInv'
<1>1. TypeOK'
  BY ConnectionAssumption DEF IInv, TypeOK, Frame, Goroutines
<1>2. LinesSound'
  <2> SUFFICES ASSUME NEW d \in Clients, conn'[d] = "up" PROVE LineSound(d)'
    BY DEF LinesSound
  <2>1. d # c /\ conn[d] = "up"
    BY DEF IInv, TypeOK
  <2>2. /\ pc'[d] = pc[d] /\ owed'[d] = owed[d] /\ writer'[d] = writer[d]
        /\ frame'[d] = frame[d] /\ buffer'[d] = buffer[d] /\ asks'[d] = asks[d]
    BY <2>1 DEF IInv, TypeOK, Goroutines
  <2>3. LineSound(d)
    BY <2>1 DEF IInv, LinesSound
  <2> QED BY <2>2, <2>3 DEF LineSound, InLine, Waiting
<1>3. WritersStart'
  BY DEF IInv, WritersStart, TypeOK, Goroutines
<1> QED BY <1>1, <1>2, <1>3 DEF IInv

LEMMA CloseIInv ==
  ASSUME IInv, NEW c \in Clients, Close(c)
  PROVE  IInv'
<1>1. pc[c] = "closing" /\ c \in Goroutines /\ pc' = [pc EXCEPT ![c] = "done"]
  BY DEF Close, Goto, Goroutines
<1>2. pending' # None => pc'[pending'] \in WantLock
  BY <1>1, OthersPending, PhaseFacts DEF Close
<1> QED
  BY <1>1, <1>2, PhaseFacts, BrokenIInv DEF Close, CloseConn, IInv, TypeOK

LEMMA WriteFailsIInv ==
  ASSUME IInv, NEW c \in Clients, WriteFails(c)
  PROVE  IInv'
<1>1. pc' = [pc EXCEPT ![c] = pc[c]] /\ pc[c] \in Phase
  BY DEF WriteFails, hub, IInv, TypeOK, Goroutines
<1>2. /\ writer' \in [Clients -> {"off", "waiting", "writing", "ended"}]
      /\ writer[c] # "off"
      /\ \A d \in Clients \ {c} : writer'[d] = writer[d]
  BY DEF WriteFails, IInv, TypeOK
<1>3. /\ frame' \in [Clients -> Nat] /\ frame'[c] = 0
      /\ \A d \in Clients \ {c} : frame'[d] = frame[d]
  BY DEF WriteFails, IInv, TypeOK
<1>4. 0 \in Frame(c)
  BY ConnectionAssumption DEF Frame
<1>5. pending # None => pc'[pending] \in WantLock
  BY DEF WriteFails, hub, IInv, TypeOK
<1> QED
  BY <1>1, <1>2, <1>3, <1>4, <1>5, BrokenIInv DEF WriteFails, CloseConn, hub

LEMMA PeerGoneIInv ==
  ASSUME IInv, NEW c \in Clients, PeerGone(c)
  PROVE  IInv'
<1>1. pc' = [pc EXCEPT ![c] = pc[c]] /\ pc[c] \in Phase
  BY DEF PeerGone, hub, IInv, TypeOK, Goroutines
<1>2. pending # None => pc'[pending] \in WantLock
  BY DEF PeerGone, hub, IInv, TypeOK
<1> QED
  BY <1>1, <1>2, BrokenIInv DEF PeerGone, hub, IInv, TypeOK

-----------------------------------------------------------------------------
(* Steps of a line *)

\* One line moves on, and the others stay.
LEMMA LineIInv ==
  ASSUME IInv, TypeOK', WritersStart', NEW c \in Clients, UNCHANGED conn,
         \A d \in Clients \ {c} :
           /\ buffer'[d] = buffer[d] /\ frame'[d] = frame[d] /\ asks'[d] = asks[d]
           /\ owed'[d] = owed[d] /\ writer'[d] = writer[d] /\ pc'[d] = pc[d],
         conn[c] = "up" /\ LineSound(c) => LineSound(c)'
  PROVE  IInv'
<1>1. \A d \in Clients \ {c} : LineSound(d) => LineSound(d)'
  BY DEF LineSound, InLine, Waiting
<1>2. LinesSound'
  BY <1>1 DEF IInv, LinesSound
<1> QED BY <1>2 DEF IInv

\* What the lemmas on lines ask for.
LEMMA LineFacts ==
  ASSUME TypeOK, NEW c \in Clients
  PROVE  /\ buffer[c] \in Seq(Nat) /\ frame[c] \in Nat /\ asks[c] \in Nat
         /\ (writer[c] = "writing") \in BOOLEAN /\ Waiting(c) \in BOOLEAN
         /\ MaxAsks[c] \in Nat /\ c \in Goroutines
BY ConnectionAssumption DEF TypeOK, Waiting, Goroutines

\* A broadcast is put into a buffer, or dropped, and a goroutine moves on.
LEMMA OfferIInv ==
  ASSUME IInv, NEW d \in Clients, Offer(d) \/ UNCHANGED buffer,
         NEW g \in Goroutines, NEW p \in Phase, pc' = [pc EXCEPT ![g] = p],
         pending' \in Clients \cup {None}, pending' # None => pc'[pending'] \in WantLock,
         todo' \in [Goroutines -> SUBSET Clients],
         p = pc[g] \/ (p \notin {"entering", "asking", "answering"} /\ (g \in Clients => ~Waiting(g))),
         UNCHANGED <<clients, writer, asks, frame, conn, owed, casts>>
  PROVE  IInv'
<1>1. \A c \in Clients : Waiting(c)' = Waiting(c)
  BY DEF IInv, TypeOK, Waiting, Goroutines
<1>2. WritersStart'
  BY DEF IInv, TypeOK, WritersStart, Goroutines
<1>3. CASE buffer' = buffer
  <2>1. TypeOK'
    BY <1>3 DEF IInv, TypeOK, Frame
  <2>2. LinesSound'
    BY <1>1, <1>3 DEF IInv, LinesSound, LineSound
  <2> QED BY <2>1, <2>2, <1>2 DEF IInv
<1>4. CASE buffer' # buffer
  <2>1. ~Full(d) /\ buffer' = [buffer EXCEPT ![d] = Append(buffer[d], 0)]
    BY <1>4 DEF Offer
  <2>2. buffer[d] \in Seq(Frame(d)) /\ 0 \in Frame(d) /\ buffer[d] \in Seq(Nat)
    BY LineFacts DEF IInv, TypeOK, Frame
  <2>3. /\ Append(buffer[d], 0) \in Seq(Frame(d)) /\ Append(buffer[d], 0) \in Seq(Nat)
        /\ Len(Append(buffer[d], 0)) <= SendBuffer
    BY <2>1, <2>2, AppendFacts, ConnectionAssumption DEF Full
  <2>4. /\ buffer'[d] = Append(buffer[d], 0)
        /\ \A c \in Clients \ {d} : buffer'[c] = buffer[c]
        /\ buffer' \in [Clients -> Seq(Nat)]
    BY <2>1, <2>3 DEF IInv, TypeOK
  <2>5. TypeOK'
    BY <2>3, <2>4 DEF IInv, TypeOK, Frame
  <2>6. LineSound(d) => LineSound(d)'
    <3>1. Waiting(d)' = Waiting(d) /\ writer'[d] = writer[d]
      BY <1>1
    <3>2. PICK w \in BOOLEAN, a \in BOOLEAN : w = (writer[d] = "writing") /\ a = Waiting(d)
      BY LineFacts DEF IInv
    <3>3. LineSound(d) => InLine(buffer[d], w, frame[d], a, asks[d], owed[d])
      BY <3>2 DEF LineSound
    <3>4. LineSound(d) => InLine(Append(buffer[d], 0), w, frame[d], a, asks[d], owed[d])
      <4>1. buffer[d] \in Seq(Nat) /\ frame[d] \in Nat /\ asks[d] \in Nat
        BY LineFacts DEF IInv
      <4>2. SUFFICES ASSUME InLine(buffer[d], w, frame[d], a, asks[d], owed[d])
                     PROVE  InLine(Append(buffer[d], 0), w, frame[d], a, asks[d], owed[d])
        BY <3>3
      <4> QED BY <4>1, <4>2, OfferedInLine
    <3> QED BY <3>1, <3>2, <3>4, <2>4 DEF LineSound
  <2>7. \A c \in Clients \ {d} : LineSound(c) => LineSound(c)'
    BY <1>1, <2>4 DEF LineSound
  <2>8. LinesSound'
    BY <2>6, <2>7 DEF IInv, LinesSound
  <2> QED BY <2>5, <2>8, <1>2 DEF IInv
<1> QED BY <1>3, <1>4

LEMMA OfferNextIInv ==
  ASSUME IInv, NEW g \in Goroutines, OfferNext(g)
  PROVE  IInv'
<1>1. PICK d \in Clients : Offer(d) /\ todo' = [todo EXCEPT ![g] = @ \ {d}]
  BY DEF OfferNext, IInv, TypeOK
<1>2. todo' \in [Goroutines -> SUBSET Clients]
  BY <1>1 DEF IInv, TypeOK
<1>3. pc' = [pc EXCEPT ![g] = pc[g]] /\ pc[g] \in Phase
  BY DEF OfferNext, IInv, TypeOK
<1>4. pending' \in Clients \cup {None} /\ (pending' # None => pc'[pending'] \in WantLock)
  BY DEF OfferNext, IInv, TypeOK
<1> QED
  BY <1>1, <1>2, <1>3, <1>4, OfferIInv DEF OfferNext, pump

LEMMA RegisterIInv ==
  ASSUME IInv, NEW c \in Clients, Register(c)
  PROVE  IInv'
<1>1. PICK p \in {"locking", "reading"} : pc' = [pc EXCEPT ![c] = p]
  BY DEF Register, Goto
<1>2. pc[c] = "registering" /\ c \in Goroutines /\ pending' = None
  BY LockedFacts DEF Register, Goroutines
<1>3. Offer(c) \/ UNCHANGED buffer
  BY DEF Register
<1>4. todo' \in [Goroutines -> SUBSET Clients]
  BY DEF Register, IInv, TypeOK
<1> QED
  BY <1>1, <1>2, <1>3, <1>4, PhaseFacts, OfferIInv DEF Register, pump, Waiting

LEMMA AnswerIInv ==
  ASSUME IInv, NEW c \in Clients, Answer(c)
  PROVE  IInv'
<1>1. pc[c] = "answering" /\ c \in Goroutines /\ pc' = [pc EXCEPT ![c] = "reading"]
  BY DEF Answer, Goto, Goroutines
<1>2. ~Full(c) /\ buffer' = [buffer EXCEPT ![c] = Append(buffer[c], asks[c])]
  BY DEF Answer, SendAnswer
<1>3. /\ pending' \in Clients \cup {None}
      /\ pending' # None => pc'[pending'] \in WantLock
  BY <1>1, OthersPending, PhaseFacts DEF Answer
<1>4. /\ Append(buffer[c], asks[c]) \in Seq(Frame(c)) /\ Append(buffer[c], asks[c]) \in Seq(Nat)
      /\ Len(Append(buffer[c], asks[c])) <= SendBuffer
  <2>1. buffer[c] \in Seq(Frame(c)) /\ asks[c] \in Frame(c)
    BY DEF IInv, TypeOK
  <2>2. buffer[c] \in Seq(Nat) /\ asks[c] \in Nat
    BY LineFacts DEF IInv
  <2> QED BY <2>1, <2>2, <1>2, AppendFacts, ConnectionAssumption DEF Full
<1>5. /\ buffer'[c] = Append(buffer[c], asks[c])
      /\ \A d \in Clients \ {c} : buffer'[d] = buffer[d]
      /\ buffer' \in [Clients -> Seq(Nat)]
  BY <1>2, <1>4 DEF IInv, TypeOK
<1>6. pc' \in [Goroutines -> Phase] /\ pc'[c] = "reading" /\ \A d \in Clients \ {c} : pc'[d] = pc[d]
  BY <1>1, PhaseFacts DEF IInv, TypeOK, Goroutines
<1>7. TypeOK'
  BY <1>3, <1>4, <1>5, <1>6 DEF Answer, pump, IInv, TypeOK, Frame
<1>8. WritersStart'
  BY <1>6 DEF Answer, pump, IInv, WritersStart
<1>9. LineSound(c) => LineSound(c)'
  <2>1. Waiting(c) = TRUE /\ Waiting(c)' = FALSE
    BY <1>1, <1>6 DEF Waiting
  <2>2. LineSound(c) =>
          InLine(buffer[c], writer[c] = "writing", frame[c], TRUE, asks[c], owed[c])
    BY <2>1 DEF LineSound
  <2>3. LineSound(c) =>
          InLine(Append(buffer[c], asks[c]), writer[c] = "writing", frame[c], FALSE, asks[c], owed[c])
    BY <2>2, LineFacts, AnsweredInLine, Zenon DEF IInv
  <2> QED BY <2>1, <2>3, <1>5 DEF Answer, pump, LineSound
<1> QED BY <1>5, <1>6, <1>7, <1>8, <1>9, LineIInv DEF Answer, pump

LEMMA TakeIInv ==
  ASSUME IInv, NEW c \in Clients, Take(c)
  PROVE  IInv'
<1>1. /\ writer[c] = "waiting" /\ buffer[c] # <<>>
      /\ frame' = [frame EXCEPT ![c] = Head(buffer[c])]
      /\ buffer' = [buffer EXCEPT ![c] = Tail(buffer[c])]
      /\ writer' = [writer EXCEPT ![c] = "writing"]
  BY DEF Take
<1>2. /\ Tail(buffer[c]) \in Seq(Frame(c)) /\ Tail(buffer[c]) \in Seq(Nat)
      /\ Head(buffer[c]) \in Frame(c) /\ Head(buffer[c]) \in Nat
      /\ Len(Tail(buffer[c])) <= SendBuffer
  <2>1. buffer[c] \in Seq(Frame(c)) /\ Len(buffer[c]) <= SendBuffer
    BY DEF IInv, TypeOK
  <2>2. buffer[c] \in Seq(Nat)
    BY LineFacts DEF IInv
  <2> QED BY <2>1, <2>2, <1>1, TakeFacts, ConnectionAssumption
<1>3. /\ buffer'[c] = Tail(buffer[c]) /\ frame'[c] = Head(buffer[c]) /\ writer'[c] = "writing"
      /\ \A d \in Clients \ {c} :
           buffer'[d] = buffer[d] /\ frame'[d] = frame[d] /\ writer'[d] = writer[d]
      /\ buffer' \in [Clients -> Seq(Nat)] /\ frame' \in [Clients -> Nat]
      /\ writer' \in [Clients -> {"off", "waiting", "writing", "ended"}]
  BY <1>1, <1>2 DEF IInv, TypeOK
<1>4. TypeOK'
  BY <1>2, <1>3 DEF Take, hub, IInv, TypeOK, Frame
<1>5. WritersStart'
  BY <1>1, <1>3 DEF Take, hub, IInv, WritersStart
<1>6. LineSound(c) => LineSound(c)'
  <2>1. (writer[c] = "writing") = FALSE /\ (writer'[c] = "writing") = TRUE
    BY <1>1, <1>3
  <2>2. Waiting(c)' = Waiting(c)
    BY DEF Take, hub, Waiting
  <2>3. LineSound(c) => InLine(buffer[c], FALSE, frame[c], Waiting(c), asks[c], owed[c])
    BY <2>1 DEF LineSound
  <2>4. LineSound(c) =>
          InLine(Tail(buffer[c]), TRUE, Head(buffer[c]), Waiting(c), asks[c], owed[c])
    BY <2>3, <1>1, LineFacts, TakenInLine, Zenon DEF IInv
  <2> QED BY <2>1, <2>2, <2>4, <1>3 DEF Take, hub, LineSound
<1> QED BY <1>3, <1>4, <1>5, <1>6, LineIInv DEF Take, hub

LEMMA WriteIInv ==
  ASSUME IInv, NEW c \in Clients, Write(c)
  PROVE  IInv'
<1>1. /\ writer[c] = "writing" /\ writer' = [writer EXCEPT ![c] = "waiting"]
      /\ frame' = [frame EXCEPT ![c] = 0]
      /\ owed' = [owed EXCEPT ![c] = owed[c] \ {frame[c]}]
  BY DEF Write
<1>2. /\ writer'[c] = "waiting" /\ frame'[c] = 0 /\ owed'[c] = owed[c] \ {frame[c]}
      /\ \A d \in Clients \ {c} :
           writer'[d] = writer[d] /\ frame'[d] = frame[d] /\ owed'[d] = owed[d]
      /\ writer' \in [Clients -> {"off", "waiting", "writing", "ended"}]
      /\ frame' \in [Clients -> Nat] /\ owed' \in [Clients -> SUBSET Nat]
  BY <1>1 DEF IInv, TypeOK
<1>3. 0 \in Frame(c)
  BY ConnectionAssumption DEF Frame
<1>4. TypeOK'
  BY <1>2, <1>3 DEF Write, hub, IInv, TypeOK, Frame
<1>5. WritersStart'
  BY <1>1, <1>2 DEF Write, hub, IInv, WritersStart
<1>6. LineSound(c) => LineSound(c)'
  <2>1. (writer[c] = "writing") = TRUE /\ (writer'[c] = "writing") = FALSE
    BY <1>1, <1>2
  <2>2. Waiting(c)' = Waiting(c)
    BY DEF Write, hub, Waiting
  <2>3. LineSound(c) => InLine(buffer[c], TRUE, frame[c], Waiting(c), asks[c], owed[c])
    BY <2>1 DEF LineSound
  <2>4. LineSound(c) =>
          InLine(buffer[c], FALSE, 0, Waiting(c), asks[c], owed[c] \ {frame[c]})
    BY <2>3, LineFacts, WrittenInLine, Zenon DEF IInv
  <2> QED BY <2>1, <2>2, <2>4, <1>2 DEF Write, hub, LineSound
<1> QED BY <1>2, <1>4, <1>5, <1>6, LineIInv DEF Write, hub

LEMMA AskIInv ==
  ASSUME IInv, NEW c \in Clients, Ask(c)
  PROVE  IInv'
<1>1. PICK p \in {"asking", "answering"} : pc' = [pc EXCEPT ![c] = p]
  BY DEF Ask, Goto
<1>2. /\ pc[c] = "reading" /\ asks[c] < MaxAsks[c] /\ c \in Goroutines
      /\ asks' = [asks EXCEPT ![c] = asks[c] + 1]
      /\ owed' = [owed EXCEPT ![c] = owed[c] \cup {asks[c] + 1}]
  BY DEF Ask, Goroutines
<1>3. /\ pending' \in Clients \cup {None}
      /\ pending' # None => pc'[pending'] \in WantLock
  BY <1>1, <1>2, OthersPending, PhaseFacts DEF Ask
<1>4. /\ asks'[c] = asks[c] + 1 /\ owed'[c] = owed[c] \cup {asks[c] + 1} /\ pc'[c] = p
      /\ \A d \in Clients \ {c} : asks'[d] = asks[d] /\ owed'[d] = owed[d] /\ pc'[d] = pc[d]
      /\ asks' \in [Clients -> Nat] /\ owed' \in [Clients -> SUBSET Nat]
      /\ pc' \in [Goroutines -> Phase]
  BY <1>1, <1>2, PhaseFacts, LineFacts DEF IInv, TypeOK, Goroutines
<1>5. asks[c] + 1 \in Frame(c) \ {0}
  BY <1>2, LineFacts DEF IInv, Frame
<1>6. TypeOK'
  BY <1>3, <1>4, <1>5 DEF Ask, pump, IInv, TypeOK, Frame
<1>7. WritersStart'
  BY <1>4 DEF Ask, pump, IInv, WritersStart
<1>8. LineSound(c) => LineSound(c)'
  <2>1. Waiting(c) = FALSE /\ Waiting(c)' = TRUE
    BY <1>1, <1>2, <1>4 DEF Waiting
  <2> QED BY <2>1, <1>4, LineFacts, AskedInLine DEF Ask, pump, IInv, LineSound
<1> QED BY <1>4, <1>6, <1>7, <1>8, LineIInv DEF Ask, pump

-----------------------------------------------------------------------------
(* Theorems *)

LEMMA NextIInv == IInv /\ [Next]_vars => IInv'
<1> SUFFICES ASSUME IInv, [Next]_vars PROVE IInv'
  OBVIOUS
<1>1. ASSUME NEW g \in Goroutines, RunBroadcast(g) PROVE IInv'
  BY <1>1, BroadcastIInv, OfferNextIInv, FinishBroadcastIInv DEF RunBroadcast
<1>2. ASSUME NEW c \in Clients, RunReader(c) PROVE IInv'
  BY <1>1, <1>2, AskLockIInv, EnterIInv, RegisterIInv, LookIInv, AnswerIInv, LeaveIInv, CloseIInv
     DEF RunReader, Goroutines
<1>3. ASSUME NEW c \in Clients, RunWriter(c) PROVE IInv'
  BY <1>3, TakeIInv, WriteIInv, WriteFailsIInv DEF RunWriter
<1>4. ASSUME UNCHANGED vars PROVE IInv'
  BY <1>4, StayIInv DEF vars, hub, pump, IInv, TypeOK
<1> QED
  BY <1>1, <1>2, <1>3, <1>4, CastIInv, AskIInv, TellIInv, ReadFailsIInv, WriteFailsIInv,
     PeerGoneIInv DEF Next, Rest, Goroutines

\* The inductive invariant holds in every reachable state of the pumps and the lock.
THEOREM Invariance == Spec => []IInv
BY InitIInv, NextIInv, PTL DEF Spec

\* The goroutines, the lock and the buffers have their types, and no buffer ever holds more
\* than its capacity, for any number of connections and broadcasts.
THEOREM TypeCorrect == Spec => []TypeOK
BY Invariance, PTL DEF IInv

\* As long as a connection is up, a full buffer never costs its client an answer, and none
\* overtakes another: the reader waits for space, and the writer takes the oldest frame.
THEOREM AnswersKeepTheirOrder == Spec => []AnswersInOrder
<1>1. IInv => AnswersInOrder
  BY InLineIsInFlight DEF IInv, LinesSound, AnswersInOrder
<1> QED BY <1>1, Invariance, PTL

-----------------------------------------------------------------------------
(* The clients in the hub *)

\* What a readPump is at before it has entered its client into the hub and after unregister,
\* and what only in between.
Outside == {"entering", "closing", "done"}
Inside == {"reading", "registering", "asking", "answering", "leaving"}

\* Hub.clients holds the clients whose readPump is at work, and those only: the goroutine
\* that is to unregister a client has not ended while the client is there.  Broadcasts go to
\* no other clients, also those that began before somebody left.  A connection whose reader
\* or writer has ended is closed.
ClientsAreServed ==
  /\ \A c \in Clients : pc[c] \in Outside => c \notin clients
  /\ \A c \in Clients : pc[c] \in Inside => c \in clients
  /\ \A g \in Goroutines : todo[g] \subseteq clients
  /\ \A c \in Clients : pc[c] = "done" \/ writer[c] = "ended" => conn[c] = "closed"

\* A broadcast that is over has nobody left to send to.
NoneLeft == \A g \in Goroutines : pc[g] # "broadcasting" => todo[g] = {}

Served == ClientsAreServed /\ NoneLeft

\* A goroutine moves on and leaves the hub as it is.
LEMMA MoveServed ==
  ASSUME TypeOK, Served, NEW g \in Goroutines, NEW p, pc' = [pc EXCEPT ![g] = p],
         UNCHANGED <<todo, clients>>,
         todo[g] = {},
         g \in Clients /\ p \in Outside => g \notin clients,
         g \in Clients /\ p \in Inside => g \in clients,
         \A c \in Clients : conn[c] = "closed" => conn'[c] = "closed",
         \A c \in Clients : writer'[c] = "ended" => writer[c] = "ended" \/ conn'[c] = "closed",
         g \in Clients /\ p = "done" => conn'[g] = "closed"
  PROVE  Served'
<1>1. /\ pc' \in [Goroutines -> Phase \cup {p}] /\ pc'[g] = p
      /\ \A h \in Goroutines \ {g} : pc'[h] = pc[h]
  BY DEF TypeOK
<1>2. Clients \subseteq Goroutines
  BY DEF Goroutines
<1> QED
  BY <1>1, <1>2 DEF Served, ClientsAreServed, NoneLeft

\* The connection or its writer changes, and no reader.
LEMMA StayServed ==
  ASSUME TypeOK, Served, UNCHANGED <<pc, todo, clients>>,
         \A c \in Clients : conn[c] = "closed" => conn'[c] = "closed",
         \A c \in Clients : writer'[c] = "ended" => writer[c] = "ended" \/ conn'[c] = "closed"
  PROVE  Served'
BY DEF Served, ClientsAreServed, NoneLeft

\* Under the write lock no broadcast is under way.
LEMMA LockedServed ==
  ASSUME Served, NEW c \in Clients, Locked(c)
  PROVE  \A g \in Goroutines : todo[g] = {}
BY DEF Locked, Served, NoneLeft

LEMMA EnterServed ==
  ASSUME IInv, Served, NEW c \in Clients, Enter(c)
  PROVE  Served'
<1>1. /\ pc[c] = "entering" /\ pc' = [pc EXCEPT ![c] = "reading"] /\ clients' = clients \cup {c}
      /\ writer' = [writer EXCEPT ![c] = "waiting"] /\ UNCHANGED <<todo, conn>>
  BY DEF Enter, Goto
<1>2. /\ pc'[c] = "reading" /\ \A g \in Goroutines \ {c} : pc'[g] = pc[g]
      /\ writer'[c] = "waiting" /\ \A d \in Clients \ {c} : writer'[d] = writer[d]
  BY <1>1 DEF IInv, TypeOK, Goroutines
<1>3. \A g \in Goroutines : todo[g] = {}
  BY LockedServed DEF Enter
<1> QED
  BY <1>1, <1>2, <1>3 DEF Served, ClientsAreServed, NoneLeft, Outside, Inside, Goroutines

LEMMA LeaveServed ==
  ASSUME IInv, Served, NEW c \in Clients, Leave(c)
  PROVE  Served'
<1>1. PICK p \in {"locking", "closing"} : pc' = [pc EXCEPT ![c] = p]
  BY DEF Leave, Goto
<1>2. pc[c] = "leaving" /\ clients' = clients \ {c} /\ UNCHANGED <<todo, writer, conn>>
  BY DEF Leave, pump
<1>3. pc'[c] = p /\ \A g \in Goroutines \ {c} : pc'[g] = pc[g]
  BY <1>1 DEF IInv, TypeOK, Goroutines
<1>4. \A g \in Goroutines : todo[g] = {}
  BY LockedServed DEF Leave
<1> QED
  BY <1>2, <1>3, <1>4 DEF Served, ClientsAreServed, NoneLeft, Outside, Inside, Goroutines

LEMMA BroadcastServed ==
  ASSUME IInv, Served, NEW g \in Goroutines, RunBroadcast(g)
  PROVE  Served'
<1>1. CASE Broadcast(g)
  <2>1. /\ pc'[g] = "broadcasting" /\ \A h \in Goroutines \ {g} : pc'[h] = pc[h]
        /\ todo'[g] = clients \ {g} /\ \A h \in Goroutines \ {g} : todo'[h] = todo[h]
        /\ UNCHANGED <<clients, writer, conn>>
    BY <1>1 DEF Broadcast, Goto, pump, IInv, TypeOK
  <2> QED
    BY <2>1 DEF Served, ClientsAreServed, NoneLeft, Outside, Inside, Goroutines
<1>2. CASE OfferNext(g)
  <2>1. PICK d : todo' = [todo EXCEPT ![g] = @ \ {d}]
    BY <1>2 DEF OfferNext
  <2>2. /\ todo'[g] \subseteq todo[g] /\ \A h \in Goroutines \ {g} : todo'[h] = todo[h]
        /\ UNCHANGED <<pc, clients, writer, conn>> /\ pc[g] = "broadcasting"
    BY <1>2, <2>1 DEF OfferNext, pump, IInv, TypeOK
  <2> QED
    BY <2>2 DEF Served, ClientsAreServed, NoneLeft, Outside, Inside, Goroutines
<1>3. CASE FinishBroadcast(g)
  <2>1. PICK p \in {"closing", "reading"} :
          /\ pc' = [pc EXCEPT ![g] = p]
          /\ p = IF g \in Clients \ clients THEN "closing" ELSE "reading"
    BY <1>3 DEF FinishBroadcast, Goto
  <2>2. todo[g] = {} /\ UNCHANGED <<todo, clients, writer, conn>>
    BY <1>3 DEF FinishBroadcast, pump
  <2> QED
    BY <2>1, <2>2, MoveServed DEF IInv, Outside, Inside
<1> QED
  BY <1>1, <1>2, <1>3 DEF RunBroadcast

\* The steps of a reader between its events and in them.
LEMMA ReaderServed ==
  ASSUME IInv, Served, NEW c \in Clients,
         Ask(c) \/ Tell(c) \/ Look(c) \/ Register(c) \/ Answer(c) \/ ReadFails(c)
  PROVE  Served'
<1>1. PICK p \in {"asking", "answering", "locking", "registering", "reading", "leaving"} :
        pc' = [pc EXCEPT ![c] = p]
  BY DEF Ask, Tell, Look, Register, Answer, ReadFails, BreakLoop, Goto
<1>2. /\ pc[c] \in Inside /\ c \in Goroutines
      /\ UNCHANGED <<todo, clients, writer, conn>>
  BY DEF Ask, Tell, Look, Register, Answer, ReadFails, BreakLoop, pump, Inside, Goroutines
<1>3. todo[c] = {} /\ c \in clients
  BY <1>2 DEF Served, ClientsAreServed, NoneLeft, Inside
<1>4. p \notin Outside /\ p # "done"
  BY <1>1 DEF Outside
<1> QED
  BY <1>1, <1>2, <1>3, <1>4, MoveServed DEF IInv

LEMMA CloseServed ==
  ASSUME IInv, Served, NEW c \in Clients, Close(c)
  PROVE  Served'
<1>1. /\ pc[c] = "closing" /\ pc' = [pc EXCEPT ![c] = "done"] /\ c \in Goroutines
      /\ conn' = [conn EXCEPT ![c] = "closed"] /\ UNCHANGED <<todo, clients, writer>>
  BY DEF Close, CloseConn, Goto, Goroutines
<1>2. /\ todo[c] = {} /\ c \notin clients
  BY <1>1 DEF Served, ClientsAreServed, NoneLeft, Outside
<1>3. conn'[c] = "closed" /\ \A d \in Clients \ {c} : conn'[d] = conn[d]
  BY <1>1 DEF IInv, TypeOK
<1> QED
  BY <1>1, <1>2, <1>3, MoveServed DEF IInv, Inside

\* The steps of a writer and of the peer.
LEMMA WriterServed ==
  ASSUME IInv, Served, NEW c \in Clients, Take(c) \/ Write(c) \/ WriteFails(c) \/ PeerGone(c)
  PROVE  Served'
<1>1. UNCHANGED <<pc, todo, clients>>
  BY DEF Take, Write, WriteFails, PeerGone, hub
<1>2. \A d \in Clients : conn[d] = "closed" => conn'[d] = "closed"
  BY DEF Take, Write, WriteFails, CloseConn, PeerGone, IInv, TypeOK
<1>3. \A d \in Clients : writer'[d] = "ended" => writer[d] = "ended" \/ conn'[d] = "closed"
  BY DEF Take, Write, WriteFails, CloseConn, PeerGone, IInv, TypeOK
<1> QED
  BY <1>1, <1>2, <1>3, StayServed DEF IInv

LEMMA NextServed == IInv /\ Served /\ [Next]_vars => Served'
<1> SUFFICES ASSUME IInv, Served, [Next]_vars PROVE Served'
  OBVIOUS
<1>1. ASSUME NEW g \in Others, Cast(g) PROVE Served'
  <2>1. /\ g \in Goroutines /\ g \notin Clients /\ pc[g] = "reading"
        /\ pc' = [pc EXCEPT ![g] = "locking"] /\ UNCHANGED <<todo, clients, writer, conn>>
    BY <1>1, ConnectionAssumption DEF Cast, Goto, pump, Goroutines
  <2>2. todo[g] = {}
    BY <2>1 DEF Served, NoneLeft
  <2> QED
    BY <2>1, <2>2, MoveServed DEF IInv
<1>2. ASSUME UNCHANGED <<pc, todo, clients, writer, conn>> PROVE Served'
  BY <1>2, StayServed DEF IInv
<1>3. ASSUME NEW c \in Clients, AskLock(c) PROVE Served'
  BY <1>2, <1>3 DEF AskLock, pump
<1>4. ASSUME NEW c \in Clients, RunReader(c) PROVE Served'
  BY <1>3, <1>4, EnterServed, ReaderServed, LeaveServed, CloseServed, BroadcastServed
     DEF RunReader, Goroutines
<1>5. ASSUME UNCHANGED vars PROVE Served'
  BY <1>2, <1>5 DEF vars, hub, pump
<1> QED
  BY <1>1, <1>4, <1>5, ReaderServed, WriterServed, BroadcastServed
     DEF Next, Rest, RunWriter, Goroutines

\* A client is in the hub exactly as long as its readPump is between its entry and its
\* unregister: nobody is left there whose goroutine has ended, no broadcast goes to somebody
\* who has left, and who has ended has closed the connection, for any number of connections,
\* any buffer and any schedule.
THEOREM NobodyIsLeftInTheHub == Spec => []ClientsAreServed
<1>1. Init => Served
  BY ConnectionAssumption
     DEF Init, Served, ClientsAreServed, NoneLeft, Outside, Inside, Goroutines
<1>2. Served => ClientsAreServed
  BY DEF Served
<1> QED
  BY <1>1, <1>2, NextServed, Invariance, PTL DEF Spec

=============================================================================
