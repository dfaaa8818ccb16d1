---------------------------- MODULE UsbLinkProofs ----------------------------
(***************************************************************************)
(* The link of module UsbLink, for all payloads, buffer sizes, ports and    *)
(* numbers of tasks: what the host finds in the stream does not depend on   *)
(* the pieces it is read in, and what the port took whole it finds.  The    *)
(* scanner's loop is a recursive function over the positions of the buffer; *)
(* the induction is over a set of positions.                                *)
(***************************************************************************)
EXTENDS UsbLink, FiniteSetTheorems, SequenceTheorems, WellFoundedInduction, TLAPS

-----------------------------------------------------------------------------
(* Induction.                                                              *)

\* A set of numbers that holds 0 and with each number the next holds all.
LEMMA Induction ==
  ASSUME NEW G, 0 \in G, \A n \in Nat : n \in G => n + 1 \in G
  PROVE  Nat \subseteq G
<1> SUFFICES ASSUME ~(Nat \subseteq G) PROVE FALSE
  OBVIOUS
<1> DEFINE T == {0..n : n \in Nat \ G}
<1>1. T # {} /\ T \subseteq FiniteSubsetsOf(Nat)
  <2>1. \A n \in Nat : IsFiniteSet(0..n) /\ 0..n \subseteq Nat
    BY FS_Interval
  <2> QED BY <2>1 DEF FiniteSubsetsOf
<1>2. IsWellFoundedOn(StrictSubsetOrdering(Nat), FiniteSubsetsOf(Nat))
  BY FS_StrictSubsetOrderingWellFounded
<1>3. PICK x \in T : \A y \in T : ~(<<y, x>> \in StrictSubsetOrdering(Nat))
  <2> HIDE DEF T
  <2> QED BY <1>1, <1>2, WFMin
<1>4. PICK m \in Nat \ G : x = 0..m
  OBVIOUS
<1>5. m # 0 /\ m - 1 \in Nat /\ m - 1 \notin G
  <2>1. m # 0
    OBVIOUS
  <2>2. m - 1 \in Nat /\ m - 1 + 1 = m
    BY <2>1
  <2> QED BY <2>1, <2>2
<1>6. 0..(m - 1) \in T
  BY <1>5
<1>7. <<0..(m - 1), x>> \in StrictSubsetOrdering(Nat)
  <2>1. m \in 0..m /\ m \notin 0..(m - 1) /\ 0..(m - 1) \subseteq 0..m /\ 0..m \subseteq Nat
    BY <1>5
  <2> QED BY <1>4, <2>1 DEF StrictSubsetOrdering
<1> QED BY <1>3, <1>6, <1>7

\* A set of positions that holds each one behind which it holds all holds all.
LEMMA Downward ==
  ASSUME NEW n \in Nat, NEW G,
         \A p \in 0..n : (\A q \in p + 1..n : q \in G) => p \in G
  PROVE  0..n \subseteq G
<1> DEFINE D == {d \in Nat : \A p \in 0..n : n - p <= d => p \in G}
<1>1. 0 \in D
  <2>1. ASSUME NEW p \in 0..n, n - p <= 0 PROVE p \in G
    <3>1. \A q \in p + 1..n : FALSE
      BY <2>1
    <3> QED BY <3>1
  <2> QED BY <2>1
<1>2. ASSUME NEW d \in Nat, d \in D PROVE d + 1 \in D
  <2>1. ASSUME NEW p \in 0..n, n - p <= d + 1 PROVE p \in G
    <3>1. ASSUME NEW q \in p + 1..n PROVE q \in G
      <4>1. q \in 0..n /\ n - q <= d
        BY <2>1
      <4> QED BY <1>2, <4>1
    <3> QED BY <3>1
  <2> QED BY <2>1
<1>3. n \in D
  <2> HIDE DEF D
  <2> QED BY <1>1, <1>2, Induction
<1>4. \A p \in 0..n : n - p <= n
  OBVIOUS
<1> QED BY <1>3, <1>4

\* A set of numbers that is not empty has a least one.
LEMMA Least ==
  ASSUME NEW n \in Nat, NEW z \in SUBSET (0..n), z # {}
  PROVE  Min(z) \in z /\ \A y \in z : Min(z) <= y
<1> DEFINE G == {m \in Nat : (\E y \in z : y <= m) => \E x \in z : \A y \in z : x <= y}
<1>1. \A y \in z : y \in Nat /\ y <= n
  OBVIOUS
<1>2. 0 \in G
  BY <1>1
<1>3. ASSUME NEW m \in Nat, m \in G PROVE m + 1 \in G
  <2> SUFFICES ASSUME NEW y \in z, y <= m + 1 PROVE \E x \in z : \A w \in z : x <= w
    OBVIOUS
  <2>1. CASE \E w \in z : w <= m
    BY <1>3, <2>1
  <2>2. CASE \A w \in z : ~(w <= m)
    <3>1. \A w \in z : y <= w
      BY <1>1, <2>2
    <3> QED BY <3>1
  <2> QED BY <2>1, <2>2
<1>4. n \in G
  <2> HIDE DEF G
  <2> QED BY <1>2, <1>3, Induction
<1>5. \E x \in z : \A y \in z : x <= y
  BY <1>1, <1>4
<1> QED BY <1>5 DEF Min

-----------------------------------------------------------------------------
(* The loop over in_buf, one turn at a time.                               *)

First(buf, pos) == Min(Beginnings(buf, pos))
Told(buf, pos) == Length(buf, First(buf, pos))

\* It stops at position pos, ...
Stops(buf, pos) ==
  \/ Len(buf) - pos < 8
  \/ Beginnings(buf, pos) = {}
  \/ Len(buf) - First(buf, pos) < 8
  \/ Told(buf, pos) <= MaxLength /\ Len(buf) - First(buf, pos) < 8 + Told(buf, pos)

\* ... and keeps what begins there, ...
StopAt(buf, pos) ==
  IF Len(buf) - pos < 8 THEN pos
  ELSE IF Beginnings(buf, pos) = {} THEN EndOfNothing(buf)
  ELSE First(buf, pos)

\* ... or goes on behind a packet, ...
GoesTo(buf, pos) ==
  IF Told(buf, pos) > MaxLength THEN First(buf, pos) + 2
  ELSE First(buf, pos) + 8 + Told(buf, pos)

\* ... which it may have taken.
Takes(buf, pos, k) ==
  LET i == First(buf, pos)
  IN  IF /\ Told(buf, pos) <= MaxLength /\ Right(buf, i, Told(buf, pos))
         /\ k = Kind(buf[i + 3], Told(buf, pos))
        THEN <<<<buf[i + 3], buf[i + 4]>>>> ELSE <<>>

\* The longest payload is a number.
LEMMA Longest == MaxLength \in Nat /\ MaxLength < 65536
  BY LinkAssumption DEF Word

\* Positions are numbers, and bytes.
LEMMA Numbers ==
  ASSUME NEW buf \in Seq(Byte)
  PROVE  Len(buf) \in Nat /\ \A i \in 1..Len(buf) : buf[i] \in Nat
<1>1. Len(buf) \in Nat /\ \A i \in 1..Len(buf) : buf[i] \in Byte
  OBVIOUS
<1>2. Byte \subseteq Nat
  BY DEF Byte
<1> QED BY <1>1, <1>2

Found == Seq(Byte \X Byte)
Result == [frame : Found, answer : Found, pos : Nat]

\* The first beginning is one, and there is none before it.
LEMMA FirstIs ==
  ASSUME NEW buf \in Seq(Byte), NEW pos \in 0..Len(buf), Beginnings(buf, pos) # {}
  PROVE  /\ First(buf, pos) \in Beginnings(buf, pos)
         /\ First(buf, pos) \in pos..Len(buf) - 2
         /\ \A j \in Beginnings(buf, pos) : First(buf, pos) <= j
<1>1. Len(buf) \in Nat
  OBVIOUS
<1>2. Beginnings(buf, pos) \in SUBSET (0..Len(buf))
  BY <1>1 DEF Beginnings
<1>3. /\ First(buf, pos) \in Beginnings(buf, pos)
      /\ \A j \in Beginnings(buf, pos) : First(buf, pos) <= j
  BY <1>1, <1>2, Least DEF First
<1> QED BY <1>3 DEF Beginnings

\* The length it tells is a number.
LEMMA ToldIs ==
  ASSUME NEW buf \in Seq(Byte), NEW pos \in 0..Len(buf), Beginnings(buf, pos) # {},
         ~(Len(buf) - First(buf, pos) < 8)
  PROVE  Told(buf, pos) \in Nat
<1>1. First(buf, pos) \in pos..Len(buf) - 2
  BY FirstIs
<1>2. First(buf, pos) + 5 \in 1..Len(buf) /\ First(buf, pos) + 6 \in 1..Len(buf)
  BY <1>1
<1> QED BY <1>2, Numbers DEF Told, Length

\* The loop goes forward and stays in the buffer.
LEMMA Forward ==
  ASSUME NEW buf \in Seq(Byte), NEW pos \in 0..Len(buf)
  PROVE  /\ Stops(buf, pos) => StopAt(buf, pos) \in pos..Len(buf)
         /\ ~Stops(buf, pos) => /\ Told(buf, pos) \in Nat
                                /\ GoesTo(buf, pos) \in pos + 1..Len(buf)
                                /\ Len(buf) - First(buf, pos) >= 8
<1>1. Len(buf) \in Nat /\ pos \in Nat /\ pos <= Len(buf)
  OBVIOUS
<1>2. CASE Stops(buf, pos)
  <2>1. CASE Len(buf) - pos < 8
    <3>1. StopAt(buf, pos) = pos
      BY <2>1 DEF StopAt
    <3> QED BY <1>1, <1>2, <3>1
  <2>2. CASE Len(buf) - pos >= 8 /\ Beginnings(buf, pos) = {}
    <3>1. EndOfNothing(buf) = Len(buf) - 1 \/ EndOfNothing(buf) = Len(buf)
      BY DEF EndOfNothing
    <3>2. StopAt(buf, pos) = EndOfNothing(buf)
      BY <1>1, <2>2 DEF StopAt
    <3> QED BY <1>1, <1>2, <2>2, <3>1, <3>2
  <2>3. CASE Len(buf) - pos >= 8 /\ Beginnings(buf, pos) # {}
    <3>1. StopAt(buf, pos) = First(buf, pos)
      BY <1>1, <2>3 DEF StopAt
    <3>2. First(buf, pos) \in pos..Len(buf) - 2
      BY <2>3, FirstIs
    <3> QED BY <1>1, <1>2, <3>1, <3>2
  <2> QED BY <1>1, <1>2, <2>1, <2>2, <2>3
<1>3. CASE ~Stops(buf, pos)
  <2>1. First(buf, pos) \in pos..Len(buf) - 2
    BY <1>3, FirstIs DEF Stops
  <2>2. Len(buf) - First(buf, pos) >= 8
    BY <1>1, <1>3, <2>1 DEF Stops
  <2>4. Told(buf, pos) \in Nat
    BY <1>3, ToldIs DEF Stops
  <2>5. MaxLength \in Nat
    BY Longest
  <2>6. Told(buf, pos) <= MaxLength => Len(buf) - First(buf, pos) >= 8 + Told(buf, pos)
    BY <1>1, <1>3, <2>1, <2>4 DEF Stops
  <2> QED BY <1>1, <1>3, <2>1, <2>2, <2>4, <2>5, <2>6 DEF GoesTo
<1> QED BY <1>2, <1>3

\* What a turn gives: where it stops, ...
LEMMA LookStops ==
  ASSUME NEW buf \in Seq(Byte), NEW pos \in 0..Len(buf), NEW f, Stops(buf, pos)
  PROVE  Look(buf, f, pos) = [frame |-> <<>>, answer |-> <<>>, pos |-> StopAt(buf, pos)]
<1> DEFINE i == First(buf, pos)
           length == Told(buf, pos)
<1>1. Look(buf, f, pos) =
        IF Len(buf) - pos < 8 THEN [frame |-> <<>>, answer |-> <<>>, pos |-> pos]
        ELSE IF Beginnings(buf, pos) = {}
          THEN [frame |-> <<>>, answer |-> <<>>, pos |-> EndOfNothing(buf)]
        ELSE IF Len(buf) - i < 8 THEN [frame |-> <<>>, answer |-> <<>>, pos |-> i]
        ELSE IF length > MaxLength THEN f[i + 2]
        ELSE IF Len(buf) - i < 8 + length
          THEN [frame |-> <<>>, answer |-> <<>>, pos |-> i]
        ELSE IF Right(buf, i, length)
          THEN [f[i + 8 + length] EXCEPT
                  ![Kind(buf[i + 3], length)] = <<<<buf[i + 3], buf[i + 4]>>>> \o @]
          ELSE f[i + 8 + length]
  BY Zenon DEF Look, First, Told
<1>2. CASE \/ Len(buf) - pos < 8
           \/ Beginnings(buf, pos) = {}
           \/ Len(buf) - i < 8
  BY <1>1, <1>2 DEF StopAt
<1>3. CASE /\ ~(Len(buf) - pos < 8) /\ Beginnings(buf, pos) # {} /\ ~(Len(buf) - i < 8)
           /\ length <= MaxLength /\ Len(buf) - i < 8 + length
  <2>1. length \in Nat /\ MaxLength \in Nat
    BY <1>3, ToldIs, Longest
  <2>2. ~(length > MaxLength)
    BY <1>3, <2>1
  <2> HIDE DEF i, length
  <2>3. StopAt(buf, pos) = i
    BY <1>3 DEF StopAt, i
  <2> QED BY <1>1, <1>3, <2>2, <2>3
<1> QED BY <1>2, <1>3 DEF Stops

\* ... and where it goes on.
LEMMA LookGoes ==
  ASSUME NEW buf \in Seq(Byte), NEW pos \in 0..Len(buf), NEW f, ~Stops(buf, pos)
  PROVE  LET i == First(buf, pos)
             length == Told(buf, pos)
         IN  Look(buf, f, pos) =
               IF length <= MaxLength /\ Right(buf, i, length)
                 THEN [f[GoesTo(buf, pos)] EXCEPT
                         ![Kind(buf[i + 3], length)] = <<<<buf[i + 3], buf[i + 4]>>>> \o @]
                 ELSE f[GoesTo(buf, pos)]
<1> DEFINE i == First(buf, pos)
           length == Told(buf, pos)
<1>1. Look(buf, f, pos) =
        IF Len(buf) - pos < 8 THEN [frame |-> <<>>, answer |-> <<>>, pos |-> pos]
        ELSE IF Beginnings(buf, pos) = {}
          THEN [frame |-> <<>>, answer |-> <<>>, pos |-> EndOfNothing(buf)]
        ELSE IF Len(buf) - i < 8 THEN [frame |-> <<>>, answer |-> <<>>, pos |-> i]
        ELSE IF length > MaxLength THEN f[i + 2]
        ELSE IF Len(buf) - i < 8 + length
          THEN [frame |-> <<>>, answer |-> <<>>, pos |-> i]
        ELSE IF Right(buf, i, length)
          THEN [f[i + 8 + length] EXCEPT
                  ![Kind(buf[i + 3], length)] = <<<<buf[i + 3], buf[i + 4]>>>> \o @]
          ELSE f[i + 8 + length]
  BY Zenon DEF Look, First, Told
<1>2. length \in Nat /\ MaxLength \in Nat
  BY Forward, Longest
<1>3. length <= MaxLength <=> ~(length > MaxLength)
  BY <1>2
<1> QED BY <1>1, <1>3 DEF Stops, GoesTo

\* What it takes is a packet's command and number.
LEMMA TakesIs ==
  ASSUME NEW buf \in Seq(Byte), NEW pos \in 0..Len(buf), ~Stops(buf, pos), NEW k
  PROVE  Takes(buf, pos, k) \in Found
<1>1. PICK i : i = First(buf, pos)
  OBVIOUS
<1>2. i \in pos..Len(buf) - 2 /\ Len(buf) - i >= 8
  BY <1>1, FirstIs, Forward DEF Stops
<1>3. i + 3 \in 1..Len(buf) /\ i + 4 \in 1..Len(buf)
  BY <1>2
<1>4. PICK x \in Byte \X Byte : x = <<buf[i + 3], buf[i + 4]>>
  <2>1. buf[i + 3] \in Byte /\ buf[i + 4] \in Byte
    BY <1>3
  <2> QED BY <2>1
<1>5. Takes(buf, pos, k) = <<>> \/ Takes(buf, pos, k) = <<x>>
  BY <1>1, <1>4 DEF Takes
<1>6. <<>> \in Found /\ <<x>> \in Found
  BY DEF Found
<1> QED BY <1>5, <1>6

\* A turn depends on what comes behind it only.
LEMMA LookSame ==
  ASSUME NEW buf \in Seq(Byte), NEW pos \in 0..Len(buf), NEW f, NEW g,
         Stops(buf, pos) \/ f[GoesTo(buf, pos)] = g[GoesTo(buf, pos)]
  PROVE  Look(buf, f, pos) = Look(buf, g, pos)
<1>1. CASE Stops(buf, pos)
  BY <1>1, LookStops
<1>2. CASE ~Stops(buf, pos)
  BY <1>2, LookGoes, ZenonT(60)
<1> QED BY <1>1, <1>2

-----------------------------------------------------------------------------
(* The whole loop.                                                         *)

\* f is what the loop does from each position on.
IsScan(buf, f) == f = [pos \in 0..Len(buf) |-> Look(buf, f, pos)]

\* There is such a function.
LEMMA ScanExists ==
  ASSUME NEW buf \in Seq(Byte)
  PROVE  \E f : IsScan(buf, f)
<1> DEFINE n == Len(buf)
           Part(f, p) == f = [q \in p..n |-> Look(buf, f, q)]
           G == {p \in 0..n : \E f : Part(f, p)}
<1>0. n \in Nat
  OBVIOUS
<1>1. ASSUME NEW p \in 0..n, NEW g, p = n \/ Part(g, p + 1)
      PROVE  \E f : Part(f, p)
  <2> DEFINE f == [q \in p..n |-> IF q = p THEN Look(buf, g, q) ELSE g[q]]
  <2>1. ASSUME NEW q \in p..n PROVE f[q] = Look(buf, f, q)
    <3>0. q \in 0..n
      BY <1>0
    <3>1. Stops(buf, q) \/ f[GoesTo(buf, q)] = g[GoesTo(buf, q)]
      <4> SUFFICES ASSUME ~Stops(buf, q) PROVE f[GoesTo(buf, q)] = g[GoesTo(buf, q)]
        OBVIOUS
      <4>1. GoesTo(buf, q) \in q + 1..n
        BY <3>0, Forward
      <4>2. GoesTo(buf, q) \in p..n /\ GoesTo(buf, q) # p
        BY <1>0, <4>1
      <4> QED BY <4>2
    <3>2. Look(buf, f, q) = Look(buf, g, q)
      <4> HIDE DEF f
      <4> QED BY <3>0, <3>1, LookSame
    <3>3. CASE q = p
      <4>1. f[q] = Look(buf, g, q)
        BY <3>3
      <4> QED BY <3>2, <4>1
    <3>4. CASE q # p
      <4>1. q \in p + 1..n /\ p # n
        BY <1>0, <3>4
      <4>2. g[q] = Look(buf, g, q)
        BY <1>1, <4>1
      <4>3. f[q] = g[q]
        BY <3>4
      <4> QED BY <3>2, <4>2, <4>3
    <3> QED BY <3>3, <3>4
  <2>2. f = [q \in p..n |-> f[q]]
    OBVIOUS
  <2>3. Part(f, p)
    <3> HIDE DEF f
    <3> QED BY <2>1, <2>2
  <2> QED BY <2>3
<1>2. ASSUME NEW p \in 0..n, \A q \in p + 1..n : q \in G PROVE p \in G
  <2>1. CASE p = n
    BY <1>1, <2>1
  <2>2. CASE p # n
    <3>1. p + 1 \in p + 1..n
      BY <1>0, <2>2
    <3>2. PICK g : Part(g, p + 1)
      BY <1>2, <3>1
    <3> QED BY <1>1, <3>2
  <2> QED BY <2>1, <2>2
<1>3. 0 \in G
  <2>1. 0 \in 0..n
    BY <1>0
  <2> HIDE DEF G
  <2> QED BY <1>0, <1>2, <2>1, Downward
<1> QED BY <1>3 DEF IsScan

\* A packet put in front of what was found.
PutIn(r, kind, x) == [r EXCEPT ![kind] = <<x>> \o @]
LEMMA PutInFront ==
  ASSUME NEW r \in Result, NEW kind \in Kinds, NEW x \in Byte \X Byte
  PROVE  /\ PutIn(r, kind, x) \in Result /\ PutIn(r, kind, x).pos = r.pos
         /\ \A k \in Kinds :
              PutIn(r, kind, x)[k] = (IF k = kind THEN <<x>> ELSE <<>>) \o r[k]
<1>0. PICK g : g = PutIn(r, kind, x)
  OBVIOUS
<1> SUFFICES /\ g \in Result /\ g.pos = r.pos
             /\ \A k \in Kinds : g[k] = (IF k = kind THEN <<x>> ELSE <<>>) \o r[k]
  BY <1>0, Zenon
<1>1. PICK a \in Found, b \in Found, p \in Nat : r = [frame |-> a, answer |-> b, pos |-> p]
  BY DEF Result
<1>2. r.frame = a /\ r.answer = b /\ r.pos = p
  BY <1>1
<1>3. /\ <<x>> \o a \in Found /\ <<x>> \o b \in Found
      /\ <<>> \o a = a /\ <<>> \o b = b
  BY DEF Found
<1>6. PICK u \in Found : u = <<x>> \o a
  BY <1>3
<1>7. PICK v \in Found : v = <<x>> \o b
  BY <1>3
<1>4. CASE kind = "frame"
  <2>1. g = [frame |-> u, answer |-> b, pos |-> p]
    BY <1>0, <1>1, <1>4, <1>6 DEF PutIn
  <2>2. g.frame = <<x>> \o a /\ g.answer = b /\ g.pos = p
    BY <1>6, <2>1
  <2>3. g \in Result
    BY <2>1 DEF Result
  <2>4. ASSUME NEW k \in Kinds
        PROVE  g[k] = (IF k = kind THEN <<x>> ELSE <<>>) \o r[k]
    <3>1. CASE k = "frame"
      BY <1>2, <1>4, <2>2, <3>1
    <3>2. CASE k = "answer"
      BY <1>2, <1>3, <1>4, <2>2, <3>2
    <3> QED BY <3>1, <3>2 DEF Kinds
  <2> QED BY <1>2, <2>2, <2>3, <2>4
<1>5. CASE kind = "answer"
  <2>1. g = [frame |-> a, answer |-> v, pos |-> p]
    BY <1>0, <1>1, <1>5, <1>7 DEF PutIn
  <2>2. g.frame = a /\ g.answer = <<x>> \o b /\ g.pos = p
    BY <1>7, <2>1
  <2>3. g \in Result
    BY <2>1 DEF Result
  <2>4. ASSUME NEW k \in Kinds
        PROVE  g[k] = (IF k = kind THEN <<x>> ELSE <<>>) \o r[k]
    <3>1. CASE k = "frame"
      BY <1>2, <1>3, <1>5, <2>2, <3>1
    <3>2. CASE k = "answer"
      BY <1>2, <1>5, <2>2, <3>2
    <3> QED BY <3>1, <3>2 DEF Kinds
  <2> QED BY <1>2, <2>2, <2>3, <2>4
<1> QED BY <1>4, <1>5 DEF Kinds

\* f tells, for each position, what is found from there on.
Turn(buf, f, pos) ==
  /\ f[pos] \in Result
  /\ Stops(buf, pos) =>
       f[pos] = [frame |-> <<>>, answer |-> <<>>, pos |-> StopAt(buf, pos)]
  /\ ~Stops(buf, pos) =>
       /\ f[pos].pos = f[GoesTo(buf, pos)].pos
       /\ \A k \in Kinds : f[pos][k] = Takes(buf, pos, k) \o f[GoesTo(buf, pos)][k]
Scans(buf, f) == \A pos \in 0..Len(buf) : Turn(buf, f, pos)

\* The function of the loop does.
LEMMA ScanTurns ==
  ASSUME NEW buf \in Seq(Byte), NEW f, IsScan(buf, f)
  PROVE  Scans(buf, f)
<1> DEFINE n == Len(buf)
           G == {pos \in 0..n : Turn(buf, f, pos)}
<1>0. n \in Nat
  OBVIOUS
<1>1. ASSUME NEW pos \in 0..n, \A q \in pos + 1..n : q \in G PROVE pos \in G
  <2>1. f[pos] = Look(buf, f, pos)
    BY DEF IsScan
  <2>2. CASE Stops(buf, pos)
    <3>1. f[pos] = [frame |-> <<>>, answer |-> <<>>, pos |-> StopAt(buf, pos)]
      BY <2>1, <2>2, LookStops
    <3>2. StopAt(buf, pos) \in Nat
      BY <2>2, Forward
    <3>3. <<>> \in Found
      BY DEF Found
    <3>4. f[pos] \in Result
      BY <3>1, <3>2, <3>3 DEF Result
    <3> QED BY <2>2, <3>1, <3>4 DEF Turn
  <2>3. CASE ~Stops(buf, pos)
    <3>1. PICK to \in pos + 1..n : to = GoesTo(buf, pos)
      BY <2>3, Forward
    <3>2. PICK r \in Result : r = f[to]
      BY <1>1, <3>1 DEF Turn
    <3>3. PICK i : i = First(buf, pos)
      OBVIOUS
    <3>4. PICK length : length = Told(buf, pos)
      OBVIOUS
    <3>5. PICK kind \in Kinds : kind = Kind(buf[i + 3], length)
      BY DEF Kind, Kinds
    <3>6. PICK x \in Byte \X Byte : x = <<buf[i + 3], buf[i + 4]>>
      <4>1. i \in pos..n - 2 /\ n - i >= 8
        BY <2>3, <3>3, FirstIs, Forward DEF Stops
      <4>2. i + 3 \in 1..n /\ i + 4 \in 1..n
        BY <1>0, <4>1
      <4>3. buf[i + 3] \in Byte /\ buf[i + 4] \in Byte
        BY <4>2
      <4> QED BY <4>3
    <3>7. f[pos] = IF length <= MaxLength /\ Right(buf, i, length)
                     THEN [r EXCEPT ![kind] = <<x>> \o @] ELSE r
      BY <2>1, <2>3, <3>1, <3>2, <3>3, <3>4, <3>5, <3>6, LookGoes
    <3>8. \A k \in Kinds :
            Takes(buf, pos, k) = IF length <= MaxLength /\ Right(buf, i, length) /\ k = kind
                                   THEN <<x>> ELSE <<>>
      BY <3>3, <3>4, <3>5, <3>6 DEF Takes
    <3>9. \A k \in Kinds : <<>> \o r[k] = r[k]
      BY DEF Result, Found, Kinds
    <3>10. CASE length <= MaxLength /\ Right(buf, i, length)
      <4>0. f[pos] = PutIn(r, kind, x)
        BY <3>7, <3>10 DEF PutIn
      <4>1. /\ f[pos] \in Result /\ f[pos].pos = r.pos
            /\ \A k \in Kinds : f[pos][k] = (IF k = kind THEN <<x>> ELSE <<>>) \o r[k]
        <5>1. /\ PutIn(r, kind, x) \in Result /\ PutIn(r, kind, x).pos = r.pos
              /\ \A k \in Kinds :
                   PutIn(r, kind, x)[k] = (IF k = kind THEN <<x>> ELSE <<>>) \o r[k]
          BY PutInFront, ZenonT(30)
        <5> QED BY <4>0, <5>1, Zenon
      <4> QED BY <2>3, <3>1, <3>2, <3>8, <3>10, <4>1 DEF Turn
    <3>11. CASE ~(length <= MaxLength /\ Right(buf, i, length))
      BY <2>3, <3>1, <3>2, <3>7, <3>8, <3>9, <3>11 DEF Turn
    <3> QED BY <3>10, <3>11
  <2> QED BY <2>2, <2>3
<1>2. 0..n \subseteq G
  <2> HIDE DEF G
  <2> QED BY <1>0, <1>1, Downward
<1> QED BY <1>2 DEF Scans

\* The scan is what the loop does from the beginning.
LEMMA ScanIs ==
  ASSUME NEW buf \in Seq(Byte)
  PROVE  \E f : Scans(buf, f) /\ Scan(buf) = f[0]
<1> DEFINE F == CHOOSE f : f = [pos \in 0..Len(buf) |-> Look(buf, f, pos)]
<1>1. Scan(buf) = F[0]
  BY DEF Scan
<1>2. IsScan(buf, F)
  <2>1. \E f : f = [pos \in 0..Len(buf) |-> Look(buf, f, pos)]
    BY ScanExists DEF IsScan
  <2> QED BY <2>1 DEF IsScan
<1> HIDE DEF F
<1> QED BY <1>1, <1>2, ScanTurns

-----------------------------------------------------------------------------
(* A buffer in a longer one.                                               *)

\* The bytes of d are those of buf after position q.
Inside(d, buf, q) ==
  /\ d \in Seq(Byte) /\ buf \in Seq(Byte) /\ q \in Nat
  /\ q + Len(d) <= Len(buf)
  /\ \A i \in 1..Len(d) : d[i] = buf[q + i]

\* The same beginning comes first, ...
LEMMA FirstSame ==
  ASSUME NEW d, NEW buf, NEW q, Inside(d, buf, q), NEW j \in 0..Len(d),
         Beginnings(d, j) # {}
  PROVE  Beginnings(buf, q + j) # {} /\ First(buf, q + j) = q + First(d, j)
<1>1. /\ d \in Seq(Byte) /\ buf \in Seq(Byte) /\ q \in Nat
      /\ Len(d) \in Nat /\ Len(buf) \in Nat /\ q + Len(d) <= Len(buf)
  BY DEF Inside
<1>2. PICK m : m = First(d, j)
  OBVIOUS
<1>3. /\ m \in Beginnings(d, j) /\ m \in j..Len(d) - 2
      /\ \A i \in Beginnings(d, j) : m <= i
  BY <1>1, <1>2, FirstIs
<1>4. ASSUME NEW i \in j..Len(d) - 2
      PROVE  q + i \in Beginnings(buf, q + j) <=> i \in Beginnings(d, j)
  <2>1. i + 1 \in 1..Len(d) /\ i + 2 \in 1..Len(d)
    BY <1>1
  <2>2. buf[q + (i + 1)] = d[i + 1] /\ buf[q + (i + 2)] = d[i + 2]
    BY <2>1 DEF Inside
  <2>3. q + (i + 1) = q + i + 1 /\ q + (i + 2) = q + i + 2
        /\ q + i \in q + j..Len(buf) - 2
    BY <1>1
  <2>4. buf[q + i + 1] = d[i + 1] /\ buf[q + i + 2] = d[i + 2]
    BY <2>2, <2>3
  <2> QED BY <2>3, <2>4 DEF Beginnings
<1>5. q + m \in Beginnings(buf, q + j)
  BY <1>3, <1>4
<1>6. PICK f : f = First(buf, q + j)
  OBVIOUS
<1>7. /\ f \in Beginnings(buf, q + j) /\ f \in q + j..Len(buf) - 2
      /\ \A i \in Beginnings(buf, q + j) : f <= i
  <2>1. q + j \in 0..Len(buf)
    BY <1>1
  <2> QED BY <1>1, <1>5, <1>6, <2>1, FirstIs
<1>8. f <= q + m
  BY <1>5, <1>7
<1>9. f - q \in j..Len(d) - 2 /\ q + (f - q) = f
  BY <1>1, <1>3, <1>7, <1>8
<1>10. f - q \in Beginnings(d, j)
  BY <1>4, <1>7, <1>9
<1>11. m <= f - q
  BY <1>3, <1>10
<1>12. f = q + m
  BY <1>1, <1>3, <1>7, <1>8, <1>11
<1> QED BY <1>2, <1>5, <1>6, <1>12

\* ... it tells the same length, ...
LEMMA ToldSame ==
  ASSUME NEW d, NEW buf, NEW q, Inside(d, buf, q), NEW j \in 0..Len(d),
         Beginnings(d, j) # {}, ~(Len(d) - First(d, j) < 8)
  PROVE  Told(buf, q + j) = Told(d, j)
<1>1. /\ d \in Seq(Byte) /\ buf \in Seq(Byte) /\ q \in Nat
      /\ Len(d) \in Nat /\ Len(buf) \in Nat /\ q + Len(d) <= Len(buf)
  BY DEF Inside
<1>2. PICK m : m = First(d, j)
  OBVIOUS
<1>3. m \in j..Len(d) - 2 /\ ~(Len(d) - m < 8) /\ First(buf, q + j) = q + m
  BY <1>1, <1>2, FirstIs, FirstSame
<1>4. m + 5 \in 1..Len(d) /\ m + 6 \in 1..Len(d)
  BY <1>1, <1>3
<1>5. buf[q + (m + 5)] = d[m + 5] /\ buf[q + (m + 6)] = d[m + 6]
  BY <1>4 DEF Inside
<1>6. q + (m + 5) = q + m + 5 /\ q + (m + 6) = q + m + 6
  BY <1>1, <1>3
<1> QED BY <1>2, <1>3, <1>5, <1>6 DEF Told, Length

\* ... and has the same checksum.
LEMMA RightSame ==
  ASSUME NEW d, NEW buf, NEW q, Inside(d, buf, q), NEW i \in Nat, NEW length \in Nat,
         i + 8 + length <= Len(d)
  PROVE  Right(d, i, length) <=> Right(buf, q + i, length)
<1>1. /\ d \in Seq(Byte) /\ buf \in Seq(Byte) /\ q \in Nat
      /\ Len(d) \in Nat /\ Len(buf) \in Nat /\ q + Len(d) <= Len(buf)
  BY DEF Inside
<1>2. PICK s : s = SubSeq(d, i + 3, i + 6 + length)
  OBVIOUS
<1>3. PICK t : t = SubSeq(buf, q + i + 3, q + i + 6 + length)
  OBVIOUS
<1>4. /\ s \in Seq(Byte) /\ Len(s) = length + 4
      /\ \A n \in 1..length + 4 : s[n] = d[i + 2 + n]
  <2>1. PICK lo \in Int : lo = i + 3
    OBVIOUS
  <2>2. PICK hi \in Int : hi = i + 6 + length
    OBVIOUS
  <2>3. \A n \in lo..hi : d[n] \in Byte
    BY <1>1, <2>1, <2>2
  <2>4. /\ s \in Seq(Byte) /\ Len(s) = (IF lo <= hi THEN hi - lo + 1 ELSE 0)
        /\ \A n \in 1..hi - lo + 1 : s[n] = d[lo + n - 1]
    BY <1>1, <1>2, <2>1, <2>2, <2>3, SubSeqProperties
  <2>5. lo <= hi /\ hi - lo + 1 = length + 4
        /\ \A n \in 1..length + 4 : lo + n - 1 = i + 2 + n
    BY <2>1, <2>2
  <2> QED BY <2>4, <2>5
<1>5. /\ t \in Seq(Byte) /\ Len(t) = length + 4
      /\ \A n \in 1..length + 4 : t[n] = buf[q + (i + 2 + n)]
  <2>1. \A n \in q + i + 3..q + i + 6 + length : buf[n] \in Byte
    BY <1>1
  <2>2. /\ t \in Seq(Byte)
        /\ Len(t) = IF q + i + 3 <= q + i + 6 + length
                      THEN q + i + 6 + length - (q + i + 3) + 1 ELSE 0
        /\ \A n \in 1..q + i + 6 + length - (q + i + 3) + 1 :
             t[n] = buf[q + i + 3 + n - 1]
    BY <1>1, <1>3, <2>1, SubSeqProperties
  <2>3. /\ q + i + 3 <= q + i + 6 + length
        /\ q + i + 6 + length - (q + i + 3) + 1 = length + 4
        /\ \A n \in 1..length + 4 : q + i + 3 + n - 1 = q + (i + 2 + n)
    BY <1>1
  <2> QED BY <2>2, <2>3
<1>6. s = t
  <2>1. ASSUME NEW n \in 1..length + 4 PROVE s[n] = t[n]
    <3>1. i + 2 + n \in 1..Len(d)
      BY <1>1
    <3> QED BY <1>4, <1>5, <3>1 DEF Inside
  <2> QED BY <1>4, <1>5, <2>1, SeqEqual
<1>7. d[i + 7 + length] = buf[q + i + 7 + length] /\ d[i + 8 + length] = buf[q + i + 8 + length]
  <2>1. i + 7 + length \in 1..Len(d) /\ i + 8 + length \in 1..Len(d)
    BY <1>1
  <2>2. q + (i + 7 + length) = q + i + 7 + length /\ q + (i + 8 + length) = q + i + 8 + length
    BY <1>1
  <2>3. d[i + 7 + length] = buf[q + (i + 7 + length)]
        /\ d[i + 8 + length] = buf[q + (i + 8 + length)]
    BY <2>1 DEF Inside
  <2> QED BY <2>2, <2>3
<1> QED BY <1>2, <1>3, <1>6, <1>7 DEF Right

\* A turn in the shorter one is a turn in the longer.
LEMMA SameTurn ==
  ASSUME NEW d, NEW buf, NEW q, Inside(d, buf, q), NEW j \in 0..Len(d), ~Stops(d, j)
  PROVE  /\ ~Stops(buf, q + j) /\ GoesTo(buf, q + j) = q + GoesTo(d, j)
         /\ \A k \in Kinds : Takes(buf, q + j, k) = Takes(d, j, k)
<1>1. /\ d \in Seq(Byte) /\ buf \in Seq(Byte) /\ q \in Nat
      /\ Len(d) \in Nat /\ Len(buf) \in Nat /\ q + Len(d) <= Len(buf)
  BY DEF Inside
<1>2. PICK i : i = First(d, j)
  OBVIOUS
<1>3. PICK length : length = Told(d, j)
  OBVIOUS
<1>4. /\ ~(Len(d) - j < 8) /\ Beginnings(d, j) # {} /\ ~(Len(d) - i < 8)
      /\ ~(length <= MaxLength /\ Len(d) - i < 8 + length)
  BY <1>2, <1>3 DEF Stops
<1>5. i \in j..Len(d) - 2 /\ length \in Nat /\ MaxLength \in Nat
  BY <1>1, <1>2, <1>3, <1>4, FirstIs, ToldIs, Longest
<1>6. Beginnings(buf, q + j) # {} /\ First(buf, q + j) = q + i /\ Told(buf, q + j) = length
  BY <1>2, <1>3, <1>4, FirstSame, ToldSame
<1>7. ~Stops(buf, q + j)
  <2>1. ~(Len(buf) - (q + j) < 8) /\ ~(Len(buf) - (q + i) < 8)
    BY <1>1, <1>4, <1>5
  <2>2. length <= MaxLength => ~(Len(buf) - (q + i) < 8 + length)
    BY <1>1, <1>4, <1>5
  <2> QED BY <1>6, <2>1, <2>2 DEF Stops
<1>8. GoesTo(buf, q + j) = q + GoesTo(d, j)
  BY <1>1, <1>2, <1>3, <1>5, <1>6, SMTT(30) DEF GoesTo
<1>9. ASSUME NEW k \in Kinds PROVE Takes(buf, q + j, k) = Takes(d, j, k)
  <2>1. d[i + 3] = buf[q + i + 3] /\ d[i + 4] = buf[q + i + 4]
    <3>1. i + 3 \in 1..Len(d) /\ i + 4 \in 1..Len(d)
      BY <1>1, <1>4, <1>5
    <3>2. q + (i + 3) = q + i + 3 /\ q + (i + 4) = q + i + 4
      BY <1>1, <1>5
    <3>3. d[i + 3] = buf[q + (i + 3)] /\ d[i + 4] = buf[q + (i + 4)]
      BY <3>1 DEF Inside
    <3> QED BY <3>2, <3>3
  <2>2. length <= MaxLength => (Right(d, i, length) <=> Right(buf, q + i, length))
    <3>1. length <= MaxLength => i + 8 + length <= Len(d)
      BY <1>1, <1>4, <1>5
    <3> QED BY <1>5, <3>1, RightSame
  <2> QED BY <1>2, <1>3, <1>6, <2>1, <2>2 DEF Takes
<1> QED BY <1>7, <1>8, <1>9

\* Where the shorter one ends with the longer, it stops when that does.
LEMMA SameStop ==
  ASSUME NEW d, NEW buf, NEW q, Inside(d, buf, q), Len(buf) = q + Len(d),
         NEW j \in 0..Len(d), Stops(d, j)
  PROVE  Stops(buf, q + j)
<1>1. /\ d \in Seq(Byte) /\ buf \in Seq(Byte) /\ q \in Nat
      /\ Len(d) \in Nat /\ Len(buf) \in Nat
  BY DEF Inside
<1>2. CASE Len(d) - j < 8
  <2>1. Len(buf) - (q + j) < 8
    BY <1>1, <1>2
  <2> QED BY <2>1 DEF Stops
<1>3. CASE Beginnings(d, j) = {}
  <2> SUFFICES ASSUME NEW f \in Beginnings(buf, q + j) PROVE FALSE
    BY DEF Stops
  <2>1. f \in q + j..Len(buf) - 2 /\ buf[f + 1] = Sync1 /\ buf[f + 2] = Sync2
    BY DEF Beginnings
  <2>2. /\ f - q \in j..Len(d) - 2 /\ f - q + 1 \in 1..Len(d) /\ f - q + 2 \in 1..Len(d)
        /\ q + (f - q + 1) = f + 1 /\ q + (f - q + 2) = f + 2
    BY <1>1, <2>1
  <2>3. d[f - q + 1] = buf[q + (f - q + 1)] /\ d[f - q + 2] = buf[q + (f - q + 2)]
    BY <2>2 DEF Inside
  <2>4. f - q \in Beginnings(d, j)
    BY <2>1, <2>2, <2>3 DEF Beginnings
  <2> QED BY <1>3, <2>4
<1>4. CASE Beginnings(d, j) # {}
  <2>1. PICK i \in j..Len(d) - 2 : i = First(d, j)
    BY <1>1, <1>4, FirstIs
  <2>2. Beginnings(buf, q + j) # {} /\ First(buf, q + j) = q + i
    BY <1>4, <2>1, FirstSame
  <2>3. Len(buf) - (q + i) = Len(d) - i
    BY <1>1, <2>1
  <2>4. CASE Len(d) - i < 8
    BY <2>2, <2>3, <2>4 DEF Stops
  <2>5. CASE ~(Len(d) - i < 8)
    <3>1. Told(buf, q + j) = Told(d, j)
      BY <1>4, <2>1, <2>5, ToldSame
    <3>2. CASE Len(d) - j < 8
      BY <1>2, <3>2
    <3>3. CASE ~(Len(d) - j < 8)
      <4>1. Told(d, j) <= MaxLength /\ Len(d) - i < 8 + Told(d, j)
        BY <1>4, <2>1, <2>5, <3>3 DEF Stops
      <4> QED BY <2>2, <2>3, <3>1, <4>1 DEF Stops
    <3> QED BY <3>2, <3>3
  <2> QED BY <2>4, <2>5
<1> QED BY <1>3, <1>4

-----------------------------------------------------------------------------
(* What is found does not depend on the pieces.                            *)

\* From a position on the same is found as in what is left from there.
LEMMA Shifted ==
  ASSUME NEW d, NEW buf, NEW q, Inside(d, buf, q), Len(buf) = q + Len(d),
         NEW g, Scans(d, g), NEW f, Scans(buf, f)
  PROVE  \A j \in 0..Len(d), k \in Kinds : f[q + j][k] = g[j][k]
<1> DEFINE n == Len(d)
           G == {j \in 0..n : \A k \in Kinds : f[q + j][k] = g[j][k]}
<1>1. d \in Seq(Byte) /\ buf \in Seq(Byte) /\ q \in Nat /\ n \in Nat
  BY DEF Inside
<1>2. ASSUME NEW j \in 0..n, \A i \in j + 1..n : i \in G PROVE j \in G
  <2>1. q + j \in 0..Len(buf)
    BY <1>1
  <2>2. Turn(d, g, j) /\ Turn(buf, f, q + j)
    BY <2>1 DEF Scans
  <2>3. CASE Stops(d, j)
    <3>1. Stops(buf, q + j)
      BY <2>3, SameStop
    <3>2. \A k \in Kinds : f[q + j][k] = <<>> /\ g[j][k] = <<>>
      BY <2>2, <2>3, <3>1 DEF Turn, Kinds
    <3> QED BY <3>2
  <2>4. CASE ~Stops(d, j)
    <3>1. /\ ~Stops(buf, q + j) /\ GoesTo(buf, q + j) = q + GoesTo(d, j)
          /\ \A k \in Kinds : Takes(buf, q + j, k) = Takes(d, j, k)
      BY <2>4, SameTurn
    <3>2. PICK to \in j + 1..n : to = GoesTo(d, j)
      BY <1>1, <2>4, Forward
    <3>3. \A k \in Kinds : f[q + to][k] = g[to][k]
      BY <1>2, <3>2
    <3>4. \A k \in Kinds : /\ f[q + j][k] = Takes(d, j, k) \o f[q + to][k]
                           /\ g[j][k] = Takes(d, j, k) \o g[to][k]
      BY <2>2, <2>4, <3>1, <3>2 DEF Turn
    <3> QED BY <3>3, <3>4
  <2> QED BY <2>3, <2>4
<1>3. 0..n \subseteq G
  <2> HIDE DEF G
  <2> QED BY <1>1, <1>2, Downward
<1> QED BY <1>3

\* What is found from two positions is the same if no packet begins between.
LEMMA SameStart ==
  ASSUME NEW buf \in Seq(Byte), NEW f, Scans(buf, f),
         NEW p \in 0..Len(buf), NEW q \in p..Len(buf),
         Beginnings(buf, p) = Beginnings(buf, q)
  PROVE  \A k \in Kinds : f[p][k] = f[q][k]
<1>1. Len(buf) \in Nat /\ q \in 0..Len(buf)
  OBVIOUS
<1>2. Turn(buf, f, p) /\ Turn(buf, f, q)
  BY <1>1 DEF Scans
<1>3. First(buf, p) = First(buf, q)
  BY DEF First
<1>4. Told(buf, p) = Told(buf, q)
  BY <1>3 DEF Told
<1>5. CASE Stops(buf, p)
  <2>1. Len(buf) - p < 8 => Len(buf) - q < 8
    BY <1>1
  <2>2. Stops(buf, q)
    BY <1>3, <1>4, <1>5, <2>1 DEF Stops
  <2>3. \A k \in Kinds : f[p][k] = <<>> /\ f[q][k] = <<>>
    BY <1>2, <1>5, <2>2 DEF Turn, Kinds
  <2> QED BY <2>3
<1>6. CASE ~Stops(buf, p)
  <2>1. ~(Len(buf) - q < 8)
    <3>1. First(buf, q) \in q..Len(buf) - 2
      BY <1>1, <1>6, FirstIs DEF Stops
    <3>2. ~(Len(buf) - First(buf, q) < 8)
      BY <1>3, <1>6 DEF Stops
    <3> QED BY <1>1, <3>1, <3>2
  <2>2. ~Stops(buf, q)
    BY <1>3, <1>4, <1>6, <2>1 DEF Stops
  <2>3. GoesTo(buf, p) = GoesTo(buf, q)
    BY <1>3, <1>4 DEF GoesTo
  <2>4. \A k \in Kinds : Takes(buf, p, k) = Takes(buf, q, k)
    BY <1>3, <1>4 DEF Takes
  <2> QED BY <1>2, <1>6, <2>2, <2>3, <2>4 DEF Turn
<1> QED BY <1>5, <1>6

\* Where the loop stops in a beginning of the buffer, it has passed none.
LEMMA PassedNone ==
  ASSUME NEW a, NEW c, Inside(a, c, 0), NEW p \in 0..Len(a), Stops(a, p)
  PROVE  Beginnings(c, p) = Beginnings(c, StopAt(a, p))
<1>1. /\ a \in Seq(Byte) /\ c \in Seq(Byte) /\ Len(a) \in Nat /\ Len(c) \in Nat
      /\ Len(a) <= Len(c) /\ \A i \in 1..Len(a) : a[i] = c[i]
  BY DEF Inside
<1>2. PICK q \in p..Len(a) : q = StopAt(a, p)
  BY <1>1, Forward
<1> SUFFICES ASSUME NEW i \in Beginnings(c, p) PROVE i >= q
  <2>1. \A i \in p..Len(c) - 2 : i >= q => i \in q..Len(c) - 2
    BY <1>1
  <2>2. \A i \in q..Len(c) - 2 : i \in p..Len(c) - 2
    BY <1>1
  <2> QED BY <1>2, <2>1, <2>2 DEF Beginnings
<1>3. i \in p..Len(c) - 2 /\ c[i + 1] = Sync1 /\ c[i + 2] = Sync2
  BY DEF Beginnings
<1> SUFFICES ASSUME i < q PROVE FALSE
  BY <1>1, <1>3
<1>4. i + 2 <= Len(a) => i \in Beginnings(a, p)
  <2> SUFFICES ASSUME i + 2 <= Len(a) PROVE i \in Beginnings(a, p)
    OBVIOUS
  <2>1. i \in p..Len(a) - 2 /\ i + 1 \in 1..Len(a) /\ i + 2 \in 1..Len(a)
    BY <1>1, <1>3
  <2>2. a[i + 1] = Sync1 /\ a[i + 2] = Sync2
    BY <1>1, <1>3, <2>1
  <2> QED BY <2>1, <2>2 DEF Beginnings
<1>5. CASE Len(a) - p < 8
  <2>1. q = p
    BY <1>2, <1>5 DEF StopAt
  <2> QED BY <1>1, <1>3, <2>1
<1>6. CASE ~(Len(a) - p < 8) /\ Beginnings(a, p) = {}
  <2>1. q = EndOfNothing(a)
    BY <1>2, <1>6 DEF StopAt
  <2>2. i + 2 > Len(a)
    BY <1>1, <1>3, <1>4, <1>6
  <2>3. q = Len(a) /\ a[Len(a)] # Sync1
    BY <1>1, <1>3, <2>1, <2>2 DEF EndOfNothing
  <2>4. i + 1 = Len(a) /\ Len(a) \in 1..Len(a)
    BY <1>1, <1>3, <2>2, <2>3
  <2> QED BY <1>1, <1>3, <2>3, <2>4
<1>7. CASE ~(Len(a) - p < 8) /\ Beginnings(a, p) # {}
  <2>1. q = First(a, p)
    BY <1>2, <1>7 DEF StopAt
  <2>2. q \in p..Len(a) - 2 /\ \A j \in Beginnings(a, p) : q <= j
    BY <1>1, <1>7, <2>1, FirstIs
  <2>3. i + 2 <= Len(a)
    BY <1>1, <1>3, <2>2
  <2>4. q <= i
    BY <1>4, <2>2, <2>3
  <2> QED BY <1>1, <1>3, <2>4
<1> QED BY <1>5, <1>6, <1>7

\* Three parts can be put together from either end.
Regroups(u, v, w) == (u \o v) \o w = u \o (v \o w)

\* It is so with bytes.
LEMMA BytesRegroup == \A u, v, w \in Seq(Byte) : Regroups(u, v, w)
<1> SUFFICES ASSUME NEW u \in Seq(Byte), NEW v \in Seq(Byte), NEW w \in Seq(Byte)
             PROVE  Regroups(u, v, w)
  OBVIOUS
<1>1. (u \o v) \o w = u \o (v \o w)
  BY ConcatAssociative, SMTT(30)
<1> QED BY <1>1 DEF Regroups

\* It is so with what is found.
LEMMA FoundRegroup == \A u, v, w \in Found : Regroups(u, v, w)
<1> SUFFICES ASSUME NEW u \in Found, NEW v \in Found, NEW w \in Found
             PROVE  Regroups(u, v, w)
  OBVIOUS
<1>1. u \in Seq(Byte \X Byte) /\ v \in Seq(Byte \X Byte) /\ w \in Seq(Byte \X Byte)
  BY DEF Found
<1>2. (u \o v) \o w = u \o (v \o w)
  BY <1>1, ConcatAssociative
<1> QED BY <1>2 DEF Regroups

LEMMA FoundConcat ==
  /\ \A u, v \in Found : u \o v \in Found
  /\ \A u \in Found : <<>> \o u = u /\ u \o <<>> = u
  BY DEF Found

\* What is found in a longer buffer is what is found in a beginning of it and
\* then from where the loop stopped there.
Continues(a, g, f) ==
  \A p \in 0..Len(a) :
    /\ g[p].pos \in p..Len(a)
    /\ \A k \in Kinds : f[p][k] = g[p][k] \o f[g[p].pos][k]

LEMMA Extended ==
  ASSUME NEW a, NEW c, Inside(a, c, 0), NEW g, Scans(a, g), NEW f, Scans(c, f)
  PROVE  Continues(a, g, f)
<1> DEFINE n == Len(a)
           P(p) == /\ g[p].pos \in p..n
                   /\ \A k \in Kinds : f[p][k] = g[p][k] \o f[g[p].pos][k]
           G == {p \in 0..n : P(p)}
<1>1. /\ a \in Seq(Byte) /\ c \in Seq(Byte) /\ n \in Nat /\ Len(c) \in Nat
      /\ n <= Len(c) /\ 0 \in Nat /\ 0 + n = n
  BY DEF Inside
<1>2. ASSUME NEW x \in Result, NEW k \in Kinds PROVE x[k] \in Found
  BY DEF Result, Kinds
<1>3. ASSUME NEW p \in 0..n, \A q \in p + 1..n : q \in G PROVE p \in G
  <2>1. p \in 0..Len(c)
    BY <1>1
  <2>2. Turn(a, g, p) /\ Turn(c, f, p)
    BY <2>1 DEF Scans
  <2>3. CASE Stops(a, p)
    <3>1. PICK q \in p..n : q = StopAt(a, p)
      BY <1>1, <2>3, Forward
    <3>2. q \in p..Len(c) /\ q \in 0..Len(c)
      BY <1>1
    <3>3. g[p].pos = q /\ \A k \in Kinds : g[p][k] = <<>>
      BY <2>2, <2>3, <3>1 DEF Turn, Kinds
    <3>4. \A k \in Kinds : f[p][k] = f[q][k]
      <4>1. Beginnings(c, p) = Beginnings(c, q)
        BY <2>3, <3>1, PassedNone
      <4> QED BY <1>1, <2>1, <3>2, <4>1, SameStart
    <3>5. \A k \in Kinds : <<>> \o f[q][k] = f[q][k]
      <4>1. f[q] \in Result
        BY <3>2 DEF Scans, Turn
      <4>2. \A k \in Kinds : f[q][k] \in Found
        BY <1>2, <4>1
      <4> QED BY <4>2 DEF Found
    <3> QED BY <3>3, <3>4, <3>5
  <2>4. CASE ~Stops(a, p)
    <3>0. 0 + p = p
      OBVIOUS
    <3>1. PICK to \in p + 1..n : to = GoesTo(a, p)
      BY <1>1, <2>4, Forward
    <3>2. /\ ~Stops(c, p) /\ GoesTo(c, p) = to
          /\ \A k \in Kinds : Takes(c, p, k) = Takes(a, p, k)
      <4>1. /\ ~Stops(c, 0 + p) /\ GoesTo(c, 0 + p) = 0 + GoesTo(a, p)
            /\ \A k \in Kinds : Takes(c, 0 + p, k) = Takes(a, p, k)
        BY <2>4, SameTurn
      <4>2. 0 + GoesTo(a, p) = to
        BY <3>1
      <4> QED BY <3>0, <4>1, <4>2
    <3>3. P(to)
      BY <1>3, <3>1
    <3>4. PICK end \in to..n : end = g[to].pos
      BY <3>3
    <3>5. end \in p..n /\ end \in 0..Len(c) /\ to \in 0..n
      BY <1>1
    <3>6. g[p].pos = end
      BY <2>2, <2>4, <3>1, <3>4 DEF Turn
    <3>7. ASSUME NEW k \in Kinds PROVE f[p][k] = g[p][k] \o f[end][k]
      <4>1. f[p][k] = Takes(a, p, k) \o f[to][k] /\ g[p][k] = Takes(a, p, k) \o g[to][k]
        BY <2>2, <2>4, <3>1, <3>2 DEF Turn
      <4>2. f[to][k] = g[to][k] \o f[end][k]
        BY <3>3, <3>4
      <4>3. g[to][k] \in Found /\ f[end][k] \in Found
        BY <1>2, <3>5 DEF Scans, Turn
      <4>4. Takes(a, p, k) \in Found
        BY <1>1, <2>4, TakesIs
      <4>5. PICK u \in Found : u = Takes(a, p, k)
        BY <4>4
      <4>6. PICK v \in Found : v = g[to][k]
        BY <4>3
      <4>7. PICK w \in Found : w = f[end][k]
        BY <4>3
      <4>8. (u \o v) \o w = u \o (v \o w)
        <5>1. Regroups(u, v, w)
          BY FoundRegroup
        <5> QED BY <5>1 DEF Regroups
      <4> QED BY <4>1, <4>2, <4>5, <4>6, <4>7, <4>8
    <3> QED BY <3>5, <3>6, <3>7
  <2> QED BY <2>3, <2>4
<1>4. 0..n \subseteq G
  <2> HIDE DEF G
  <2> QED BY <1>1, <1>3, Downward
<1> QED BY <1>4 DEF Continues

\* A scan finds packets and stops in the buffer.
LEMMA ScanResult ==
  ASSUME NEW a \in Seq(Byte)
  PROVE  Scan(a).pos \in 0..Len(a) /\ \A k \in Kinds : Scan(a)[k] \in Found
<1>1. PICK g : Scans(a, g) /\ Scan(a) = g[0]
  BY ScanIs
<1>2. Inside(a, a, 0) /\ 0 \in 0..Len(a)
  BY DEF Inside
<1>3. g[0].pos \in 0..Len(a)
  <2>1. Continues(a, g, g)
    BY <1>1, <1>2, Extended
  <2> QED BY <1>2, <2>1 DEF Continues
<1>4. g[0] \in Result
  BY <1>1, <1>2 DEF Scans, Turn
<1>5. \A k \in Kinds : g[0][k] \in Found
  BY <1>4 DEF Result, Kinds
<1> QED BY <1>1, <1>3, <1>5

\* The bytes at and after a position.
From(a, q) == SubSeq(a, q + 1, Len(a))

LEMMA FromIs ==
  ASSUME NEW a \in Seq(Byte), NEW q \in 0..Len(a)
  PROVE  /\ From(a, q) \in Seq(Byte) /\ Len(From(a, q)) = Len(a) - q
         /\ \A i \in 1..Len(a) - q : From(a, q)[i] = a[q + i]
<1>1. PICK lo \in Int : lo = q + 1
  OBVIOUS
<1>2. PICK hi \in Int : hi = Len(a)
  OBVIOUS
<1>3. \A n \in lo..hi : a[n] \in Byte
  BY <1>1, <1>2
<1>4. PICK s : s = SubSeq(a, lo, hi)
  OBVIOUS
<1>5. /\ s \in Seq(Byte) /\ Len(s) = (IF lo <= hi THEN hi - lo + 1 ELSE 0)
      /\ \A n \in 1..hi - lo + 1 : s[n] = a[lo + n - 1]
  BY <1>1, <1>2, <1>3, <1>4, SubSeqProperties
<1>6. /\ (IF lo <= hi THEN hi - lo + 1 ELSE 0) = Len(a) - q
      /\ hi - lo + 1 = Len(a) - q
      /\ \A n \in 1..Len(a) - q : lo + n - 1 = q + n
  BY <1>1, <1>2
<1> QED BY <1>1, <1>2, <1>4, <1>5, <1>6 DEF From

\* The first bytes can be scanned alone, if what the loop leaves of them is
\* scanned with the rest.
LEMMA Pieces ==
  ASSUME NEW a \in Seq(Byte), NEW b \in Seq(Byte)
  PROVE  \A k \in Kinds :
           Scan(a \o b)[k] = Scan(a)[k] \o Scan(From(a, Scan(a).pos) \o b)[k]
<1>1. PICK q \in 0..Len(a) : q = Scan(a).pos
  BY ScanResult
<1>2. PICK d : d = From(a, q)
  OBVIOUS
<1>3. /\ d \in Seq(Byte) /\ Len(d) = Len(a) - q
      /\ \A i \in 1..Len(a) - q : d[i] = a[q + i]
  BY <1>2, FromIs
<1>4. PICK c : c = a \o b
  OBVIOUS
<1>5. /\ c \in Seq(Byte) /\ Len(c) = Len(a) + Len(b)
      /\ \A i \in 1..Len(a) + Len(b) : c[i] = IF i <= Len(a) THEN a[i] ELSE b[i - Len(a)]
  BY <1>4, ConcatProperties
<1>6. PICK e : e = d \o b
  OBVIOUS
<1>7. /\ e \in Seq(Byte) /\ Len(e) = Len(d) + Len(b)
      /\ \A i \in 1..Len(d) + Len(b) : e[i] = IF i <= Len(d) THEN d[i] ELSE b[i - Len(d)]
  BY <1>3, <1>6, ConcatProperties
<1>8. Len(a) \in Nat /\ Len(b) \in Nat /\ Len(d) \in Nat
  BY <1>3
<1>9. Inside(a, c, 0)
  <2>1. \A i \in 1..Len(a) : i \in 1..Len(a) + Len(b) /\ i <= Len(a) /\ 0 + i = i
    BY <1>8
  <2>2. \A i \in 1..Len(a) : a[i] = c[0 + i]
    BY <1>5, <2>1
  <2> QED BY <1>5, <1>8, <2>2 DEF Inside
<1>10. Inside(e, c, q) /\ Len(c) = q + Len(e)
  <2>1. ASSUME NEW i \in 1..Len(e) PROVE e[i] = c[q + i]
    <3>1. q + i \in 1..Len(a) + Len(b) /\ i \in 1..Len(d) + Len(b)
      BY <1>3, <1>7, <1>8
    <3>2. CASE i <= Len(d)
      <4>1. q + i <= Len(a) /\ i \in 1..Len(a) - q
        BY <1>3, <1>8, <3>2
      <4> QED BY <1>3, <1>5, <1>7, <3>1, <3>2, <4>1
    <3>3. CASE ~(i <= Len(d))
      <4>1. ~(q + i <= Len(a)) /\ q + i - Len(a) = i - Len(d)
        BY <1>3, <1>8, <3>3
      <4> QED BY <1>5, <1>7, <3>1, <3>3, <4>1, SMTT(30)
    <3> QED BY <3>2, <3>3
  <2>2. Len(c) = q + Len(e) /\ q \in Nat
    BY <1>3, <1>5, <1>7, <1>8
  <2>3. q + Len(e) <= Len(c)
    BY <1>5, <1>7, <1>8, <2>2
  <2> QED BY <1>5, <1>7, <2>1, <2>2, <2>3 DEF Inside
<1>11. PICK g : Scans(a, g) /\ Scan(a) = g[0]
  BY ScanIs
<1>12. PICK f : Scans(c, f) /\ Scan(c) = f[0]
  BY <1>5, ScanIs
<1>13. PICK h : Scans(e, h) /\ Scan(e) = h[0]
  BY <1>7, ScanIs
<1>14. \A k \in Kinds : f[0][k] = g[0][k] \o f[g[0].pos][k]
  <2>1. 0 \in 0..Len(a)
    OBVIOUS
  <2>2. Continues(a, g, f)
    BY <1>9, <1>11, <1>12, Extended
  <2> QED BY <2>1, <2>2 DEF Continues
<1>15. \A k \in Kinds : f[q][k] = h[0][k]
  <2>1. 0 \in 0..Len(e) /\ q + 0 = q
    BY <1>7
  <2>2. \A k \in Kinds : f[q + 0][k] = h[0][k]
    BY <1>10, <1>12, <1>13, <2>1, Shifted
  <2> QED BY <2>1, <2>2
<1> QED BY <1>1, <1>2, <1>4, <1>6, <1>11, <1>12, <1>13, <1>14, <1>15

-----------------------------------------------------------------------------
(* The bytes of a packet.                                                  *)

\* p is packet n of task t.
IsPacket(p, t, n) ==
  LET len == Len(Payload[t])
      covered == Covered(Cmd[t], n, Payload[t])
  IN  /\ len \in Nat /\ len <= MaxLength /\ Cmd[t] \in Byte /\ n \in Byte
      /\ p \in Seq(Byte) /\ Len(p) = len + 8
      /\ p[1] = Sync1 /\ p[2] = Sync2 /\ p[3] = Cmd[t] /\ p[4] = n
      /\ 256 * p[5] + p[6] = len
      /\ covered \in Seq(Byte) /\ Len(covered) = len + 4
      /\ \A i \in 1..len + 4 : p[i + 2] = covered[i]
      /\ 256 * p[len + 7] + p[len + 8] = Crc(covered)

\* A number of two bytes in its bytes.
LEMMA Halves ==
  ASSUME NEW w \in Word
  PROVE  w \div 256 \in Byte /\ w % 256 \in Byte /\ 256 * (w \div 256) + (w % 256) = w
<1>1. w \div 256 \in Byte
  BY DEF Word, Byte
<1>2. w % 256 \in Byte
  BY DEF Word, Byte
<1>3. 256 * (w \div 256) + (w % 256) = w
  BY DEF Word
<1> QED BY <1>1, <1>2, <1>3

LEMMA PackIs ==
  ASSUME NEW t \in Tasks, NEW n \in 1..MaxPackets
  PROVE  IsPacket(Packets[t][n], t, n)
<1>1. /\ Cmd[t] \in Byte /\ Payload[t] \in Seq(Byte) /\ MaxPackets \in Byte
      /\ Len(Payload[t]) <= MaxLength /\ MaxLength \in Word
  BY LinkAssumption
<1>2. PICK cmd \in Byte : cmd = Cmd[t]
  BY <1>1
<1>3. PICK load \in Seq(Byte) : load = Payload[t]
  BY <1>1
<1>4. PICK len \in Nat : len = Len(load)
  OBVIOUS
<1>5. len <= MaxLength /\ len \in Word
  BY <1>1, <1>3, <1>4 DEF Word
<1>6. n \in Byte
  <2>1. MaxPackets \in 0..255
    BY <1>1 DEF Byte
  <2> QED BY <2>1 DEF Byte
<1>7. PICK hi \in Byte : hi = len \div 256
  BY <1>5, Halves
<1>8. PICK lo \in Byte : lo = len % 256
  BY <1>5, Halves
<1>9. 256 * hi + lo = len
  BY <1>5, <1>7, <1>8, Halves
<1>10. PICK head \in Seq(Byte) : head = <<cmd, n, hi, lo>>
  <2>1. <<cmd, n, hi, lo>> \in Seq(Byte)
    BY <1>6
  <2> QED BY <2>1
<1>11. Len(head) = 4 /\ head[1] = cmd /\ head[2] = n /\ head[3] = hi /\ head[4] = lo
  BY <1>10
<1>12. PICK covered : covered = head \o load
  OBVIOUS
<1>13. /\ covered \in Seq(Byte) /\ Len(covered) = Len(head) + Len(load)
       /\ \A i \in 1..Len(head) + Len(load) :
            covered[i] = IF i <= Len(head) THEN head[i] ELSE load[i - Len(head)]
  BY <1>12, ConcatProperties
<1>14. Len(covered) = len + 4 /\ covered[1] = cmd /\ covered[2] = n
       /\ covered[3] = hi /\ covered[4] = lo
  <2>1. /\ 1 \in 1..Len(head) + Len(load) /\ 2 \in 1..Len(head) + Len(load)
        /\ 3 \in 1..Len(head) + Len(load) /\ 4 \in 1..Len(head) + Len(load)
    BY <1>4, <1>11
  <2> QED BY <1>4, <1>11, <1>13, <2>1
<1>15. covered = Covered(Cmd[t], n, Payload[t])
  BY <1>2, <1>3, <1>4, <1>7, <1>8, <1>10, <1>12 DEF Covered
<1>16. PICK crc \in Word : crc = Crc(covered)
  BY <1>15, CrcAssumption
<1>17. PICK high \in Byte : high = crc \div 256
  BY Halves
<1>18. PICK low \in Byte : low = crc % 256
  BY Halves
<1>19. 256 * high + low = crc
  <2>1. 256 * (crc \div 256) + (crc % 256) = crc
    BY Halves
  <2> QED BY <1>17, <1>18, <2>1
<1>20. PICK sync \in Seq(Byte) : sync = <<Sync1, Sync2>>
  <2>1. Sync1 \in Byte /\ Sync2 \in Byte
    BY DEF Sync1, Sync2, Byte
  <2>2. <<Sync1, Sync2>> \in Seq(Byte)
    BY <2>1
  <2> QED BY <2>2
<1>21. Len(sync) = 2 /\ sync[1] = Sync1 /\ sync[2] = Sync2
  BY <1>20
<1>22. PICK last \in Seq(Byte) : last = <<high, low>>
  <2>1. <<high, low>> \in Seq(Byte)
    OBVIOUS
  <2> QED BY <2>1
<1>23. Len(last) = 2 /\ last[1] = high /\ last[2] = low
  BY <1>22
<1>24. PICK most : most = sync \o covered
  OBVIOUS
<1>25. /\ most \in Seq(Byte) /\ Len(most) = Len(sync) + Len(covered)
       /\ \A i \in 1..Len(sync) + Len(covered) :
            most[i] = IF i <= Len(sync) THEN sync[i] ELSE covered[i - Len(sync)]
  BY <1>13, <1>20, <1>24, ConcatProperties
<1>26. Len(most) = len + 6 /\ most[1] = Sync1 /\ most[2] = Sync2
       /\ \A i \in 1..len + 4 : most[i + 2] = covered[i]
  <2>1. 1 \in 1..len + 6 /\ 2 \in 1..len + 6 /\ Len(sync) + Len(covered) = len + 6
    BY <1>14, <1>21
  <2>2. \A i \in 1..len + 4 : i + 2 \in 1..len + 6 /\ ~(i + 2 <= 2) /\ i + 2 - 2 = i
    OBVIOUS
  <2> QED BY <1>21, <1>25, <2>1, <2>2
<1>27. PICK p : p = most \o last
  OBVIOUS
<1>28. /\ p \in Seq(Byte) /\ Len(p) = Len(most) + Len(last)
       /\ \A i \in 1..Len(most) + Len(last) :
            p[i] = IF i <= Len(most) THEN most[i] ELSE last[i - Len(most)]
  BY <1>25, <1>27, ConcatProperties, SMTT(30)
<1>29. /\ Len(p) = len + 8 /\ \A i \in 1..len + 6 : p[i] = most[i]
       /\ p[len + 7] = high /\ p[len + 8] = low
  <2>1. /\ Len(most) + Len(last) = len + 8 /\ Len(most) = len + 6
        /\ len + 7 \in 1..len + 8 /\ len + 8 \in 1..len + 8
        /\ ~(len + 7 <= len + 6) /\ ~(len + 8 <= len + 6)
        /\ len + 7 - (len + 6) = 1 /\ len + 8 - (len + 6) = 2
        /\ \A i \in 1..len + 6 : i \in 1..len + 8 /\ i <= len + 6
    BY <1>23, <1>26
  <2>2. \A i \in 1..len + 8 : p[i] = IF i <= len + 6 THEN most[i] ELSE last[i - (len + 6)]
    BY <1>28, <2>1
  <2> QED BY <1>23, <1>28, <2>1, <2>2
<1>30. /\ p[1] = Sync1 /\ p[2] = Sync2
       /\ \A i \in 1..len + 4 : p[i + 2] = covered[i]
  <2>1. 1 \in 1..len + 6 /\ 2 \in 1..len + 6 /\ \A i \in 1..len + 4 : i + 2 \in 1..len + 6
    OBVIOUS
  <2> QED BY <1>26, <1>29, <2>1
<1>31. p[3] = cmd /\ p[4] = n /\ p[5] = hi /\ p[6] = lo
  <2>1. 1 \in 1..len + 4 /\ 2 \in 1..len + 4 /\ 3 \in 1..len + 4 /\ 4 \in 1..len + 4
    OBVIOUS
  <2>2. p[1 + 2] = covered[1] /\ p[2 + 2] = covered[2]
        /\ p[3 + 2] = covered[3] /\ p[4 + 2] = covered[4]
    BY <1>30, <2>1
  <2> QED BY <1>14, <2>2
<1>32. Packets[t][n] = p
  <2>1. Packets[t][n] = Pack(Cmd[t], n, Payload[t])
    BY DEF Packets
  <2>2. Pack(Cmd[t], n, Payload[t]) = p
    BY <1>15, <1>16, <1>17, <1>18, <1>20, <1>22, <1>24, <1>27 DEF Pack
  <2> QED BY <2>1, <2>2
<1>33. IsPacket(p, t, n)
  <2>1. Len(Payload[t]) = len /\ Covered(Cmd[t], n, Payload[t]) = covered /\ Cmd[t] = cmd
    BY <1>2, <1>3, <1>4, <1>15
  <2>2. len \in Nat /\ len <= MaxLength /\ cmd \in Byte /\ n \in Byte
    BY <1>5, <1>6
  <2>3. p \in Seq(Byte) /\ Len(p) = len + 8
    BY <1>28, <1>29
  <2>4. p[1] = Sync1 /\ p[2] = Sync2 /\ p[3] = cmd /\ p[4] = n /\ 256 * p[5] + p[6] = len
    BY <1>9, <1>30, <1>31
  <2>5. /\ covered \in Seq(Byte) /\ Len(covered) = len + 4
        /\ \A i \in 1..len + 4 : p[i + 2] = covered[i]
    BY <1>13, <1>14, <1>30
  <2>6. 256 * p[len + 7] + p[len + 8] = Crc(covered)
    BY <1>16, <1>19, <1>29
  <2> QED BY <2>1, <2>2, <2>3, <2>4, <2>5, <2>6, ZenonT(60) DEF IsPacket
<1> QED BY <1>32, <1>33

-----------------------------------------------------------------------------
(* Types and places.                                                       *)

\* Where a task is tells what it has written.
InPlace ==
  \A t \in Tasks :
    /\ pc[t] # "idle" => count[t] \in 1..MaxPackets /\ written[t] < Size(t)
    /\ pc[t] = "jtag" => retries[t] < MaxRetries
    /\ pc[t] \in {"check", "put"} => written[t] = 0

LEMMA MinOf ==
  ASSUME NEW a \in Int, NEW b \in Int
  PROVE  Min({a, b}) \in {a, b} /\ Min({a, b}) <= a /\ Min({a, b}) <= b
<1>1. \E x \in {a, b} : \A y \in {a, b} : x <= y
  <2>1. CASE a <= b
    BY <2>1
  <2>2. CASE ~(a <= b)
    BY <2>2
  <2> QED BY <2>1, <2>2
<1>2. Min({a, b}) \in {a, b} /\ \A y \in {a, b} : Min({a, b}) <= y
  BY <1>1 DEF Min
<1> QED BY <1>2

LEMMA MaxOf ==
  ASSUME NEW a \in Int, NEW b \in Int
  PROVE  Max({a, b}) \in {a, b} /\ Max({a, b}) >= a /\ Max({a, b}) >= b
<1>1. \E x \in {a, b} : \A y \in {a, b} : x >= y
  <2>1. CASE a >= b
    BY <2>1
  <2>2. CASE ~(a >= b)
    BY <2>2
  <2> QED BY <2>1, <2>2
<1>2. Max({a, b}) \in {a, b} /\ \A y \in {a, b} : Max({a, b}) >= y
  BY <1>1 DEF Max
<1> QED BY <1>2

\* The first bytes, and how they are put together with the rest.
Upto(a, n) == SubSeq(a, 1, n)

LEMMA UptoIs ==
  ASSUME NEW a \in Seq(Byte), NEW n \in 0..Len(a)
  PROVE  /\ Upto(a, n) \in Seq(Byte) /\ Len(Upto(a, n)) = n
         /\ \A i \in 1..n : Upto(a, n)[i] = a[i]
         /\ Upto(a, n) \o From(a, n) = a
<1>1. PICK one \in Int : one = 1
  OBVIOUS
<1>2. \A i \in one..n : a[i] \in Byte
  BY <1>1
<1>3. PICK s : s = SubSeq(a, one, n)
  OBVIOUS
<1>4. /\ s \in Seq(Byte) /\ Len(s) = (IF one <= n THEN n - one + 1 ELSE 0)
      /\ \A i \in 1..n - one + 1 : s[i] = a[one + i - 1]
  BY <1>1, <1>2, <1>3, SubSeqProperties
<1>5. /\ (IF one <= n THEN n - one + 1 ELSE 0) = n /\ n - one + 1 = n
      /\ \A i \in 1..n : one + i - 1 = i
  BY <1>1
<1>6. /\ s \in Seq(Byte) /\ Len(s) = n /\ \A i \in 1..n : s[i] = a[i]
  BY <1>4, <1>5
<1>7. SubSeq(a, 1, n) \o SubSeq(a, n + 1, Len(a)) = SubSeq(a, 1, Len(a))
  <2>1. 1 \in 1..Len(a) + 1 /\ n \in 1 - 1..Len(a) /\ Len(a) \in n..Len(a)
    OBVIOUS
  <2> QED BY <2>1, ConcatAdjacentSubSeq
<1>8. SubSeq(a, 1, Len(a)) = a
  BY SubSeqFull
<1> QED BY <1>1, <1>3, <1>6, <1>7, <1>8 DEF Upto, From

\* The bytes a task gives to a port.
Piece(t, n) == SubSeq(Data(t), written[t] + 1, written[t] + n)

LEMMA PieceIs ==
  ASSUME NEW t \in Tasks, count[t] \in 1..MaxPackets, written[t] \in Nat,
         NEW n \in Nat, written[t] + n <= Size(t)
  PROVE  /\ Data(t) \in Seq(Byte) /\ Len(Data(t)) = Size(t)
         /\ Piece(t, n) \in Seq(Byte) /\ Len(Piece(t, n)) = n
         /\ Upto(Data(t), written[t]) \o Piece(t, n) = Upto(Data(t), written[t] + n)
<1>1. PICK p : p = Data(t)
  OBVIOUS
<1>2. p \in Seq(Byte) /\ Len(p) = Size(t) /\ Size(t) \in Nat
  <2>1. IsPacket(p, t, count[t])
    BY <1>1, PackIs DEF Data
  <2> QED BY <2>1 DEF IsPacket, Size
<1>3. PICK w \in Nat : w = written[t]
  OBVIOUS
<1>4. PICK lo \in Int : lo = w + 1
  OBVIOUS
<1>5. PICK hi \in Int : hi = w + n
  OBVIOUS
<1>6. \A i \in lo..hi : p[i] \in Byte
  BY <1>2, <1>3, <1>4, <1>5
<1>7. PICK s : s = SubSeq(p, lo, hi)
  OBVIOUS
<1>8. /\ s \in Seq(Byte) /\ Len(s) = (IF lo <= hi THEN hi - lo + 1 ELSE 0)
      /\ \A i \in 1..hi - lo + 1 : s[i] = p[lo + i - 1]
  BY <1>2, <1>6, <1>7, SubSeqProperties
<1>9. /\ (IF lo <= hi THEN hi - lo + 1 ELSE 0) = n /\ hi - lo + 1 = n
      /\ \A i \in 1..n : lo + i - 1 = w + i
  BY <1>4, <1>5
<1>10. s \in Seq(Byte) /\ Len(s) = n /\ \A i \in 1..n : s[i] = p[w + i]
  BY <1>8, <1>9
<1>11. SubSeq(p, 1, w) \o SubSeq(p, w + 1, hi) = SubSeq(p, 1, hi)
  <2>1. 1 \in 1..Len(p) + 1 /\ w \in 1 - 1..Len(p) /\ hi \in w..Len(p)
    BY <1>2, <1>3, <1>5
  <2> QED BY <1>2, <2>1, ConcatAdjacentSubSeq
<1>12. s = Piece(t, n)
  BY <1>1, <1>3, <1>4, <1>5, <1>7 DEF Piece
<1> QED BY <1>1, <1>2, <1>3, <1>4, <1>5, <1>7, <1>10, <1>11, <1>12 DEF Upto

\* The number of a packet is a byte.
LEMMA Numbered == MaxPackets \in 0..255 /\ \A n \in 1..MaxPackets : n \in Byte
<1>1. MaxPackets \in Byte
  BY LinkAssumption
<1> QED BY <1>1 DEF Byte

\* What a task gives to a port, and to the host's port.
Adds(p, x) ==
  /\ x \in Seq(Byte)
  /\ buffer' = [buffer EXCEPT ![p] = @ \o x]
  /\ wire' = IF p = HostPort THEN wire \o x ELSE wire

LEMMA PutIs ==
  ASSUME TypeOK, InPlace, NEW t \in Tasks, pc[t] # "idle", NEW p \in Ports,
         NEW n \in Nat, n <= Left(t), n <= Free(p), Put(t, p, n)
  PROVE  /\ Adds(p, Piece(t, n)) /\ Len(Piece(t, n)) = n
         /\ written' = [written EXCEPT ![t] = @ + n]
         /\ written' \in [Tasks -> Nat] /\ \A u \in Tasks : written'[u] <= Size(u)
         /\ done' \in [Kinds -> Found] /\ torn' \in BOOLEAN
<1>1. /\ written[t] \in Nat /\ count[t] \in 1..MaxPackets /\ Size(t) \in Nat
      /\ written[t] + n <= Size(t)
  <2>1. written[t] \in Nat /\ count[t] \in 1..MaxPackets
    BY DEF TypeOK, InPlace
  <2>2. Size(t) \in Nat
    BY LinkAssumption DEF Size
  <2>3. n <= Size(t) - written[t]
    BY DEF Left
  <2> QED BY <2>1, <2>2, <2>3
<1>2. Piece(t, n) \in Seq(Byte) /\ Len(Piece(t, n)) = n
  BY <1>1, PieceIs
<1>3. Adds(p, Piece(t, n))
  BY <1>2 DEF Put, Adds, Piece, history
<1>4. written' = [written EXCEPT ![t] = @ + n]
  BY DEF Put
<1>5. written' \in [Tasks -> Nat] /\ \A u \in Tasks : written'[u] <= Size(u)
  BY <1>1, <1>4 DEF TypeOK
<1>6. done' \in [Kinds -> Found]
  <2>1. done \in [Kinds -> Found]
    BY DEF TypeOK, Found
  <2>2. done' = done \/ done' = Finish(t)
    BY DEF Put, history
  <2>3. Finish(t) \in [Kinds -> Found]
    <3>1. PICK kind \in Kinds : kind = Kind(Cmd[t], Len(Payload[t]))
      BY DEF Kind, Kinds
    <3>2. PICK x \in Byte \X Byte : x = <<Cmd[t], count[t]>>
      <4>1. Cmd[t] \in Byte
        BY LinkAssumption
      <4>2. count[t] \in Byte
        BY <1>1, Numbered
      <4> QED BY <4>1, <4>2
    <3>3. Append(done[kind], x) \in Found
      BY <2>1 DEF Found
    <3>4. Finish(t) = [done EXCEPT ![kind] = Append(done[kind], x)]
      BY <3>1, <3>2 DEF Finish
    <3> QED BY <2>1, <3>3, <3>4
  <2> QED BY <2>1, <2>2, <2>3
<1>7. torn' \in BOOLEAN
  BY Zenon DEF Put, history, TypeOK
<1> QED BY <1>2, <1>3, <1>4, <1>5, <1>6, <1>7

\* A port with room takes them.
LEMMA AddsFit ==
  ASSUME TypeOK, NEW p \in Ports, NEW x, Adds(p, x), Len(x) <= Free(p)
  PROVE  /\ buffer' \in [Ports -> Seq(Byte)] /\ \A q \in Ports : Len(buffer'[q]) <= Room[q]
         /\ wire' \in Seq(Byte)
         /\ buffer'[HostPort] =
              IF p = HostPort THEN buffer[HostPort] \o x ELSE buffer[HostPort]
<1>1. /\ x \in Seq(Byte) /\ buffer \in [Ports -> Seq(Byte)] /\ wire \in Seq(Byte)
      /\ HostPort \in Ports /\ Room[p] \in Nat /\ Len(x) <= Room[p] - Len(buffer[p])
      /\ \A q \in Ports : Len(buffer[q]) <= Room[q]
  BY LinkAssumption DEF Adds, TypeOK, Free
<1>2. PICK b \in Seq(Byte) : b = buffer[p] \o x
  <2>1. buffer[p] \in Seq(Byte)
    BY <1>1
  <2>2. buffer[p] \o x \in Seq(Byte)
    BY <1>1, <2>1
  <2> QED BY <2>2
<1>3. Len(b) <= Room[p]
  BY <1>1, <1>2
<1>4. buffer' = [buffer EXCEPT ![p] = b]
  BY <1>2 DEF Adds
<1>5. buffer' \in [Ports -> Seq(Byte)] /\ \A q \in Ports : Len(buffer'[q]) <= Room[q]
  BY <1>1, <1>3, <1>4
<1>6. wire' \in Seq(Byte)
  BY <1>1 DEF Adds
<1>7. buffer'[HostPort] = IF p = HostPort THEN buffer[HostPort] \o x ELSE buffer[HostPort]
  BY <1>1, <1>2, <1>4
<1> QED BY <1>5, <1>6, <1>7

\* What stays when a task takes a step: the part of TypeOK that is not its own.
TaskStep(t) ==
  /\ plugs' = plugs /\ connected' = connected
  /\ toRead' = toRead /\ inBuf' = inBuf /\ taken' = taken
  /\ count' \in [Tasks -> 0..MaxPackets] /\ retries' \in [Tasks -> 0..MaxRetries]
  /\ pc' \in [Tasks -> {"idle", "jtag", "check", "put", "blocked"}]
  /\ written' \in [Tasks -> Nat] /\ \A u \in Tasks : written'[u] <= Size(u)
  /\ \A u \in Tasks \ {t} :
       /\ pc'[u] = pc[u] /\ count'[u] = count[u] /\ retries'[u] = retries[u]
       /\ written'[u] = written[u]

\* A task begins a packet.
LEMMA BeginTypes ==
  ASSUME TypeOK, InPlace, NEW t \in Tasks, Begin(t)
  PROVE  TypeOK' /\ InPlace' /\ TaskStep(t)
<1>1. /\ pc[t] = "idle" /\ count[t] < MaxPackets
      /\ pc' = [pc EXCEPT ![t] = IF connected THEN "jtag" ELSE "check"]
      /\ count' = [count EXCEPT ![t] = @ + 1]
      /\ written' = [written EXCEPT ![t] = 0] /\ retries' = [retries EXCEPT ![t] = 0]
      /\ UNCHANGED <<connected, buffer, toRead, inBuf, taken, wire, done, torn, plugs>>
  BY DEF Begin, host, history
<1>2. \A u \in Tasks : Size(u) \in Nat /\ Size(u) > 0
  BY LinkAssumption DEF Size
<1>3. count[t] \in 0..MaxPackets /\ MaxPackets \in Nat
  BY Numbered DEF TypeOK
<1>4. TaskStep(t)
  <2>1. count' \in [Tasks -> 0..MaxPackets]
    BY <1>1, <1>3 DEF TypeOK
  <2>2. retries' \in [Tasks -> 0..MaxRetries]
    BY <1>1 DEF TypeOK, MaxRetries
  <2>3. written' \in [Tasks -> Nat] /\ \A u \in Tasks : written'[u] <= Size(u)
    BY <1>1, <1>2 DEF TypeOK
  <2>4. pc' \in [Tasks -> {"idle", "jtag", "check", "put", "blocked"}]
    BY <1>1 DEF TypeOK
  <2>5. \A u \in Tasks \ {t} : /\ pc'[u] = pc[u] /\ count'[u] = count[u]
                               /\ retries'[u] = retries[u] /\ written'[u] = written[u]
    BY <1>1 DEF TypeOK
  <2> QED BY <1>1, <2>1, <2>2, <2>3, <2>4, <2>5 DEF TaskStep
<1>5. TypeOK'
  BY <1>1, <1>4 DEF TypeOK, TaskStep, Size
<1>6. InPlace'
  <2>1. /\ pc'[t] \in {"jtag", "check"} /\ count'[t] \in 1..MaxPackets
        /\ written'[t] = 0 /\ retries'[t] = 0
    BY <1>1, <1>3 DEF TypeOK
  <2>2. 0 < MaxRetries
    BY DEF MaxRetries
  <2> QED BY <1>2, <1>4, <2>1, <2>2 DEF InPlace, TaskStep, Size
<1> QED BY <1>4, <1>5, <1>6

\* A task gives a piece of its packet to a port.
LEMMA PutTypes ==
  ASSUME TypeOK, InPlace, NEW t \in Tasks, pc[t] # "idle", NEW p \in Ports,
         NEW n \in Nat, n <= Left(t), n <= Free(p), Put(t, p, n),
         UNCHANGED <<connected, retries, count, host, plugs>>,
         NEW place \in {"jtag", "blocked"}, place = "jtag" => pc[t] = "jtag",
         pc' = [pc EXCEPT ![t] = IF n = Left(t) THEN "idle" ELSE place]
  PROVE  TypeOK' /\ InPlace' /\ TaskStep(t)
<1>1. /\ Adds(p, Piece(t, n)) /\ Len(Piece(t, n)) = n
      /\ written' = [written EXCEPT ![t] = @ + n]
      /\ written' \in [Tasks -> Nat] /\ \A u \in Tasks : written'[u] <= Size(u)
      /\ done' \in [Kinds -> Found] /\ torn' \in BOOLEAN
  BY PutIs
<1>2. /\ buffer' \in [Ports -> Seq(Byte)] /\ \A q \in Ports : Len(buffer'[q]) <= Room[q]
      /\ wire' \in Seq(Byte)
  BY <1>1, AddsFit
<1>3. UNCHANGED <<connected, retries, count, toRead, inBuf, taken, plugs>>
  BY DEF host
<1>4. pc' \in [Tasks -> {"idle", "jtag", "check", "put", "blocked"}]
      /\ \A u \in Tasks \ {t} : pc'[u] = pc[u] /\ written'[u] = written[u]
  BY <1>1 DEF TypeOK
<1>5. TaskStep(t)
  BY <1>1, <1>3, <1>4 DEF TaskStep, TypeOK
<1>6. TypeOK'
  BY <1>1, <1>2, <1>3, <1>4 DEF TypeOK, Found, Size
<1>7. InPlace'
  <2>1. pc'[t] # "idle" => /\ pc'[t] = place /\ n # Left(t)
    BY DEF TypeOK
  <2>2. pc'[t] # "idle" => written'[t] < Size(t)
    <3>1. written'[t] = written[t] + n /\ written[t] \in Nat
      BY <1>1 DEF TypeOK
    <3>2. Size(t) \in Nat
      BY LinkAssumption DEF Size
    <3> QED BY <2>1, <3>1, <3>2 DEF Left
  <2>3. count[t] \in 1..MaxPackets
    BY DEF InPlace
  <2>4. pc'[t] = "jtag" => retries'[t] < MaxRetries
    BY <1>3, <2>1 DEF InPlace
  <2>5. pc'[t] \notin {"check", "put"}
    BY <2>1
  <2>6. ASSUME NEW u \in Tasks, u # t
        PROVE  /\ pc'[u] # "idle" => count'[u] \in 1..MaxPackets /\ written'[u] < Size(u)
               /\ pc'[u] = "jtag" => retries'[u] < MaxRetries
               /\ pc'[u] \in {"check", "put"} => written'[u] = 0
    BY <1>3, <1>4, <2>6 DEF InPlace
  <2> QED BY <1>3, <2>2, <2>3, <2>4, <2>5, <2>6 DEF InPlace, Size
<1> QED BY <1>5, <1>6, <1>7

\* The driver takes a piece.
LEMMA AcceptPuts ==
  ASSUME TypeOK, InPlace, NEW t \in Tasks, Accept(t)
  PROVE  \E n \in 1..Left(t) :
           /\ Put(t, "jtag", n) /\ n <= Free("jtag") /\ n \in Nat
           /\ pc' = [pc EXCEPT ![t] = IF n = Left(t) THEN "idle" ELSE "jtag"]
<1>1. Left(t) \in Int
  BY LinkAssumption DEF Left, Size, TypeOK
<1>2. PICK n \in 1..Left(t) :
        /\ Put(t, "jtag", n) /\ n <= Free("jtag")
        /\ pc' = [pc EXCEPT ![t] = IF n = Left(t) THEN "idle" ELSE "jtag"]
  BY Zenon DEF Accept
<1>3. n \in Nat
  BY <1>1
<1> QED BY <1>2, <1>3, Zenon

LEMMA AcceptTypes ==
  ASSUME TypeOK, InPlace, NEW t \in Tasks, Accept(t)
  PROVE  TypeOK' /\ InPlace' /\ TaskStep(t)
<1>1. Left(t) \in Int
  BY LinkAssumption DEF Left, Size, TypeOK
<1>2. PICK n \in 1..Left(t) :
        /\ Put(t, "jtag", n) /\ n <= Free("jtag") /\ n \in Nat
        /\ pc' = [pc EXCEPT ![t] = IF n = Left(t) THEN "idle" ELSE "jtag"]
  BY AcceptPuts
<1>3. /\ pc[t] = "jtag" /\ "jtag" \in Ports /\ n <= Left(t)
      /\ UNCHANGED <<connected, retries, count, host, plugs>>
  BY <1>1 DEF Accept, Ports
<1> QED BY <1>2, <1>3, PutTypes

\* So does the UART.
LEMMA UartPuts ==
  ASSUME TypeOK, InPlace, NEW t \in Tasks, UartWrite(t)
  PROVE  \E n \in Nat :
           /\ n <= Left(t) /\ n <= Free("uart") /\ Put(t, "uart", n)
           /\ pc' = [pc EXCEPT ![t] = IF n = Left(t) THEN "idle" ELSE "blocked"]
<1>1. PICK n : n = Min({Left(t), Free("uart")})
  OBVIOUS
<1>2. Left(t) \in Nat /\ Free("uart") \in Nat
  <2>1. Left(t) \in Nat
    BY LinkAssumption DEF Left, Size, TypeOK
  <2>2. /\ buffer["uart"] \in Seq(Byte) /\ Room["uart"] \in Nat
        /\ Len(buffer["uart"]) <= Room["uart"]
    BY LinkAssumption DEF TypeOK, Ports
  <2> QED BY <2>1, <2>2 DEF Free
<1>3. n \in Nat /\ n <= Left(t) /\ n <= Free("uart")
  BY <1>1, <1>2, MinOf
<1> QED BY <1>1, <1>3 DEF UartWrite

LEMMA UartTypes ==
  ASSUME TypeOK, InPlace, NEW t \in Tasks, UartWrite(t)
  PROVE  TypeOK' /\ InPlace' /\ TaskStep(t)
<1>1. PICK n \in Nat :
        /\ n <= Left(t) /\ n <= Free("uart") /\ Put(t, "uart", n)
        /\ pc' = [pc EXCEPT ![t] = IF n = Left(t) THEN "idle" ELSE "blocked"]
  BY UartPuts
<1>2. /\ pc[t] # "idle" /\ "uart" \in Ports
      /\ UNCHANGED <<connected, retries, count, host, plugs>>
  BY DEF UartWrite, Ports
<1> QED BY <1>1, <1>2, PutTypes

\* The driver refuses, or there is no room for the packet.
LEMMA OtherTypes ==
  ASSUME TypeOK, InPlace, NEW t \in Tasks, Refuse(t) \/ Check(t)
  PROVE  /\ TypeOK' /\ InPlace' /\ TaskStep(t)
         /\ UNCHANGED <<buffer, inBuf, taken, wire, done, written, count>>
<1>1. CASE Refuse(t)
  <2>1. /\ pc[t] = "jtag" /\ retries' = [retries EXCEPT ![t] = @ + 1]
        /\ pc' = [pc EXCEPT ![t] = IF retries[t] + 1 < MaxRetries THEN "jtag" ELSE "idle"]
        /\ UNCHANGED <<connected, written, count, buffer, wire, done, plugs>>
        /\ UNCHANGED <<toRead, inBuf, taken>>
    BY <1>1 DEF Refuse, host
  <2>2. torn' \in BOOLEAN
    BY <1>1, Zenon DEF Refuse, TypeOK
  <2>3. retries[t] \in 0..MaxRetries /\ retries[t] < MaxRetries /\ MaxRetries = 3
    BY <2>1 DEF TypeOK, InPlace, MaxRetries
  <2>4. retries' \in [Tasks -> 0..MaxRetries]
    BY <2>1, <2>3 DEF TypeOK
  <2>5. pc' \in [Tasks -> {"idle", "jtag", "check", "put", "blocked"}]
    BY <2>1 DEF TypeOK
  <2>6. \A u \in Tasks \ {t} : pc'[u] = pc[u] /\ retries'[u] = retries[u]
    BY <2>1 DEF TypeOK
  <2>7. TypeOK'
    BY <2>1, <2>2, <2>4, <2>5 DEF TypeOK, Size
  <2>8. pc'[t] = "idle" \/ (pc'[t] = "jtag" /\ retries'[t] < MaxRetries)
    BY <2>1, <2>3 DEF TypeOK
  <2>9. InPlace'
    BY <2>1, <2>6, <2>8 DEF InPlace, Size
  <2>10. TaskStep(t)
    BY <2>1, <2>4, <2>5, <2>6 DEF TaskStep, TypeOK
  <2> QED BY <2>1, <2>7, <2>9, <2>10
<1>2. CASE Check(t)
  <2>1. /\ pc[t] = "check"
        /\ pc' = [pc EXCEPT ![t] = IF Free("uart") >= Size(t) THEN "put" ELSE "idle"]
        /\ UNCHANGED <<connected, written, retries, count, buffer, plugs>>
        /\ UNCHANGED <<toRead, inBuf, taken, wire, done, torn>>
    BY <1>2 DEF Check, host, history
  <2>2. pc' \in [Tasks -> {"idle", "jtag", "check", "put", "blocked"}]
    BY <2>1 DEF TypeOK
  <2>3. /\ pc'[t] \in {"put", "idle"} /\ written[t] = 0
        /\ \A u \in Tasks \ {t} : pc'[u] = pc[u]
    BY <2>1 DEF TypeOK, InPlace
  <2>4. TypeOK'
    BY <2>1, <2>2 DEF TypeOK, Size
  <2>5. InPlace'
    BY <2>1, <2>3 DEF InPlace, Size
  <2>6. TaskStep(t)
    BY <2>1, <2>2, <2>3 DEF TaskStep, TypeOK
  <2> QED BY <2>1, <2>4, <2>5, <2>6
<1> QED BY <1>1, <1>2

\* The host reads the first bytes of its port's buffer, scans them behind what
\* it kept, and keeps the rest.
Reads(n, a) ==
  /\ n \in 0..Len(buffer[HostPort])
  /\ a = inBuf \o Upto(buffer[HostPort], n) /\ a \in Seq(Byte)
  /\ buffer' = [buffer EXCEPT ![HostPort] = From(buffer[HostPort], n)]
  /\ inBuf' = From(a, Scan(a).pos)
  /\ taken' = [k \in Kinds |-> taken[k] \o Scan(a)[k]]

LEMMA ReadIs == ASSUME TypeOK, Read PROVE \E n, a : Reads(n, a)
<1>1. PICK b \in Seq(Byte) : b = buffer[HostPort]
  BY LinkAssumption DEF TypeOK
<1>2. PICK n : n = Min({toRead, Len(b)})
  OBVIOUS
<1>3. n \in 0..Len(b)
  <2>1. PICK m \in Nat : m = Len(b)
    OBVIOUS
  <2>2. PICK r \in Nat : r = toRead
    BY DEF TypeOK
  <2>3. /\ Min({r, m}) = r \/ Min({r, m}) = m
        /\ Min({r, m}) <= m
        /\ 0 <= r /\ 0 <= m
    <3>1. r \in Int /\ m \in Int
      OBVIOUS
    <3>2. Min({r, m}) \in {r, m} /\ Min({r, m}) <= m
      BY <3>1, MinOf, Zenon
    <3> QED BY <3>2
  <2>4. n = Min({r, m})
    BY <1>2, <2>1, <2>2
  <2> QED BY <2>1, <2>3, <2>4
<1>4. PICK s \in Seq(Byte) : s = Upto(b, n)
  BY <1>3, UptoIs
<1>5. PICK a \in Seq(Byte) : a = inBuf \o s
  <2>1. inBuf \in Seq(Byte)
    BY DEF TypeOK
  <2>2. inBuf \o s \in Seq(Byte)
    BY <2>1
  <2> QED BY <2>2
<1>6. /\ buffer' = [buffer EXCEPT ![HostPort] = From(b, n)]
      /\ inBuf' = From(a, Scan(a).pos)
      /\ taken' = [k \in Kinds |-> taken[k] \o Scan(a)[k]]
  BY <1>1, <1>2, <1>4, <1>5 DEF Read, From, Upto
<1> QED BY <1>1, <1>3, <1>4, <1>5, <1>6 DEF Reads

\* The steps of the host and of the cable.
LEMMA HostTypes ==
  ASSUME TypeOK, InPlace, Plug \/ Unheard \/ Peek \/ Read
  PROVE  TypeOK' /\ InPlace' /\ UNCHANGED <<pc, written, retries, count, wire, done, torn>>
<1>0. UNCHANGED <<pc, written, retries, count, wire, done, torn>>
  BY DEF Plug, Unheard, Peek, Read, task, history
<1>1. InPlace'
  BY <1>0 DEF InPlace, Size
<1>2. CASE Plug
  <2>1. UNCHANGED <<buffer, toRead, inBuf, taken>>
    BY <1>2 DEF Plug, host
  <2>2. connected' \in BOOLEAN
    BY <1>2, Zenon DEF Plug, TypeOK
  <2>3. plugs' \in 0..MaxPlugs
    <3>1. MaxPlugs \in Nat
      BY LinkAssumption
    <3> QED BY <1>2, <3>1 DEF Plug, TypeOK
  <2> QED BY <1>0, <1>1, <2>1, <2>2, <2>3 DEF TypeOK, Size
<1>3. CASE Unheard
  <2>1. UNCHANGED <<connected, plugs, toRead, inBuf, taken>>
    BY <1>3 DEF Unheard, host
  <2>2. \A p \in Ports : Room[p] \in Nat
    BY LinkAssumption
  <2>3. buffer' \in [Ports -> Seq(Byte)] /\ \A p \in Ports : Len(buffer'[p]) <= Room[p]
    <3>1. buffer' = [buffer EXCEPT !["uart"] = <<>>]
      BY <1>3 DEF Unheard
    <3>2. <<>> \in Seq(Byte) /\ Len(<<>>) = 0
      OBVIOUS
    <3>3. /\ buffer \in [Ports -> Seq(Byte)]
          /\ \A p \in Ports : Len(buffer[p]) <= Room[p]
      BY DEF TypeOK
    <3>4. buffer' \in [Ports -> Seq(Byte)]
      BY <3>1, <3>2, <3>3
    <3>5. ASSUME NEW p \in Ports PROVE Len(buffer'[p]) <= Room[p]
      <4>1. buffer'[p] = IF p = "uart" THEN <<>> ELSE buffer[p]
        BY <3>1, <3>3
      <4> QED BY <2>2, <3>2, <3>3, <4>1
    <3> QED BY <3>4, <3>5
  <2> QED BY <1>0, <1>1, <2>1, <2>3 DEF TypeOK, Size
<1>4. CASE Peek
  <2>1. UNCHANGED <<connected, plugs, buffer, inBuf, taken>>
    BY <1>4 DEF Peek
  <2>2. toRead' \in Nat
    <3>1. PICK n \in Nat : n = Len(buffer[HostPort])
      BY LinkAssumption DEF TypeOK
    <3>2. 1 \in Int /\ n \in Int
      OBVIOUS
    <3>3. Max({1, n}) \in {1, n}
      BY <3>2, MaxOf, Zenon
    <3>4. toRead' = Max({1, n})
      BY <1>4, <3>1 DEF Peek
    <3> QED BY <3>3, <3>4
  <2> QED BY <1>0, <1>1, <2>1, <2>2 DEF TypeOK, Size
<1>5. CASE Read
  <2>1. PICK n, a : Reads(n, a)
    BY <1>5, ReadIs
  <2>2. UNCHANGED <<connected, plugs>> /\ toRead' \in Nat
    BY <1>5 DEF Read
  <2>3. buffer \in [Ports -> Seq(Byte)] /\ HostPort \in Ports
    BY LinkAssumption DEF TypeOK
  <2>4. PICK b \in Seq(Byte) : b = From(buffer[HostPort], n)
    BY <2>1, <2>3, FromIs DEF Reads
  <2>5. Len(b) <= Len(buffer[HostPort]) /\ buffer' = [buffer EXCEPT ![HostPort] = b]
    <3>1. Len(b) = Len(buffer[HostPort]) - n
      BY <2>1, <2>3, <2>4, FromIs DEF Reads
    <3> QED BY <2>1, <2>3, <2>4, <3>1 DEF Reads
  <2>6. buffer' \in [Ports -> Seq(Byte)] /\ \A p \in Ports : Len(buffer'[p]) <= Room[p]
    <3>1. \A p \in Ports : Room[p] \in Nat /\ Len(buffer[p]) <= Room[p]
      BY LinkAssumption DEF TypeOK
    <3> QED BY <2>3, <2>5, <3>1
  <2>7. inBuf' \in Seq(Byte)
    <3>1. a \in Seq(Byte) /\ Scan(a).pos \in 0..Len(a)
      BY <2>1, ScanResult DEF Reads
    <3> QED BY <2>1, <3>1, FromIs DEF Reads
  <2>8. taken' \in [Kinds -> Found]
    <3>1. \A k \in Kinds : taken[k] \in Found /\ Scan(a)[k] \in Found
      BY <2>1, ScanResult DEF Reads, TypeOK, Found
    <3>2. \A k \in Kinds : taken[k] \o Scan(a)[k] \in Found
      BY <3>1, FoundConcat
    <3> QED BY <2>1, <3>2 DEF Reads
  <2> QED BY <1>0, <1>1, <2>2, <2>6, <2>7, <2>8 DEF TypeOK, Found, Size
<1> QED BY <1>0, <1>1, <1>2, <1>3, <1>4, <1>5

\* Every variable keeps its type, and the buffers their sizes.
THEOREM Types == Spec => [](TypeOK /\ InPlace)
<1>1. Init => TypeOK /\ InPlace
  <2> SUFFICES ASSUME Init PROVE TypeOK /\ InPlace
    OBVIOUS
  <2>1. /\ connected \in BOOLEAN /\ torn \in BOOLEAN
    BY Zenon DEF Init
  <2>2. plugs \in 0..MaxPlugs /\ count \in [Tasks -> 0..MaxPackets]
    BY LinkAssumption, Numbered DEF Init
  <2>3. /\ pc \in [Tasks -> {"idle", "jtag", "check", "put", "blocked"}]
        /\ retries \in [Tasks -> 0..MaxRetries] /\ written \in [Tasks -> Nat]
        /\ \A t \in Tasks : pc[t] = "idle" /\ written[t] = 0
    BY DEF Init, MaxRetries
  <2>4. \A t \in Tasks : 0 <= Size(t)
    BY LinkAssumption DEF Size
  <2>5. buffer \in [Ports -> Seq(Byte)] /\ \A p \in Ports : Len(buffer[p]) <= Room[p]
    <3>1. \A p \in Ports : Room[p] \in Nat
      BY LinkAssumption
    <3> QED BY <3>1 DEF Init
  <2>6. toRead \in Nat /\ inBuf \in Seq(Byte) /\ wire \in Seq(Byte)
    BY DEF Init
  <2>7. taken \in [Kinds -> Seq(Byte \X Byte)] /\ done \in [Kinds -> Seq(Byte \X Byte)]
    BY DEF Init, None
  <2> QED BY <2>1, <2>2, <2>3, <2>4, <2>5, <2>6, <2>7 DEF TypeOK, InPlace
<1>2. TypeOK /\ InPlace /\ [Next]_vars => TypeOK' /\ InPlace'
  <2> SUFFICES ASSUME TypeOK, InPlace, [Next]_vars PROVE TypeOK' /\ InPlace'
    OBVIOUS
  <2>1. ASSUME NEW t \in Tasks, Begin(t) PROVE TypeOK' /\ InPlace'
    BY <2>1, BeginTypes
  <2>2. ASSUME NEW t \in Tasks, WriteStep(t) PROVE TypeOK' /\ InPlace'
    BY <2>2, AcceptTypes, UartTypes, OtherTypes DEF WriteStep
  <2>3. CASE Plug \/ Unheard \/ Peek \/ Read
    BY <2>3, HostTypes
  <2>4. CASE UNCHANGED vars
    BY <2>4 DEF vars, task, host, history, TypeOK, InPlace, Size
  <2> QED BY <2>1, <2>2, <2>3, <2>4 DEF Next
<1> QED BY <1>1, <1>2, PTL DEF Spec

-----------------------------------------------------------------------------
(* What the host finds does not depend on the pieces the stream comes in.  *)

\* Whatever comes next, the host will have found what one pass over the
\* stream would find.
Chunks ==
  \A x \in Seq(Byte), k \in Kinds :
    taken[k] \o Scan(inBuf \o (buffer[HostPort] \o x))[k] = Scan(wire \o x)[k]

\* Bytes put together are bytes.
LEMMA Joined == \A x, y \in Seq(Byte) : x \o y \in Seq(Byte)
  OBVIOUS

\* Nothing changes nothing.
LEMMA NothingJoined ==
  \A x \in Seq(Byte) : <<>> \o x = x /\ x \o <<>> = x
  OBVIOUS

\* More bytes in the port's buffer are more bytes of the stream.
LEMMA ChunksAdd ==
  ASSUME TypeOK, Chunks, NEW p \in Ports, NEW y, Adds(p, y), Len(y) <= Free(p),
         inBuf' = inBuf, taken' = taken
  PROVE  Chunks'
<1>1. /\ y \in Seq(Byte) /\ buffer[HostPort] \in Seq(Byte) /\ wire \in Seq(Byte)
      /\ inBuf \in Seq(Byte)
  BY LinkAssumption DEF Adds, TypeOK
<1>2. buffer'[HostPort] = IF p = HostPort THEN buffer[HostPort] \o y ELSE buffer[HostPort]
  BY AddsFit
<1>3. ASSUME NEW x \in Seq(Byte), NEW k \in Kinds
      PROVE  taken'[k] \o Scan(inBuf' \o (buffer'[HostPort] \o x))[k] = Scan(wire' \o x)[k]
  <2>1. CASE p = HostPort
    <3>1. PICK z \in Seq(Byte) : z = y \o x
      BY <1>1, <1>3, Joined
    <3>2. (buffer[HostPort] \o y) \o x = buffer[HostPort] \o z
      <4>1. PICK b \in Seq(Byte) : b = buffer[HostPort]
        BY <1>1
      <4>2. Regroups(b, y, x)
        BY <1>1, <1>3, BytesRegroup
      <4> QED BY <3>1, <4>1, <4>2 DEF Regroups
    <3>3. (wire \o y) \o x = wire \o z
      <4>1. Regroups(wire, y, x)
        BY <1>1, <1>3, BytesRegroup
      <4> QED BY <3>1, <4>1 DEF Regroups
    <3>4. taken[k] \o Scan(inBuf \o (buffer[HostPort] \o z))[k] = Scan(wire \o z)[k]
      BY <3>1 DEF Chunks
    <3>5. wire' = wire \o y
      BY <2>1 DEF Adds
    <3> QED BY <1>2, <2>1, <3>2, <3>3, <3>4, <3>5
  <2>2. CASE p # HostPort
    <3>1. wire' = wire
      BY <2>2 DEF Adds
    <3> QED BY <1>2, <1>3, <2>2, <3>1 DEF Chunks
  <2> QED BY <2>1, <2>2
<1> QED BY <1>3 DEF Chunks

\* A read goes on where the last one stopped.
LEMMA ChunksRead ==
  ASSUME TypeOK, Chunks, NEW n, NEW a, Reads(n, a), wire' = wire
  PROVE  Chunks'
<1>1. PICK b \in Seq(Byte) : b = buffer[HostPort]
  BY LinkAssumption DEF TypeOK
<1>2. /\ n \in 0..Len(b) /\ a = inBuf \o Upto(b, n) /\ a \in Seq(Byte)
      /\ buffer' = [buffer EXCEPT ![HostPort] = From(b, n)]
      /\ inBuf' = From(a, Scan(a).pos)
      /\ taken' = [k \in Kinds |-> taken[k] \o Scan(a)[k]]
  BY <1>1 DEF Reads
<1>3. PICK head \in Seq(Byte) : head = Upto(b, n)
  BY <1>2, UptoIs
<1>4. PICK tail \in Seq(Byte) : tail = From(b, n)
  BY <1>2, FromIs
<1>5. head \o tail = b
  BY <1>2, <1>3, <1>4, UptoIs
<1>6. buffer'[HostPort] = tail
  <2>1. buffer \in [Ports -> Seq(Byte)] /\ HostPort \in Ports
    BY LinkAssumption DEF TypeOK
  <2> QED BY <1>2, <1>4, <2>1
<1>7. inBuf \in Seq(Byte)
  BY DEF TypeOK
<1>8. PICK e \in Seq(Byte) : e = From(a, Scan(a).pos)
  BY <1>2, ScanResult, FromIs
<1>9. ASSUME NEW x \in Seq(Byte), NEW k \in Kinds
      PROVE  taken'[k] \o Scan(inBuf' \o (buffer'[HostPort] \o x))[k] = Scan(wire' \o x)[k]
  <2>1. PICK r \in Seq(Byte) : r = tail \o x
    BY <1>9, Joined
  <2>2. a \o r = inBuf \o (b \o x)
    <3>1. Regroups(inBuf, head, r) /\ Regroups(head, tail, x)
      BY <1>7, <1>9, BytesRegroup
    <3>2. a = inBuf \o head
      BY <1>2, <1>3
    <3> QED BY <1>5, <2>1, <3>1, <3>2 DEF Regroups
  <2>3. Scan(a \o r)[k] = Scan(a)[k] \o Scan(e \o r)[k]
    <3>1. a \in Seq(Byte)
      BY <1>2
    <3>2. Scan(a \o r)[k] = Scan(a)[k] \o Scan(From(a, Scan(a).pos) \o r)[k]
      BY <1>9, <2>1, <3>1, Pieces
    <3> QED BY <1>8, <3>2
  <2>4. taken[k] \in Found /\ Scan(a)[k] \in Found /\ Scan(e \o r)[k] \in Found
    <3>1. e \o r \in Seq(Byte)
      BY <2>1
    <3> QED BY <1>2, <3>1, ScanResult DEF TypeOK, Found
  <2>5. (taken[k] \o Scan(a)[k]) \o Scan(e \o r)[k] = taken[k] \o Scan(a \o r)[k]
    <3>1. PICK p \in Found : p = taken[k]
      BY <2>4
    <3>2. PICK q \in Found : q = Scan(a)[k]
      BY <2>4
    <3>3. PICK w \in Found : w = Scan(e \o r)[k]
      BY <2>4
    <3>4. Regroups(p, q, w)
      BY FoundRegroup
    <3> QED BY <2>3, <3>1, <3>2, <3>3, <3>4 DEF Regroups
  <2>6. taken[k] \o Scan(inBuf \o (b \o x))[k] = Scan(wire \o x)[k]
    BY <1>1 DEF Chunks
  <2>7. taken'[k] = taken[k] \o Scan(a)[k] /\ inBuf' = e /\ buffer'[HostPort] \o x = r
    BY <1>2, <1>6, <1>8, <2>1
  <2> QED BY <2>2, <2>5, <2>6, <2>7
<1> QED BY <1>9 DEF Chunks

\* Every step keeps what the host will have found.
LEMMA ChunksStep == ASSUME TypeOK, InPlace, Chunks, [Next]_vars PROVE Chunks'
<1>1. ASSUME NEW t \in Tasks, Accept(t) PROVE Chunks'
  <2>1. Left(t) \in Int
    BY LinkAssumption DEF Left, Size, TypeOK
  <2>2. PICK n \in 1..Left(t) : Put(t, "jtag", n) /\ n <= Free("jtag") /\ n \in Nat
    BY <1>1, AcceptPuts
  <2>3. pc[t] # "idle" /\ "jtag" \in Ports /\ n <= Left(t)
    BY <1>1, <2>1 DEF Accept, Ports
  <2>4. Adds("jtag", Piece(t, n)) /\ Len(Piece(t, n)) = n
    BY <2>2, <2>3, PutIs
  <2>5. inBuf' = inBuf /\ taken' = taken
    BY <1>1 DEF Accept, host
  <2> QED BY <2>2, <2>3, <2>4, <2>5, ChunksAdd
<1>2. ASSUME NEW t \in Tasks, UartWrite(t) PROVE Chunks'
  <2>1. PICK n \in Nat : n <= Left(t) /\ n <= Free("uart") /\ Put(t, "uart", n)
    BY <1>2, UartPuts
  <2>2. pc[t] # "idle" /\ "uart" \in Ports
    BY <1>2 DEF UartWrite, Ports
  <2>3. Adds("uart", Piece(t, n)) /\ Len(Piece(t, n)) = n
    BY <2>1, <2>2, PutIs
  <2>4. inBuf' = inBuf /\ taken' = taken
    BY <1>2 DEF UartWrite, host
  <2> QED BY <2>1, <2>2, <2>3, <2>4, ChunksAdd
<1>3. ASSUME NEW t \in Tasks, Begin(t) \/ Refuse(t) \/ Check(t) PROVE Chunks'
  <2>1. UNCHANGED <<buffer, inBuf, taken, wire>>
    BY <1>3 DEF Begin, Refuse, Check, host, history
  <2> QED BY <2>1 DEF Chunks
<1>4. CASE Plug \/ Peek \/ UNCHANGED vars
  <2>1. UNCHANGED <<buffer, inBuf, taken, wire>>
    BY <1>4 DEF Plug, Peek, vars, host, history
  <2> QED BY <2>1 DEF Chunks
<1>5. CASE Unheard
  <2>1. UNCHANGED <<inBuf, taken, wire>> /\ buffer'[HostPort] = buffer[HostPort]
    BY <1>5, LinkAssumption DEF Unheard, TypeOK, host, history
  <2> QED BY <2>1 DEF Chunks
<1>6. CASE Read
  <2>1. PICK n, a : Reads(n, a)
    BY <1>6, ReadIs
  <2>2. wire' = wire
    BY <1>6 DEF Read, history
  <2> QED BY <2>1, <2>2, ChunksRead
<1> QED BY <1>1, <1>2, <1>3, <1>4, <1>5, <1>6 DEF Next, WriteStep

\* pcan_view_gui.py:878-930.  In every state, and whatever comes next, the
\* packets the host has taken and those it will find in its two buffers are
\* the ones a single pass over the whole stream finds.
THEOREM OnePass == Spec => []Chunks
<1>1. Init => Chunks
  <2> SUFFICES ASSUME Init PROVE Chunks
    OBVIOUS
  <2>1. ASSUME NEW x \in Seq(Byte), NEW k \in Kinds
        PROVE  taken[k] \o Scan(inBuf \o (buffer[HostPort] \o x))[k] = Scan(wire \o x)[k]
    <3>1. /\ taken[k] = <<>> /\ inBuf = <<>> /\ buffer[HostPort] = <<>> /\ wire = <<>>
      BY <2>1, LinkAssumption DEF Init, None
    <3>2. <<>> \o x = x
      BY <2>1, NothingJoined
    <3>3. Scan(x)[k] \in Found
      BY <2>1, ScanResult
    <3> QED BY <3>1, <3>2, <3>3, FoundConcat
  <2> QED BY <2>1 DEF Chunks
<1>2. TypeOK /\ InPlace /\ Chunks /\ [Next]_vars => Chunks'
  BY ChunksStep
<1> QED BY <1>1, <1>2, Types, PTL DEF Spec

\* What the host has taken and what it will find in its two buffers.
LEMMA TakenAndRest ==
  ASSUME TypeOK, Chunks, NEW k \in Kinds
  PROVE  taken[k] \o Scan(inBuf \o buffer[HostPort])[k] = Scan(wire)[k]
<1>1. PICK b \in Seq(Byte) : b = buffer[HostPort]
  BY LinkAssumption DEF TypeOK
<1>2. <<>> \in Seq(Byte) /\ b \o <<>> = b /\ wire \o <<>> = wire
  BY <1>1, NothingJoined DEF TypeOK
<1>3. taken[k] \o Scan(inBuf \o (b \o <<>>))[k] = Scan(wire \o <<>>)[k]
  BY <1>1, <1>2 DEF Chunks
<1> QED BY <1>1, <1>2, <1>3

\* The buffers keep their types and bounds, and what the host finds does not
\* depend on the pieces.
THEOREM LinkRight == Spec => []LinkOK
<1>1. TypeOK /\ Chunks => LinkOK
  BY TakenAndRest DEF LinkOK, ChunksDoNotMatter
<1> QED BY <1>1, Types, OnePass, PTL

-----------------------------------------------------------------------------
(* A stream of whole packets.                                              *)

\* What the host makes of a packet.
Packet(t, n, k) ==
  IF k = Kind(Cmd[t], Len(Payload[t])) THEN <<<<Cmd[t], n>>>> ELSE <<>>

\* The first beginning is at the beginning.
LEMMA FirstHere ==
  ASSUME NEW buf \in Seq(Byte), Len(buf) >= 8, buf[1] = Sync1, buf[2] = Sync2
  PROVE  Beginnings(buf, 0) # {} /\ First(buf, 0) = 0
<1>1. 0 \in Beginnings(buf, 0)
  BY DEF Beginnings
<1>2. 0 \in 0..Len(buf)
  OBVIOUS
<1>3. First(buf, 0) \in 0..Len(buf) - 2 /\ First(buf, 0) <= 0
  BY <1>1, <1>2, FirstIs
<1> QED BY <1>1, <1>3

\* A whole packet is found, and the loop goes on behind it.
LEMMA WholeScan ==
  ASSUME NEW t \in Tasks, NEW n \in 1..MaxPackets, NEW p, p = Packets[t][n]
  PROVE  /\ p \in Seq(Byte) /\ Scan(p).pos = Len(p)
         /\ \A k \in Kinds : Scan(p)[k] = Packet(t, n, k)
<1>1. PICK len \in Nat : len = Len(Payload[t])
  BY LinkAssumption
<1>2. /\ len <= MaxLength /\ p \in Seq(Byte) /\ Len(p) = len + 8
      /\ p[1] = Sync1 /\ p[2] = Sync2 /\ p[3] = Cmd[t] /\ p[4] = n
      /\ 256 * p[5] + p[6] = len
      /\ Covered(Cmd[t], n, Payload[t]) \in Seq(Byte)
      /\ Len(Covered(Cmd[t], n, Payload[t])) = len + 4
      /\ \A i \in 1..len + 4 : p[i + 2] = Covered(Cmd[t], n, Payload[t])[i]
      /\ 256 * p[len + 7] + p[len + 8] = Crc(Covered(Cmd[t], n, Payload[t]))
  BY <1>1, PackIs DEF IsPacket
<1>3. PICK f : Scans(p, f) /\ Scan(p) = f[0]
  <2>1. p \in Seq(Byte)
    BY <1>2
  <2> QED BY <2>1, ScanIs
<1>4. Beginnings(p, 0) # {} /\ First(p, 0) = 0
  <2>1. p \in Seq(Byte) /\ Len(p) >= 8 /\ p[1] = Sync1 /\ p[2] = Sync2
    BY <1>2
  <2> QED BY <2>1, FirstHere
<1>5. Told(p, 0) = len
  <2>1. 256 * p[0 + 5] + p[0 + 6] = len
    BY <1>2
  <2> QED BY <1>4, <2>1 DEF Told, Length
<1>6. ~Stops(p, 0) /\ GoesTo(p, 0) = Len(p)
  <2>1. MaxLength \in Nat
    BY Longest
  <2>2. len <= MaxLength /\ Len(p) = len + 8
    BY <1>2
  <2> QED BY <1>4, <1>5, <2>1, <2>2 DEF Stops, GoesTo
<1>7. Right(p, 0, len)
  <2>1. PICK c \in Seq(Byte) : c = Covered(Cmd[t], n, Payload[t])
    BY <1>2
  <2>2. SubSeq(p, 3, 6 + len) = c
    <3>1. PICK lo \in Int : lo = 3
      OBVIOUS
    <3>2. PICK hi \in Int : hi = 6 + len
      OBVIOUS
    <3>3. \A i \in lo..hi : p[i] \in Byte
      BY <1>2, <3>1, <3>2
    <3>4. PICK s : s = SubSeq(p, lo, hi)
      OBVIOUS
    <3>5. /\ s \in Seq(Byte) /\ Len(s) = (IF lo <= hi THEN hi - lo + 1 ELSE 0)
          /\ \A i \in 1..hi - lo + 1 : s[i] = p[lo + i - 1]
      BY <3>3, <3>4, SubSeqProperties
    <3>6. /\ (IF lo <= hi THEN hi - lo + 1 ELSE 0) = len + 4 /\ hi - lo + 1 = len + 4
          /\ \A i \in 1..len + 4 : lo + i - 1 = i + 2
      BY <3>1, <3>2
    <3>7. /\ \A i \in 1..len + 4 : p[i + 2] = c[i]
          /\ Len(c) = len + 4
      BY <1>2, <2>1
    <3>8. \A i \in 1..len + 4 : s[i] = c[i]
      BY <3>5, <3>6, <3>7
    <3>9. s = c
      <4>1. s \in Seq(Byte) /\ Len(s) = Len(c) /\ Len(c) = len + 4
        BY <3>5, <3>6, <3>7
      <4> QED BY <2>1, <3>8, <4>1
    <3> QED BY <3>1, <3>2, <3>4, <3>9
  <2>3. /\ 0 + 3 = 3 /\ 0 + 6 + len = 6 + len
        /\ 0 + 7 + len = len + 7 /\ 0 + 8 + len = len + 8
    OBVIOUS
  <2>4. 256 * p[len + 7] + p[len + 8] = Crc(c)
    BY <1>2, <2>1
  <2> QED BY <2>2, <2>3, <2>4 DEF Right
<1>8. \A k \in Kinds : Takes(p, 0, k) = Packet(t, n, k)
  <2>1. 0 + 3 = 3 /\ 0 + 4 = 4
    OBVIOUS
  <2> QED BY <1>1, <1>2, <1>4, <1>5, <1>7, <2>1 DEF Takes, Packet
<1>9. /\ f[Len(p)].pos = Len(p) /\ \A k \in Kinds : f[Len(p)][k] = <<>>
      /\ \A k \in Kinds : f[0][k] \in Found
  <2>1. Len(p) \in 0..Len(p) /\ 0 \in 0..Len(p) /\ Len(p) - Len(p) < 8
    BY <1>2
  <2>2. Stops(p, Len(p)) /\ StopAt(p, Len(p)) = Len(p)
    BY <2>1 DEF Stops, StopAt
  <2>3. f[Len(p)] = [frame |-> <<>>, answer |-> <<>>, pos |-> Len(p)]
    BY <1>3, <2>1, <2>2 DEF Scans, Turn
  <2>4. f[0] \in Result
    BY <1>3, <2>1 DEF Scans, Turn
  <2> QED BY <2>3, <2>4 DEF Kinds, Result
<1>10. /\ f[0].pos = f[Len(p)].pos
       /\ \A k \in Kinds : f[0][k] = Takes(p, 0, k) \o f[Len(p)][k]
  <2>1. 0 \in 0..Len(p)
    BY <1>2
  <2> QED BY <1>3, <1>6, <2>1 DEF Scans, Turn
<1>11. \A k \in Kinds : Packet(t, n, k) \o <<>> = Packet(t, n, k)
  BY DEF Packet
<1>12. \A k \in Kinds : Scan(p)[k] = Packet(t, n, k)
  BY <1>3, <1>8, <1>9, <1>10, <1>11
<1>13. p \in Seq(Byte) /\ Scan(p).pos = Len(p)
  BY <1>2, <1>3, <1>9, <1>10
<1> QED BY <1>12, <1>13

\* So a packet before other bytes is found before what they hold.
LEMMA PacketFirst ==
  ASSUME NEW t \in Tasks, NEW n \in 1..MaxPackets, NEW x \in Seq(Byte), NEW k \in Kinds
  PROVE  Scan(Packets[t][n] \o x)[k] = Packet(t, n, k) \o Scan(x)[k]
<1>1. PICK p : p = Packets[t][n]
  OBVIOUS
<1>2. p \in Seq(Byte) /\ Scan(p).pos = Len(p) /\ Scan(p)[k] = Packet(t, n, k)
  BY <1>1, WholeScan
<1>3. PICK e : e = From(p, Len(p))
  OBVIOUS
<1>4. e = <<>>
  <2>1. Len(p) \in 0..Len(p)
    BY <1>2
  <2>2. e \in Seq(Byte) /\ Len(e) = Len(p) - Len(p)
    BY <1>2, <1>3, <2>1, FromIs
  <2> QED BY <1>2, <2>2
<1>5. Scan(p \o x)[k] = Scan(p)[k] \o Scan(From(p, Scan(p).pos) \o x)[k]
  BY <1>2, Pieces
<1>6. From(p, Scan(p).pos) \o x = x
  BY <1>2, <1>3, <1>4, NothingJoined
<1> QED BY <1>1, <1>2, <1>5, <1>6

\* In the first part of a packet nothing is found.
LEMMA PartScan ==
  ASSUME NEW t \in Tasks, NEW n \in 1..MaxPackets, NEW w \in Nat, w < Size(t),
         NEW k \in Kinds
  PROVE  Scan(Upto(Packets[t][n], w))[k] = <<>>
<1>1. PICK len \in Nat : len = Len(Payload[t])
  BY LinkAssumption
<1>2. PICK p : p = Packets[t][n]
  OBVIOUS
<1>3. /\ len <= MaxLength /\ p \in Seq(Byte) /\ Len(p) = len + 8
      /\ p[1] = Sync1 /\ p[2] = Sync2 /\ 256 * p[5] + p[6] = len
  BY <1>1, <1>2, PackIs DEF IsPacket
<1>4. w \in 0..Len(p) /\ w < len + 8
  BY <1>1, <1>3 DEF Size
<1>5. PICK b : b = Upto(p, w)
  OBVIOUS
<1>6. b \in Seq(Byte) /\ Len(b) = w /\ \A i \in 1..w : b[i] = p[i]
  BY <1>3, <1>4, <1>5, UptoIs
<1>7. PICK f : Scans(b, f) /\ Scan(b) = f[0]
  BY <1>6, ScanIs
<1>8. Stops(b, 0)
  <2>1. CASE w < 8
    BY <1>6, <2>1 DEF Stops
  <2>2. CASE ~(w < 8)
    <3>1. b[1] = Sync1 /\ b[2] = Sync2 /\ b[5] = p[5] /\ b[6] = p[6]
      BY <1>3, <1>6, <2>2
    <3>2. Len(b) >= 8
      BY <1>6, <2>2
    <3>3. Beginnings(b, 0) # {} /\ First(b, 0) = 0
      BY <1>6, <3>1, <3>2, FirstHere
    <3>4. Told(b, 0) = len
      BY <1>3, <3>1, <3>3 DEF Told, Length
    <3> QED BY <1>3, <1>4, <1>6, <3>3, <3>4 DEF Stops
  <2> QED BY <2>1, <2>2
<1>9. 0 \in 0..Len(b)
  BY <1>6
<1>10. f[0] = [frame |-> <<>>, answer |-> <<>>, pos |-> StopAt(b, 0)]
  BY <1>7, <1>8, <1>9 DEF Scans, Turn
<1> QED BY <1>2, <1>5, <1>7, <1>10 DEF Kinds

\* One pass finds the packets that got there, and then goes on at y, the part
\* of a packet the port was given.
Follows(y) ==
  \A x \in Seq(Byte), k \in Kinds : Scan(wire \o x)[k] = done[k] \o Scan(y \o x)[k]

\* Nobody is half way, or one task is and the stream ends with its part.
Nobody == \A u \in Tasks : ~Half(u, HostPort)
Only(t) == Half(t, HostPort) /\ \A u \in Tasks \ {t} : ~Half(u, HostPort)
Clean ==
  ~torn => \/ Nobody /\ Follows(<<>>)
           \/ \E t \in Tasks : Only(t) /\ Follows(Upto(Data(t), written[t]))

\* A task that gives a piece to the host's port while no other is half way has
\* given a beginning of its packet so far.
LEMMA OwnPart ==
  ASSUME TypeOK, InPlace, Clean, ~torn, NEW t \in Tasks,
         \A u \in Tasks \ {t} : ~Half(u, HostPort),
         ~Half(t, HostPort) => written[t] = 0
  PROVE  Follows(Upto(Data(t), written[t]))
<1>1. CASE Nobody /\ Follows(<<>>)
  <2>1. written[t] = 0
    BY <1>1 DEF Nobody
  <2>2. Upto(Data(t), 0) = <<>>
    BY DEF Upto
  <2> QED BY <1>1, <2>1, <2>2
<1>2. ASSUME NEW u \in Tasks, Only(u), Follows(Upto(Data(u), written[u]))
      PROVE  Follows(Upto(Data(t), written[t]))
  BY <1>2 DEF Only
<1> QED BY <1>1, <1>2 DEF Clean

\* The stream after the piece ends with a longer beginning, ...
LEMMA PartGrows ==
  ASSUME TypeOK, NEW t \in Tasks, count[t] \in 1..MaxPackets, NEW n \in Nat,
         written[t] + n <= Size(t), wire' = wire \o Piece(t, n),
         Follows(Upto(Data(t), written[t])),
         NEW x \in Seq(Byte), NEW k \in Kinds
  PROVE  Scan(wire' \o x)[k] = done[k] \o Scan(Upto(Data(t), written[t] + n) \o x)[k]
<1>1. written[t] \in Nat /\ wire \in Seq(Byte)
  BY DEF TypeOK
<1>2. /\ Data(t) \in Seq(Byte) /\ Len(Data(t)) = Size(t)
      /\ Piece(t, n) \in Seq(Byte)
      /\ Upto(Data(t), written[t]) \o Piece(t, n) = Upto(Data(t), written[t] + n)
  BY <1>1, PieceIs
<1>3. PICK y \in Seq(Byte) : y = Piece(t, n)
  BY <1>2
<1>4. PICK b \in Seq(Byte) : b = Upto(Data(t), written[t])
  <2>1. Size(t) \in Nat
    BY LinkAssumption DEF Size
  <2>2. written[t] \in 0..Len(Data(t))
    BY <1>1, <1>2, <2>1
  <2> QED BY <1>2, <2>2, UptoIs
<1>5. PICK z \in Seq(Byte) : z = y \o x
  BY <1>3, Joined
<1>6. (wire \o y) \o x = wire \o z /\ (b \o y) \o x = b \o z
  <2>1. Regroups(wire, y, x) /\ Regroups(b, y, x)
    BY <1>1, BytesRegroup
  <2> QED BY <1>5, <2>1 DEF Regroups
<1>7. Scan(wire \o z)[k] = done[k] \o Scan(b \o z)[k]
  BY <1>4, <1>5 DEF Follows
<1> QED BY <1>2, <1>3, <1>4, <1>6, <1>7

\* ... and after the last piece with nothing but whole packets.
LEMMA PartEnds ==
  ASSUME TypeOK, NEW t \in Tasks, count[t] \in 1..MaxPackets,
         NEW x \in Seq(Byte), NEW k \in Kinds
  PROVE  /\ Finish(t)[k] = done[k] \o Packet(t, count[t], k)
         /\ done[k] \o Scan(Upto(Data(t), Size(t)) \o x)[k]
              = Finish(t)[k] \o Scan(x)[k]
<1>1. done \in [Kinds -> Found]
  BY DEF TypeOK, Found
<1>2. PICK d \in Found : d = done[k]
  BY <1>1
<1>3. PICK c \in Byte \X Byte : c = <<Cmd[t], count[t]>>
  <2>1. Cmd[t] \in Byte /\ count[t] \in Byte
    BY LinkAssumption, Numbered
  <2> QED BY <2>1
<1>4. Packet(t, count[t], k) = IF k = Kind(Cmd[t], Len(Payload[t])) THEN <<c>> ELSE <<>>
  BY <1>3 DEF Packet
<1>5. PICK e \in Found : e = Packet(t, count[t], k)
  <2>1. <<c>> \in Found /\ <<>> \in Found
    BY DEF Found
  <2> QED BY <1>4, <2>1
<1>6. Finish(t)[k] = d \o e
  <2>1. d \o <<c>> = Append(d, c) /\ d \o <<>> = d
    BY DEF Found
  <2>2. Finish(t)[k] = IF k = Kind(Cmd[t], Len(Payload[t])) THEN Append(d, c) ELSE d
    BY <1>1, <1>2, <1>3 DEF Finish
  <2> QED BY <1>4, <1>5, <2>1, <2>2
<1>7. Upto(Data(t), Size(t)) = Packets[t][count[t]]
  <2>1. IsPacket(Data(t), t, count[t])
    BY PackIs DEF Data
  <2>2. Data(t) \in Seq(Byte) /\ Len(Data(t)) = Size(t)
    BY <2>1 DEF IsPacket, Size
  <2>3. SubSeq(Data(t), 1, Len(Data(t))) = Data(t)
    BY <2>2, SubSeqFull
  <2> QED BY <2>2, <2>3 DEF Upto, Data
<1>8. PICK f \in Found : f = Scan(x)[k]
  BY ScanResult
<1>9. Scan(Packets[t][count[t]] \o x)[k] = e \o f
  BY <1>5, <1>8, PacketFirst
<1>10. d \o (e \o f) = (d \o e) \o f
  <2>1. Regroups(d, e, f)
    BY FoundRegroup
  <2> QED BY <2>1 DEF Regroups
<1> QED BY <1>2, <1>5, <1>6, <1>7, <1>8, <1>9, <1>10

\* A piece keeps the stream clean, unless it comes into the packet of another.
LEMMA CleanPut ==
  ASSUME TypeOK, InPlace, Clean, NEW t \in Tasks, NEW p \in Ports,
         pc[t] \in (IF p = "jtag" THEN {"jtag"} ELSE {"put", "blocked"}),
         NEW n \in Nat, n <= Left(t), n <= Free(p), Put(t, p, n), count' = count,
         pc' = [pc EXCEPT ![t] = IF n = Left(t) THEN "idle"
                                 ELSE IF p = "jtag" THEN "jtag" ELSE "blocked"]
  PROVE  Clean'
<1>1. SUFFICES ASSUME ~torn' PROVE Clean'
  BY DEF Clean
<1>2. /\ Adds(p, Piece(t, n)) /\ written' = [written EXCEPT ![t] = @ + n]
  BY PutIs
<1>3. /\ written[t] \in Nat /\ count[t] \in 1..MaxPackets /\ Size(t) \in Nat
      /\ written[t] + n <= Size(t) /\ (n = Left(t) <=> written[t] + n = Size(t))
  <2>1. written[t] \in Nat /\ count[t] \in 1..MaxPackets
    BY DEF TypeOK, InPlace
  <2>2. Size(t) \in Nat
    BY LinkAssumption DEF Size
  <2> QED BY <2>1, <2>2 DEF Left
<1>4. \A u \in Tasks \ {t} :
        /\ pc'[u] = pc[u] /\ written'[u] = written[u]
        /\ (Half(u, HostPort) <=> Half(u, HostPort)')
  <2>1. \A u \in Tasks \ {t} : pc'[u] = pc[u] /\ written'[u] = written[u]
    BY <1>2 DEF TypeOK
  <2> QED BY <2>1 DEF Half
<1>5. /\ pc'[t] = (IF n = Left(t) THEN "idle" ELSE IF p = "jtag" THEN "jtag" ELSE "blocked")
      /\ written'[t] = written[t] + n
  BY <1>2 DEF TypeOK
<1>6. HostPort \in Ports
  BY LinkAssumption
<1>7. CASE p # HostPort
  <2>1. UNCHANGED <<wire, done, torn>>
    BY <1>7 DEF Put, history
  <2>2. ~Half(t, HostPort) /\ ~Half(t, HostPort)'
    BY <1>5, <1>6, <1>7 DEF Half, Ports
  <2>3. Nobody => Nobody'
    BY <1>4, <2>2 DEF Nobody
  <2>4. \A y : Follows(y) => Follows(y)'
    BY <2>1 DEF Follows
  <2>5. CASE Nobody /\ Follows(<<>>)
    BY <2>3, <2>4, <2>5 DEF Clean
  <2>6. ASSUME NEW u \in Tasks, Only(u), Follows(Upto(Data(u), written[u]))
        PROVE  Clean'
    <3>1. u # t
      BY <2>2, <2>6 DEF Only
    <3>2. Only(u)'
      BY <1>4, <2>2, <2>6, <3>1 DEF Only
    <3>3. Data(u)' = Data(u) /\ written'[u] = written[u]
      BY <1>4, <3>1 DEF Data
    <3> QED BY <2>4, <2>6, <3>2, <3>3 DEF Clean
  <2> QED BY <1>1, <2>1, <2>5, <2>6 DEF Clean
<1>8. CASE p = HostPort
  <2>1. /\ ~torn /\ \A u \in Tasks \ {t} : ~Half(u, HostPort)
        /\ done' = IF n = Left(t) THEN Finish(t) ELSE done
        /\ wire' = wire \o Piece(t, n)
    BY <1>1, <1>8 DEF Put, Piece
  <2>2. ~Half(t, HostPort) => written[t] = 0
    BY <1>3, <1>6, <1>8 DEF Half, InPlace, Ports
  <2>3. Follows(Upto(Data(t), written[t]))
    BY <2>1, <2>2, OwnPart
  <2>4. \A x \in Seq(Byte), k \in Kinds :
          Scan(wire' \o x)[k] = done[k] \o Scan(Upto(Data(t), written[t] + n) \o x)[k]
    BY <1>3, <2>1, <2>3, PartGrows
  <2>5. Data(t)' = Data(t)
    BY DEF Data
  <2>6. CASE n = Left(t)
    <3>1. written[t] + n = Size(t) /\ done' = Finish(t)
      BY <1>3, <2>1, <2>6
    <3>2. Follows(<<>>)'
      <4>1. ASSUME NEW x \in Seq(Byte), NEW k \in Kinds
            PROVE  Scan(wire' \o x)[k] = done'[k] \o Scan(<<>> \o x)[k]
        <5>1. Scan(wire' \o x)[k] = done[k] \o Scan(Upto(Data(t), Size(t)) \o x)[k]
          BY <2>4, <3>1, <4>1
        <5>2. done[k] \o Scan(Upto(Data(t), Size(t)) \o x)[k] = Finish(t)[k] \o Scan(x)[k]
          BY <1>3, <4>1, PartEnds
        <5>3. <<>> \o x = x
          BY <4>1, NothingJoined
        <5> QED BY <3>1, <5>1, <5>2, <5>3
      <4> QED BY <4>1 DEF Follows
    <3>3. Nobody'
      BY <1>4, <1>5, <2>1, <2>6 DEF Nobody, Half
    <3> QED BY <3>2, <3>3 DEF Clean
  <2>7. CASE n # Left(t)
    <3>1. done' = done
      BY <2>1, <2>7
    <3>2. Follows(Upto(Data(t), written[t]))'
      BY <1>5, <2>4, <2>5, <3>1 DEF Follows
    <3>3. CASE written[t] + n > 0
      <4>1. Half(t, HostPort)'
        BY <1>5, <1>8, <2>7, <3>3 DEF Half
      <4>2. Only(t)'
        BY <1>4, <2>1, <4>1 DEF Only
      <4> QED BY <3>2, <4>2 DEF Clean
    <3>4. CASE ~(written[t] + n > 0)
      <4>1. written'[t] = 0
        BY <1>3, <1>5, <3>4
      <4>2. Nobody'
        BY <1>4, <2>1, <4>1 DEF Nobody, Half
      <4>3. Upto(Data(t), 0) = <<>>
        BY DEF Upto
      <4>4. Follows(<<>>)'
        BY <2>5, <3>2, <4>1, <4>3
      <4> QED BY <4>2, <4>4 DEF Clean
    <3> QED BY <3>3, <3>4
  <2> QED BY <2>6, <2>7
<1> QED BY <1>7, <1>8

\* Any other step of a task: it is not half way before and after it, or it
\* stays where it is, or the stream is torn.
LEMMA CleanStays ==
  ASSUME Clean, NEW t \in Tasks, UNCHANGED <<wire, done>>, torn => torn',
         \A u \in Tasks \ {t} :
           pc'[u] = pc[u] /\ written'[u] = written[u] /\ count'[u] = count[u],
         \/ torn'
         \/ ~Half(t, HostPort) /\ ~Half(t, HostPort)'
         \/ pc'[t] = pc[t] /\ written'[t] = written[t] /\ count'[t] = count[t]
  PROVE  Clean'
<1>1. SUFFICES ASSUME ~torn' PROVE Clean'
  BY DEF Clean
<1>2. \A u \in Tasks : Half(u, HostPort) <=> Half(u, HostPort)'
  BY <1>1 DEF Half
<1>3. \A y : Follows(y) => Follows(y)'
  BY DEF Follows
<1>4. CASE Nobody /\ Follows(<<>>)
  <2>1. Nobody'
    BY <1>2, <1>4 DEF Nobody
  <2> QED BY <1>3, <1>4, <2>1 DEF Clean
<1>5. ASSUME NEW u \in Tasks, Only(u), Follows(Upto(Data(u), written[u])) PROVE Clean'
  <2>1. Only(u)'
    BY <1>2, <1>5 DEF Only
  <2>2. written'[u] = written[u] /\ count'[u] = count[u]
    <3>1. Half(u, HostPort) /\ Half(u, HostPort)'
      BY <1>5, <2>1 DEF Only
    <3> QED BY <1>1, <3>1
  <2>3. Data(u)' = Data(u)
    BY <2>2 DEF Data
  <2> QED BY <1>3, <1>5, <2>1, <2>2, <2>3 DEF Clean
<1> QED BY <1>1, <1>4, <1>5 DEF Clean

\* Every step keeps the stream clean or tears it.
LEMMA CleanStep == ASSUME TypeOK, InPlace, Clean, [Next]_vars PROVE Clean'
<1>1. ASSUME NEW t \in Tasks, Begin(t) PROVE Clean'
  <2>1. /\ pc[t] = "idle" /\ written'[t] = 0 /\ UNCHANGED <<wire, done, torn>>
        /\ \A u \in Tasks \ {t} :
             pc'[u] = pc[u] /\ written'[u] = written[u] /\ count'[u] = count[u]
    BY <1>1 DEF Begin, history, TypeOK
  <2>2. ~Half(t, HostPort) /\ ~Half(t, HostPort)'
    BY <2>1 DEF Half
  <2> QED BY <2>1, <2>2, CleanStays
<1>2. ASSUME NEW t \in Tasks, Accept(t) PROVE Clean'
  <2>1. Left(t) \in Int
    BY LinkAssumption DEF Left, Size, TypeOK
  <2>2. PICK n \in 1..Left(t) :
          /\ Put(t, "jtag", n) /\ n <= Free("jtag") /\ n \in Nat
          /\ pc' = [pc EXCEPT ![t] = IF n = Left(t) THEN "idle" ELSE "jtag"]
    BY <1>2, AcceptPuts
  <2>3. pc[t] = "jtag" /\ "jtag" \in Ports /\ n <= Left(t) /\ count' = count
    BY <1>2, <2>1 DEF Accept, Ports
  <2> QED BY <2>2, <2>3, CleanPut
<1>3. ASSUME NEW t \in Tasks, UartWrite(t) PROVE Clean'
  <2>1. PICK n \in Nat :
          /\ n <= Left(t) /\ n <= Free("uart") /\ Put(t, "uart", n)
          /\ pc' = [pc EXCEPT ![t] = IF n = Left(t) THEN "idle" ELSE "blocked"]
    BY <1>3, UartPuts
  <2>2. pc[t] \in {"put", "blocked"} /\ "uart" \in Ports /\ count' = count
    BY <1>3 DEF UartWrite, Ports
  <2> QED BY <2>1, <2>2, CleanPut
<1>4. ASSUME NEW t \in Tasks, Refuse(t) PROVE Clean'
  <2>1. /\ pc[t] = "jtag" /\ UNCHANGED <<written, count, wire, done>>
        /\ torn' = (torn \/ (pc'[t] = "idle" /\ written[t] > 0 /\ HostPort = "jtag"))
        /\ pc' = [pc EXCEPT ![t] = IF retries[t] + 1 < MaxRetries THEN "jtag" ELSE "idle"]
    BY <1>4 DEF Refuse
  <2>2. pc'[t] \in {"jtag", "idle"} /\ \A u \in Tasks \ {t} : pc'[u] = pc[u]
    BY <2>1 DEF TypeOK
  <2>3. torn => torn'
    BY <2>1
  <2>4. \/ torn' \/ pc'[t] = pc[t]
        \/ ~Half(t, HostPort) /\ ~Half(t, HostPort)'
    <3>1. CASE HostPort = "uart"
      <4>1. ~Half(t, HostPort) /\ ~Half(t, HostPort)'
        BY <2>1, <2>2, <3>1 DEF Half
      <4> QED BY <4>1
    <3>2. CASE HostPort = "jtag"
      <4>1. CASE pc'[t] = "idle" /\ written[t] > 0
        BY <2>1, <3>2, <4>1
      <4>2. CASE ~(written[t] > 0)
        <5>1. ~Half(t, HostPort) /\ ~Half(t, HostPort)'
          BY <2>1, <4>2 DEF Half
        <5> QED BY <5>1
      <4> QED BY <2>1, <2>2, <4>1, <4>2
    <3> QED BY <3>1, <3>2, LinkAssumption DEF Ports
  <2> QED BY <2>1, <2>2, <2>3, <2>4, CleanStays
<1>5. ASSUME NEW t \in Tasks, Check(t) PROVE Clean'
  <2>1. /\ pc[t] = "check" /\ UNCHANGED <<written, count, wire, done, torn>>
        /\ pc' = [pc EXCEPT ![t] = IF Free("uart") >= Size(t) THEN "put" ELSE "idle"]
    BY <1>5 DEF Check, history
  <2>2. pc'[t] \in {"put", "idle"} /\ \A u \in Tasks \ {t} : pc'[u] = pc[u]
    BY <2>1 DEF TypeOK
  <2>3. ~Half(t, HostPort) /\ ~Half(t, HostPort)'
    BY <2>1, <2>2 DEF Half
  <2> QED BY <2>1, <2>2, <2>3, CleanStays
<1>6. CASE Plug \/ Unheard \/ Peek \/ Read \/ UNCHANGED vars
  <2>1. UNCHANGED <<pc, written, count, wire, done, torn>>
    BY <1>6 DEF Plug, Unheard, Peek, Read, vars, task, history
  <2> QED BY <2>1 DEF Clean, Nobody, Only, Half, Follows, Data
<1> QED BY <1>1, <1>2, <1>3, <1>4, <1>5, <1>6 DEF Next, WriteStep

\* usb_comm.c:58-60.  As long as no packet was cut short and no two mixed, one
\* pass over the stream finds the packets that got there whole, in order.
THEOREM OnlyWhole == Spec => []Clean
<1>1. Init => Clean
  <2> SUFFICES ASSUME Init PROVE Clean
    OBVIOUS
  <2>1. Nobody
    BY DEF Init, Nobody, Half
  <2>2. ASSUME NEW x \in Seq(Byte), NEW k \in Kinds
        PROVE  Scan(wire \o x)[k] = done[k] \o Scan(<<>> \o x)[k]
    <3>1. wire = <<>> /\ done[k] = <<>>
      BY <2>2 DEF Init, None
    <3>2. <<>> \o x = x /\ Scan(x)[k] \in Found
      BY <2>2, NothingJoined, ScanResult
    <3> QED BY <3>1, <3>2, FoundConcat
  <2> QED BY <2>1, <2>2 DEF Clean, Follows
<1>2. TypeOK /\ InPlace /\ Clean /\ [Next]_vars => Clean'
  BY CleanStep
<1> QED BY <1>1, <1>2, Types, PTL DEF Spec

\* In an empty buffer nothing is found.
LEMMA NothingFound == \A k \in Kinds : Scan(<<>>)[k] = <<>>
<1>1. PICK e \in Seq(Byte) : e = <<>>
  <2>1. <<>> \in Seq(Byte)
    OBVIOUS
  <2> QED BY <2>1
<1>2. PICK f : Scans(e, f) /\ Scan(e) = f[0]
  BY ScanIs
<1>3. 0 \in 0..Len(e) /\ Stops(e, 0)
  BY <1>1 DEF Stops
<1>4. f[0] = [frame |-> <<>>, answer |-> <<>>, pos |-> StopAt(e, 0)]
  BY <1>2, <1>3 DEF Scans, Turn
<1> QED BY <1>1, <1>2, <1>4 DEF Kinds

\* Of a clean stream one pass finds just what got there.
LEMMA CleanScan ==
  ASSUME TypeOK, InPlace, Clean, ~torn, NEW k \in Kinds
  PROVE  Scan(wire)[k] = done[k] /\ done[k] \in Found
<1>1. wire \in Seq(Byte) /\ done[k] \in Found
  BY DEF TypeOK, Found
<1>2. PICK e \in Seq(Byte) : e = <<>>
  <2>1. <<>> \in Seq(Byte)
    OBVIOUS
  <2> QED BY <2>1
<1>3. wire \o e = wire /\ done[k] \o <<>> = done[k] /\ <<>> \o e = e
  BY <1>1, <1>2, FoundConcat, NothingJoined
<1>4. CASE Nobody /\ Follows(<<>>)
  <2>1. Scan(wire \o e)[k] = done[k] \o Scan(<<>> \o e)[k]
    BY <1>4 DEF Follows
  <2> QED BY <1>1, <1>2, <1>3, <2>1, NothingFound
<1>5. ASSUME NEW t \in Tasks, Only(t), Follows(Upto(Data(t), written[t]))
      PROVE  Scan(wire)[k] = done[k]
  <2>1. pc[t] # "idle"
    BY <1>5 DEF Only, Half
  <2>2. count[t] \in 1..MaxPackets /\ written[t] \in Nat /\ written[t] < Size(t)
    BY <2>1 DEF InPlace, TypeOK
  <2>3. Scan(Upto(Data(t), written[t]))[k] = <<>>
    BY <2>2, PartScan DEF Data
  <2>4. Scan(wire \o e)[k] = done[k] \o Scan(Upto(Data(t), written[t]) \o e)[k]
    BY <1>5 DEF Follows
  <2>5. Upto(Data(t), written[t]) \o e = Upto(Data(t), written[t])
    <3>1. Data(t) \in Seq(Byte) /\ Len(Data(t)) = Size(t) /\ Size(t) \in Nat
      <4>1. IsPacket(Data(t), t, count[t])
        BY <2>2, PackIs DEF Data
      <4> QED BY <4>1 DEF IsPacket, Size
    <3>2. written[t] \in 0..Len(Data(t))
      BY <2>2, <3>1
    <3>3. Upto(Data(t), written[t]) \in Seq(Byte)
      BY <3>1, <3>2, UptoIs
    <3> QED BY <1>2, <3>3, NothingJoined
  <2> QED BY <1>3, <2>3, <2>4, <2>5
<1> QED BY <1>1, <1>4, <1>5 DEF Clean

\* usb_comm.c:58-60.  Then, once the buffers are empty, the host has taken
\* what the port took.
THEOREM CleanGetsThrough == Spec => []CleanArrives
<1>1. TypeOK /\ InPlace /\ Chunks /\ Clean => CleanArrives
  <2> SUFFICES ASSUME TypeOK, InPlace, Chunks, Clean, ~torn,
                      inBuf \o buffer[HostPort] = <<>>
               PROVE  taken = done
    BY DEF CleanArrives
  <2>1. taken \in [Kinds -> Found] /\ done \in [Kinds -> Found]
    BY DEF TypeOK, Found
  <2>2. ASSUME NEW k \in Kinds PROVE taken[k] = done[k]
    <3>1. taken[k] \o Scan(inBuf \o buffer[HostPort])[k] = done[k]
      BY <2>2, CleanScan, TakenAndRest
    <3>2. taken[k] \o <<>> = taken[k]
      BY <2>1, <2>2, FoundConcat
    <3> QED BY <2>2, <3>1, <3>2, NothingFound
  <2> QED BY <2>1, <2>2
<1> QED BY <1>1, Types, OnePass, OnlyWhole, PTL

\* usb_comm.c:58-60.  On a clean stream the host never takes anything but the
\* packets that got there whole, in their order and without a gap: what it has
\* taken so far, and what it will find in its buffers, is what was done.
NothingElse ==
  ~torn => \A k \in Kinds : \E rest \in Found : done[k] = taken[k] \o rest
THEOREM CleanIsAuthentic == Spec => []NothingElse
<1>1. TypeOK /\ InPlace /\ Chunks /\ Clean => NothingElse
  <2> SUFFICES ASSUME TypeOK, InPlace, Chunks, Clean, ~torn, NEW k \in Kinds
               PROVE  \E rest \in Found : done[k] = taken[k] \o rest
    BY DEF NothingElse
  <2>1. PICK c \in Seq(Byte) : c = inBuf \o buffer[HostPort]
    <3>1. inBuf \in Seq(Byte) /\ buffer[HostPort] \in Seq(Byte)
      BY LinkAssumption DEF TypeOK
    <3>2. inBuf \o buffer[HostPort] \in Seq(Byte)
      BY <3>1
    <3> QED BY <3>2
  <2>2. Scan(c)[k] \in Found
    BY ScanResult
  <2>3. taken[k] \o Scan(c)[k] = done[k]
    BY <2>1, CleanScan, TakenAndRest
  <2> QED BY <2>2, <2>3
<1> QED BY <1>1, Types, OnePass, OnlyWhole, PTL

-----------------------------------------------------------------------------
(* The packets of a task come once and in their order.                     *)

\* A packet was begun by a task, and is not the one the task has in its hand.
Begun(x) == \E t \in Tasks : /\ x[1] = Cmd[t] /\ x[2] <= count[t]
                             /\ pc[t] # "idle" => x[2] < count[t]

\* The numbers of the packets of a command only one task writes rise.
Rising(s) == \A j, i \in DOMAIN s :
               j < i /\ s[j][1] = s[i][1] /\ Sole(s[i][1]) => s[j][2] < s[i][2]

InTurn == \A k \in Kinds : Rising(done[k]) /\ \A i \in DOMAIN done[k] : Begun(done[k][i])

\* What was begun stays so, if a task only goes on, ends, or begins the next.
LEMMA BegunStays ==
  ASSUME TypeOK,
         \A t \in Tasks :
           \/ count'[t] = count[t] /\ (pc'[t] # "idle" => pc[t] # "idle")
           \/ count'[t] = count[t] + 1,
         NEW x \in Byte \X Byte, Begun(x)
  PROVE  Begun(x)'
<1>1. PICK t \in Tasks : /\ x[1] = Cmd[t] /\ x[2] <= count[t]
                         /\ pc[t] # "idle" => x[2] < count[t]
  BY DEF Begun
<1>2. x[2] \in Nat /\ count[t] \in Nat
  <2>1. x[2] \in Byte /\ Byte \subseteq Nat
    BY DEF Byte
  <2>2. count[t] \in 0..MaxPackets /\ MaxPackets \in Nat
    BY Numbered DEF TypeOK
  <2>3. count[t] \in Nat
    BY <2>2
  <2> QED BY <2>1, <2>3
<1>3. x[2] <= count'[t] /\ (pc'[t] # "idle" => x[2] < count'[t])
  <2>1. CASE count'[t] = count[t] /\ (pc'[t] # "idle" => pc[t] # "idle")
    BY <1>1, <2>1
  <2>2. CASE count'[t] = count[t] + 1
    BY <1>1, <1>2, <2>2
  <2> QED BY <2>1, <2>2
<1> QED BY <1>1, <1>3 DEF Begun

\* A packet that gets there is the last of its command so far.
LEMMA RisingAppend ==
  ASSUME NEW s \in Found, NEW x \in Byte \X Byte, Rising(s),
         \A j \in DOMAIN s : s[j][1] = x[1] /\ Sole(x[1]) => s[j][2] < x[2]
  PROVE  Rising(Append(s, x))
<1>1. PICK r \in Found : r = Append(s, x)
  <2>1. Append(s, x) \in Found
    BY DEF Found
  <2> QED BY <2>1
<1>2. /\ Len(s) \in Nat /\ DOMAIN s = 1..Len(s) /\ DOMAIN r = 1..Len(s) + 1
      /\ r[Len(s) + 1] = x /\ \A j \in 1..Len(s) : r[j] = s[j]
  BY <1>1 DEF Found
<1>3. ASSUME NEW j \in DOMAIN r, NEW i \in DOMAIN r, j < i, r[j][1] = r[i][1],
             Sole(r[i][1])
      PROVE  r[j][2] < r[i][2]
  <2>1. j \in 1..Len(s)
    BY <1>2, <1>3
  <2>2. CASE i = Len(s) + 1
    BY <1>2, <1>3, <2>1, <2>2
  <2>3. CASE i \in 1..Len(s)
    BY <1>2, <1>3, <2>1, <2>3 DEF Rising
  <2> QED BY <1>2, <1>3, <2>2, <2>3
<1> QED BY <1>1, <1>3 DEF Rising

\* What a longer sequence holds.
LEMMA AppendedOrNot ==
  ASSUME NEW s \in Found, NEW x \in Byte \X Byte
  PROVE  \A i \in DOMAIN Append(s, x) :
           Append(s, x)[i] = x \/ \E j \in DOMAIN s : Append(s, x)[i] = s[j]
<1>1. /\ Len(s) \in Nat /\ DOMAIN s = 1..Len(s)
      /\ DOMAIN Append(s, x) = 1..Len(s) + 1 /\ Append(s, x)[Len(s) + 1] = x
      /\ \A j \in 1..Len(s) : Append(s, x)[j] = s[j]
  BY DEF Found
<1> QED BY <1>1

\* A task that writes goes on with its packet, or ends, and the packet may
\* have got there.
LEMMA WriteMoves ==
  ASSUME TypeOK, InPlace, NEW t \in Tasks, WriteStep(t)
  PROVE  /\ count' = count /\ pc[t] # "idle"
         /\ \A u \in Tasks \ {t} : pc'[u] = pc[u]
         /\ done' = done \/ (done' = Finish(t) /\ pc'[t] = "idle")
<1>0. \A u \in Tasks \ {t} : pc'[u] = pc[u]
  BY AcceptTypes, UartTypes, OtherTypes DEF WriteStep, TaskStep
<1>1. CASE Accept(t)
  <2>1. PICK n \in 1..Left(t) :
          /\ Put(t, "jtag", n)
          /\ pc' = [pc EXCEPT ![t] = IF n = Left(t) THEN "idle" ELSE "jtag"]
    BY <1>1, AcceptPuts
  <2>2. done' = done \/ (done' = Finish(t) /\ n = Left(t))
    BY <2>1 DEF Put, history
  <2>3. n = Left(t) => pc'[t] = "idle"
    BY <2>1 DEF TypeOK
  <2> QED BY <1>0, <1>1, <2>2, <2>3 DEF Accept
<1>2. CASE UartWrite(t)
  <2>1. PICK n \in Nat :
          /\ Put(t, "uart", n)
          /\ pc' = [pc EXCEPT ![t] = IF n = Left(t) THEN "idle" ELSE "blocked"]
    BY <1>2, UartPuts
  <2>2. done' = done \/ (done' = Finish(t) /\ n = Left(t))
    BY <2>1 DEF Put, history
  <2>3. n = Left(t) => pc'[t] = "idle"
    BY <2>1 DEF TypeOK
  <2>4. pc[t] # "idle" /\ count' = count
    BY <1>2 DEF UartWrite
  <2> QED BY <1>0, <2>2, <2>3, <2>4
<1>3. CASE Refuse(t) \/ Check(t)
  BY <1>0, <1>3 DEF Refuse, Check, history
<1> QED BY <1>1, <1>2, <1>3 DEF WriteStep

\* Every step keeps the packets in their order.
LEMMA InTurnStep ==
  ASSUME TypeOK, InPlace, InTurn, [Next]_vars
  PROVE  InTurn'
<1>0. \A k \in Kinds : done[k] \in Found
  BY DEF TypeOK, Found
<1>1. \A k \in Kinds : \A i \in DOMAIN done[k] : done[k][i] \in Byte \X Byte
  BY <1>0 DEF Found
<1>2. CASE /\ done' = done
           /\ \A t \in Tasks :
                \/ count'[t] = count[t] /\ (pc'[t] # "idle" => pc[t] # "idle")
                \/ count'[t] = count[t] + 1
  <2>1. \A k \in Kinds : \A i \in DOMAIN done[k] : Begun(done[k][i])'
    <3>1. \A x \in Byte \X Byte : Begun(x) => Begun(x)'
      BY <1>2, BegunStays
    <3> QED BY <1>1, <1>2, <3>1 DEF InTurn
  <2> QED BY <1>2, <2>1 DEF InTurn
<1>3. ASSUME NEW t \in Tasks, WriteStep(t) PROVE InTurn'
  <2>1. /\ count' = count /\ pc[t] # "idle"
        /\ \A u \in Tasks \ {t} : pc'[u] = pc[u]
        /\ done' = done \/ (done' = Finish(t) /\ pc'[t] = "idle")
    BY <1>3, WriteMoves
  <2>2. \A u \in Tasks : count'[u] = count[u] /\ (pc'[u] # "idle" => pc[u] # "idle")
    BY <2>1
  <2>3. CASE done' = done
    BY <1>2, <2>2, <2>3
  <2>4. CASE done' = Finish(t) /\ pc'[t] = "idle"
    <3>1. PICK x \in Byte \X Byte : x = <<Cmd[t], count[t]>>
      <4>1. Cmd[t] \in Byte /\ count[t] \in Byte
        BY <2>1, LinkAssumption, Numbered DEF InPlace
      <4> QED BY <4>1
    <3>2. ASSUME NEW k \in Kinds
          PROVE  done'[k] = done[k] \/ done'[k] = Append(done[k], x)
      BY <2>4, <3>1, <3>2 DEF Finish, TypeOK
    <3>3. ASSUME NEW k \in Kinds, NEW j \in DOMAIN done[k], done[k][j][1] = x[1],
                 Sole(x[1])
          PROVE  done[k][j][2] < x[2]
      <4>1. PICK u \in Tasks : /\ done[k][j][1] = Cmd[u]
                               /\ pc[u] # "idle" => done[k][j][2] < count[u]
        BY <3>3 DEF InTurn, Begun
      <4>2. u = t
        BY <3>1, <3>3, <4>1 DEF Sole
      <4> QED BY <2>1, <3>1, <4>1, <4>2
    <3> DEFINE OneOf(y) == \E u \in Tasks : /\ y[1] = Cmd[u] /\ y[2] <= count'[u]
                                            /\ pc'[u] # "idle" => y[2] < count'[u]
    <3>4. \A y \in Byte \X Byte : Begun(y) => OneOf(y)
      <4>1. \A y \in Byte \X Byte : Begun(y) => Begun(y)'
        BY <2>2, BegunStays
      <4> QED BY <4>1 DEF Begun
    <3>5. OneOf(x)
      <4>1. count[t] \in Nat
        BY Numbered DEF TypeOK
      <4> QED BY <2>1, <2>4, <3>1, <4>1
    <3> HIDE DEF OneOf
    <3>6. ASSUME NEW k \in Kinds
          PROVE  Rising(done'[k]) /\ \A i \in DOMAIN done'[k] : OneOf(done'[k][i])
      <4>1. CASE done'[k] = done[k]
        BY <3>4, <3>6, <4>1, <1>1 DEF InTurn
      <4>2. CASE done'[k] = Append(done[k], x)
        <5>1. PICK s \in Found : s = done[k]
          BY <1>0, <3>6
        <5>2. Rising(s) /\ \A j \in DOMAIN s : s[j] \in Byte \X Byte /\ Begun(s[j])
          BY <1>1, <3>6, <5>1 DEF InTurn
        <5>3. Rising(Append(s, x))
          BY <3>3, <3>6, <5>1, <5>2, RisingAppend
        <5>4. \A i \in DOMAIN Append(s, x) :
                Append(s, x)[i] = x \/ \E j \in DOMAIN s : Append(s, x)[i] = s[j]
          BY AppendedOrNot
        <5> QED BY <3>4, <3>5, <4>2, <5>1, <5>2, <5>3, <5>4
      <4> QED BY <3>2, <3>6, <4>1, <4>2
    <3>7. \A k \in Kinds : \A i \in DOMAIN done'[k] :
            \E u \in Tasks : /\ done'[k][i][1] = Cmd[u] /\ done'[k][i][2] <= count'[u]
                             /\ pc'[u] # "idle" => done'[k][i][2] < count'[u]
      BY <3>6, Zenon DEF OneOf
    <3>8. \A k \in Kinds : Rising(done[k])'
      BY <3>6, Zenon DEF Rising
    <3> QED BY <3>7, <3>8 DEF InTurn, Begun
  <2> QED BY <2>1, <2>3, <2>4
<1>4. ASSUME NEW t \in Tasks, Begin(t) PROVE InTurn'
  <2>1. done' = done /\ pc[t] = "idle" /\ count' = [count EXCEPT ![t] = @ + 1]
        /\ \A u \in Tasks \ {t} : pc'[u] = pc[u]
    BY <1>4 DEF Begin, history, TypeOK
  <2>2. \A u \in Tasks :
          \/ count'[u] = count[u] /\ (pc'[u] # "idle" => pc[u] # "idle")
          \/ count'[u] = count[u] + 1
    BY <2>1 DEF TypeOK
  <2> QED BY <1>2, <2>1, <2>2
<1>5. CASE Plug \/ Unheard \/ Peek \/ Read \/ UNCHANGED vars
  <2>1. UNCHANGED <<pc, count, done>>
    BY <1>5 DEF Plug, Unheard, Peek, Read, vars, task, history
  <2> QED BY <1>2, <2>1
<1> QED BY <1>3, <1>4, <1>5 DEF Next

\* A beginning of such a sequence is one.
LEMMA RisingStart ==
  ASSUME NEW s \in Found, NEW r \in Found, Rising(s \o r)
  PROVE  Rising(s) /\ \A i \in DOMAIN s : \E j \in DOMAIN (s \o r) : (s \o r)[j] = s[i]
<1>1. PICK w \in Found : w = s \o r
  BY FoundConcat
<1>2. \A i \in DOMAIN s : i \in DOMAIN w /\ w[i] = s[i]
  BY <1>1 DEF Found
<1> QED BY <1>1, <1>2 DEF Rising

\* usb_comm.c:61-77.  Whatever tears the stream, the packets that get to the
\* port whole are packets a task has begun, and those of a command that only one
\* task writes come once and in order.
THEOREM WrittenInTurn == Spec => []InTurn
<1>1. Init => InTurn
  BY DEF Init, InTurn, None, Rising
<1>2. TypeOK /\ InPlace /\ InTurn /\ [Next]_vars => InTurn'
  BY InTurnStep
<1> QED BY <1>1, <1>2, Types, PTL DEF Spec

\* usb_comm.c:61-77, pcan_view_gui.py:915-923.  While the stream is not torn
\* every packet the host takes was written to its last byte, and those of a
\* command that only one task writes come once and in order, whatever the
\* checksum function and however many tasks share a command.
THEOREM CleanAuthentic == Spec => [](~torn => Authentic)
<1>1. TypeOK /\ NothingElse /\ InTurn => (~torn => Authentic)
  <2> SUFFICES ASSUME TypeOK, NothingElse, InTurn, ~torn, NEW k \in Kinds,
                      NEW i \in DOMAIN taken[k]
               PROVE  /\ \E j \in DOMAIN done[k] : done[k][j] = taken[k][i]
                      /\ \A j \in 1..i - 1 :
                           Sole(taken[k][i][1]) /\ taken[k][j][1] = taken[k][i][1] =>
                             taken[k][j][2] < taken[k][i][2]
    BY DEF Authentic
  <2>1. PICK s \in Found : s = taken[k]
    BY DEF TypeOK, Found
  <2>2. PICK r \in Found : done[k] = s \o r
    BY <2>1 DEF NothingElse
  <2>3. /\ Rising(s) /\ i \in DOMAIN s
        /\ \A h \in DOMAIN s : \E j \in DOMAIN (s \o r) : (s \o r)[j] = s[h]
    <3>1. Rising(s \o r)
      BY <2>2 DEF InTurn
    <3> QED BY <2>1, <3>1, RisingStart
  <2>4. \A j \in 1..i - 1 : j \in DOMAIN s /\ j < i
    <3>1. i \in 1..Len(s) /\ Len(s) \in Nat /\ DOMAIN s = 1..Len(s)
      BY <2>3 DEF Found
    <3> QED BY <3>1
  <2> QED BY <2>1, <2>2, <2>3, <2>4 DEF Rising
<1> QED BY <1>1, Types, CleanIsAuthentic, WrittenInTurn, PTL
=============================================================================
