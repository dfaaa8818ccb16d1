--------------------------- MODULE HostTableProofs ---------------------------
(***************************************************************************)
(* The host's table of received messages and its display (module           *)
(* HostTable), for all frames, batches and portions.  The code's loops are *)
(* folds, and what a fold computes is shown by induction over its steps;   *)
(* the induction is over a set of numbers, so that it needs no operator as *)
(* a parameter.                                                            *)
(***************************************************************************)
EXTENDS HostTable, FiniteSetTheorems, WellFoundedInduction, TLAPS

-----------------------------------------------------------------------------
(* Induction.                                                              *)

\* A set of numbers that holds 0 and with each number the next holds all.
LEMMA Induction ==
  ASSUME NEW G, 0 \in G, \A n \in Nat : n \in G => n + 1 \in G
  PROVE  Nat \subseteq G
<1> SUFFICES ASSUME ~(Nat \subseteq G) PROVE FALSE
  OBVIOUS
<1> DEFINE T == {0..n : n \in Nat \ G}
<1>1. T # {} /\ T \subseteq FiniteSubsetsOf(Nat)
  <2>1. \A n \in Nat : IsFiniteSet(0..n) /\ 0..n \subseteq Nat
    BY FS_Interval
  <2> QED BY <2>1 DEF FiniteSubsetsOf
<1>2. IsWellFoundedOn(StrictSubsetOrdering(Nat), FiniteSubsetsOf(Nat))
  BY FS_StrictSubsetOrderingWellFounded
<1>3. PICK x \in T : \A y \in T : ~(<<y, x>> \in StrictSubsetOrdering(Nat))
  <2> HIDE DEF T
  <2> QED BY <1>1, <1>2, WFMin
<1>4. PICK m \in Nat \ G : x = 0..m
  OBVIOUS
<1>5. m # 0 /\ m - 1 \in Nat /\ m - 1 \notin G
  <2>1. m # 0
    OBVIOUS
  <2>2. m - 1 \in Nat /\ m - 1 + 1 = m
    BY <2>1
  <2> QED BY <2>1, <2>2
<1>6. 0..(m - 1) \in T
  BY <1>5
<1>7. <<0..(m - 1), x>> \in StrictSubsetOrdering(Nat)
  <2>1. m \in 0..m /\ m \notin 0..(m - 1) /\ 0..(m - 1) \subseteq 0..m /\ 0..m \subseteq Nat
    BY <1>5
  <2> QED BY <1>4, <2>1 DEF StrictSubsetOrdering
<1> QED BY <1>3, <1>6, <1>7

-----------------------------------------------------------------------------
(* Folds.  Each has a value after each step.                               *)

\* The greatest member of a set that ends with n + 1.
LEMMA Greatest ==
  ASSUME NEW n \in Nat, NEW z \in SUBSET (1..n+1), n + 1 \in z
  PROVE  Max(z) = n + 1
<1>1. n + 1 \in z /\ \A y \in z : n + 1 >= y
  OBVIOUS
<1>2. Max(z) \in z /\ \A y \in z : Max(z) >= y
  BY <1>1 DEF Max
<1>3. \A y \in z : y \in Int
  OBVIOUS
<1> HIDE DEF Max
<1>4. Max(z) \in Int /\ Max(z) >= n + 1 /\ n + 1 >= Max(z)
  BY <1>1, <1>2, <1>3
<1> QED BY <1>4

\* A beginning, and what is left of it without its last.
LEMMA Beginnings ==
  ASSUME NEW n \in Nat
  PROVE  /\ 1..0 = {} /\ 1..n+1 # {} /\ Max(1..n+1) = n + 1
         /\ (1..n+1) \ {n+1} = 1..n
<1>1. Max(1..n+1) = n + 1
  BY Greatest
<1> QED BY <1>1

\* The program's loops over rows, keys and what is shown.
Loops == {"rows", "keys", "items", "show"}

\* One step of each of them: a frame x entered in the rows, in the
\* order of the keys, a row x collected, an item x shown.
LoopBody(loop, p, v, x) ==
  IF loop = "rows" THEN Update(v, p[x][1], p[x][2], x)
  ELSE IF loop = "keys" THEN IF Contains(v, x[1]) THEN v ELSE Append(v, x[1])
  ELSE IF loop = "items" THEN IF p[x].dirty THEN Append(v, <<x, Values(p[x])>>) ELSE v
  ELSE With(v, x[1], x[2])

\* The value of a fold f for the steps of z.
Body(loop, p, f, z, base, s) ==
  IF z = {} THEN base ELSE LoopBody(loop, p, f[z \ {Max(z)}], s[Max(z)])

\* f folds the steps s[1], s[2], ... s[n].
IsFold(loop, p, base, s, n, f) == f = [z \in SUBSET (1..n) |-> Body(loop, p, f, z, base, s)]

\* R[k] is the value after k steps.
Passes(loop, p, base, s, n, R) ==
  R[0] = base /\ \A k \in 0..n-1 : R[k+1] = LoopBody(loop, p, R[k], s[k+1])

\* Every loop has a recursive function.
LEMMA FoldExists ==
  ASSUME NEW loop \in Loops, NEW p, NEW base, NEW s, NEW n \in Nat
  PROVE  \E f : IsFold(loop, p, base, s, n, f)
<1> DEFINE Q(f, m) == f = [z \in SUBSET (1..m) |-> Body(loop, p, f, z, base, s)]
<1> DEFINE G == {m \in Nat : \E f : Q(f, m)}
<1>1. 0 \in G
  <2>1. Q([z \in SUBSET (1..0) |-> base], 0)
    BY Beginnings DEF Body
  <2> QED BY <2>1
<1>2. ASSUME NEW m \in Nat, NEW f, Q(f, m) PROVE \E g : Q(g, m + 1)
  <2> DEFINE g == [z \in SUBSET (1..m+1) |->
                     IF m + 1 \in z THEN LoopBody(loop, p, f[z \ {m+1}], s[m+1]) ELSE f[z]]
  <2>0. f = [z \in SUBSET (1..m) |-> Body(loop, p, f, z, base, s)]
    BY <1>2
  <2>1. ASSUME NEW z \in SUBSET (1..m+1) PROVE g[z] = Body(loop, p, g, z, base, s)
    <3>1. CASE m + 1 \in z
      <4>1. Max(z) = m + 1 /\ z # {}
        BY <3>1, Greatest
      <4>2. z \ {m+1} \in SUBSET (1..m+1) /\ m + 1 \notin z \ {m+1}
        OBVIOUS
      <4>3. g[z \ {m+1}] = f[z \ {m+1}]
        BY <4>2
      <4>4. g[z] = LoopBody(loop, p, f[z \ {m+1}], s[m+1])
        BY <3>1
      <4> HIDE DEF g
      <4> QED BY <4>1, <4>3, <4>4 DEF Body
    <3>2. CASE m + 1 \notin z
      <4>1. z \in SUBSET (1..m) /\ z \ {Max(z)} \in SUBSET (1..m)
        <5>1. \A y \in z : y \in 1..m+1 /\ y # m + 1
          BY <3>2
        <5>2. \A y \in 1..m+1 : y # m + 1 => y \in 1..m
          OBVIOUS
        <5> QED BY <5>1, <5>2
      <4>2. f[z] = Body(loop, p, f, z, base, s)
        BY <2>0, <4>1
      <4>3. g[z] = f[z] /\ g[z \ {Max(z)}] = f[z \ {Max(z)}]
        BY <3>2, <4>1
      <4> HIDE DEF g
      <4> QED BY <4>2, <4>3 DEF Body
    <3> QED BY <3>1, <3>2
  <2>2. g = [z \in SUBSET (1..m+1) |-> Body(loop, p, g, z, base, s)]
    <3>1. g = [z \in SUBSET (1..m+1) |-> g[z]]
      OBVIOUS
    <3> HIDE DEF g
    <3> QED BY <2>1, <3>1
  <2> QED BY <2>2
<1>3. \A m \in Nat : m \in G => m + 1 \in G
  <2> HIDE DEF Q
  <2> QED BY <1>2
<1> HIDE DEF G
<1>4. n \in G
  BY <1>1, <1>3, Induction
<1> QED BY <1>4 DEF G, IsFold

\* A fold is what its steps lead to, one after the other.
LEMMA FoldSteps ==
  ASSUME NEW loop \in Loops, NEW p, NEW base, NEW s, NEW n \in Nat, NEW F,
         IsFold(loop, p, base, s, n, F)
  PROVE  \E R : Passes(loop, p, base, s, n, R) /\ R[n] = F[1..n]
<1>0. F = [z \in SUBSET (1..n) |-> Body(loop, p, F, z, base, s)]
  BY DEF IsFold
<1>1. F[1..0] = base
  BY <1>0, Beginnings DEF Body
<1>2. ASSUME NEW k \in 0..n-1
      PROVE  F[1..k+1] = LoopBody(loop, p, F[1..k], s[k+1])
  <2>1. 1..k+1 \in SUBSET (1..n)
    OBVIOUS
  <2>2. F[1..k+1] = Body(loop, p, F, 1..k+1, base, s)
    BY <1>0, <2>1
  <2>3. 1..k+1 # {} /\ Max(1..k+1) = k + 1 /\ (1..k+1) \ {k+1} = 1..k
    <3>1. k \in Nat
      OBVIOUS
    <3> QED BY <3>1, Beginnings
  <2> QED BY <2>2, <2>3 DEF Body
<1>3. PICK R : R = [k \in 0..n |-> F[1..k]]
  OBVIOUS
<1>4. R[0] = base
  BY <1>1, <1>3
<1>5. R[n] = F[1..n]
  BY <1>3
<1>6. ASSUME NEW k \in 0..n-1 PROVE R[k] = F[1..k] /\ R[k+1] = F[1..k+1]
  BY <1>3
<1> QED BY <1>2, <1>4, <1>5, <1>6 DEF Passes

\* The loop of _process_rx_batch over the rows.
RowsFold(base, L, s) ==
  FoldLeft(LAMBDA msgs, k : Update(msgs, L[k][1], L[k][2], k), base, s)

\* The table after each frame.
LEMMA RowsSteps ==
  ASSUME NEW base, NEW L, NEW n \in Nat, NEW s, DOMAIN s = 1..n
  PROVE  \E R : Passes("rows", L, base, s, n, R) /\ R[n] = RowsFold(base, L, s)
<1> DEFINE E(f, z) ==
      IF z = {} THEN base
      ELSE Update(f[z \ {Max(z)}], L[s[Max(z)]][1], L[s[Max(z)]][2], s[Max(z)])
<1> DEFINE F == CHOOSE f : f = [z \in SUBSET (1..n) |-> E(f, z)]
<1>1. F[1..n] = RowsFold(base, L, s)
  BY DEF RowsFold, FoldLeft, MapThenFoldSet
<1>2. ASSUME NEW f, NEW z PROVE E(f, z) = Body("rows", L, f, z, base, s)
  BY DEF Body, LoopBody
<1>3. IsFold("rows", L, base, s, n, F)
  <2> HIDE DEF E
  <2>1. PICK f : IsFold("rows", L, base, s, n, f)
    BY FoldExists DEF Loops
  <2>2. f = [z \in SUBSET (1..n) |-> E(f, z)]
    BY <1>2, <2>1 DEF IsFold
  <2>3. F = [z \in SUBSET (1..n) |-> E(F, z)]
    BY <2>2
  <2> HIDE DEF F
  <2> QED BY <1>2, <2>3 DEF IsFold
<1> HIDE DEF F
<1>4. \E R : Passes("rows", L, base, s, n, R) /\ R[n] = F[1..n]
  BY <1>3, FoldSteps DEF Loops
<1> QED BY <1>1, <1>4

\* The loop of _process_rx_batch over the keys.
KeysFold(base, s) ==
  FoldLeft(LAMBDA keys, f : IF Contains(keys, f[1]) THEN keys ELSE Append(keys, f[1]),
           base, s)

\* The keys after each frame.
LEMMA KeysSteps ==
  ASSUME NEW base, NEW n \in Nat, NEW s, DOMAIN s = 1..n
  PROVE  \E R : Passes("keys", s, base, s, n, R) /\ R[n] = KeysFold(base, s)
<1> DEFINE E(f, z) ==
      IF z = {} THEN base
      ELSE IF Contains(f[z \ {Max(z)}], s[Max(z)][1]) THEN f[z \ {Max(z)}]
           ELSE Append(f[z \ {Max(z)}], s[Max(z)][1])
<1> DEFINE F == CHOOSE f : f = [z \in SUBSET (1..n) |-> E(f, z)]
<1>1. F[1..n] = KeysFold(base, s)
  BY DEF KeysFold, FoldLeft, MapThenFoldSet
<1>2. ASSUME NEW f, NEW z PROVE E(f, z) = Body("keys", s, f, z, base, s)
  BY DEF Body, LoopBody
<1>3. IsFold("keys", s, base, s, n, F)
  <2> HIDE DEF E
  <2>1. PICK f : IsFold("keys", s, base, s, n, f)
    BY FoldExists DEF Loops
  <2>2. f = [z \in SUBSET (1..n) |-> E(f, z)]
    BY <1>2, <2>1 DEF IsFold
  <2>3. F = [z \in SUBSET (1..n) |-> E(F, z)]
    BY <2>2
  <2> HIDE DEF F
  <2> QED BY <1>2, <2>3 DEF IsFold
<1> HIDE DEF F
<1>4. \E R : Passes("keys", s, base, s, n, R) /\ R[n] = F[1..n]
  BY <1>3, FoldSteps DEF Loops
<1> QED BY <1>1, <1>4

\* The loop of the refresh over the rows.
ItemsFold(base, M, s) ==
  FoldLeft(LAMBDA items, n : IF M[n].dirty THEN Append(items, <<n, Values(M[n])>>)
                              ELSE items, base, s)

\* What the refresh has collected after each row.
LEMMA ItemsSteps ==
  ASSUME NEW base, NEW M, NEW n \in Nat, NEW s, DOMAIN s = 1..n
  PROVE  \E R : Passes("items", M, base, s, n, R) /\ R[n] = ItemsFold(base, M, s)
<1> DEFINE E(f, z) ==
      IF z = {} THEN base
      ELSE IF M[s[Max(z)]].dirty
           THEN Append(f[z \ {Max(z)}], <<s[Max(z)], Values(M[s[Max(z)]])>>)
           ELSE f[z \ {Max(z)}]
<1> DEFINE F == CHOOSE f : f = [z \in SUBSET (1..n) |-> E(f, z)]
<1>1. F[1..n] = ItemsFold(base, M, s)
  BY DEF ItemsFold, FoldLeft, MapThenFoldSet
<1>2. ASSUME NEW f, NEW z PROVE E(f, z) = Body("items", M, f, z, base, s)
  BY DEF Body, LoopBody
<1>3. IsFold("items", M, base, s, n, F)
  <2> HIDE DEF E
  <2>1. PICK f : IsFold("items", M, base, s, n, f)
    BY FoldExists DEF Loops
  <2>2. f = [z \in SUBSET (1..n) |-> E(f, z)]
    BY <1>2, <2>1 DEF IsFold
  <2>3. F = [z \in SUBSET (1..n) |-> E(F, z)]
    BY <2>2
  <2> HIDE DEF F
  <2> QED BY <1>2, <2>3 DEF IsFold
<1> HIDE DEF F
<1>4. \E R : Passes("items", M, base, s, n, R) /\ R[n] = F[1..n]
  BY <1>3, FoldSteps DEF Loops
<1> QED BY <1>1, <1>4

\* The loop of the refresh over what it shows.
TreeFold(base, s) ==
  FoldLeft(LAMBDA t, item : With(t, item[1], item[2]), base, s)

\* The display after each item.
LEMMA TreeSteps ==
  ASSUME NEW base, NEW n \in Nat, NEW s, DOMAIN s = 1..n
  PROVE  \E R : Passes("show", s, base, s, n, R) /\ R[n] = TreeFold(base, s)
<1> DEFINE E(f, z) ==
      IF z = {} THEN base
      ELSE With(f[z \ {Max(z)}], s[Max(z)][1], s[Max(z)][2])
<1> DEFINE F == CHOOSE f : f = [z \in SUBSET (1..n) |-> E(f, z)]
<1>1. F[1..n] = TreeFold(base, s)
  BY DEF TreeFold, FoldLeft, MapThenFoldSet
<1>2. ASSUME NEW f, NEW z PROVE E(f, z) = Body("show", s, f, z, base, s)
  BY DEF Body, LoopBody
<1>3. IsFold("show", s, base, s, n, F)
  <2> HIDE DEF E
  <2>1. PICK f : IsFold("show", s, base, s, n, f)
    BY FoldExists DEF Loops
  <2>2. f = [z \in SUBSET (1..n) |-> E(f, z)]
    BY <1>2, <2>1 DEF IsFold
  <2>3. F = [z \in SUBSET (1..n) |-> E(F, z)]
    BY <2>2
  <2> HIDE DEF F
  <2> QED BY <1>2, <2>3 DEF IsFold
<1> HIDE DEF F
<1>4. \E R : Passes("show", s, base, s, n, R) /\ R[n] = F[1..n]
  BY <1>3, FoldSteps DEF Loops
<1> QED BY <1>1, <1>4

-----------------------------------------------------------------------------
(* One frame in the rows and in the order of the keys.                     *)

\* The frames c+1, ..., n of the log with identifier i.
Since(L, c, n, i) == {k \in c+1..n : L[k][1] = i}

Entry == [count : Nat, kind : Kinds, data : Nat, dirty : BOOLEAN]

\* Row T[i] tells the frames S.
RowTells(T, L, i, S) ==
  /\ T[i] \in Entry
  /\ T[i].count = Cardinality(S) /\ T[i].data = Max(S) /\ Max(S) \in S
  /\ Min(S) \in S /\ \A y \in S : Min(S) <= y
  /\ T[i].kind = L[Min(S)][2]

\* The table T tells the frames c+1, ..., n of the log.
Tells(T, L, c, n) ==
  /\ DOMAIN T = {i \in Numbers : Since(L, c, n, i) # {}}
  /\ \A i \in DOMAIN T : RowTells(T, L, i, Since(L, c, n, i))

\* What T has more than T0 is marked, and no row has less.
Marked(T0, T) ==
  /\ \A i \in DOMAIN T0 : i \in DOMAIN T /\ T0[i].count <= T[i].count
  /\ \A i \in DOMAIN T : T[i].dirty \/ (i \in DOMAIN T0 /\ T[i] = T0[i])

\* The keys O are those of T, each once.
Listed(O, T) ==
  /\ O \in Seq(Numbers) /\ IsFiniteSet(ToSet(O))
  /\ Len(O) = Cardinality(ToSet(O)) /\ ToSet(O) = DOMAIN T

\* New keys come behind the old ones.
Behind(O0, O) ==
  /\ Len(O0) <= Len(O)
  /\ \A j \in 1..Len(O0) : O[j] = O0[j]
  /\ \A j \in Len(O0)+1..Len(O) : O[j] \notin ToSet(O0)

\* A number behind a set of numbers counts one more, is the greatest, and is
\* the least only of an empty set.
LEMMA OneMore ==
  ASSUME NEW n \in Nat, NEW S \in SUBSET (1..n)
  PROVE  /\ Cardinality(S) \in Nat
         /\ Cardinality(S \cup {n+1}) = Cardinality(S) + 1
         /\ Max(S \cup {n+1}) = n + 1
         /\ S = {} => Min(S \cup {n+1}) = n + 1
         /\ (Min(S) \in S /\ \A y \in S : Min(S) <= y) => Min(S \cup {n+1}) = Min(S)
<1>1. IsFiniteSet(S) /\ n + 1 \notin S
  <2>1. IsFiniteSet(1..n)
    BY FS_Interval
  <2>2. IsFiniteSet(S)
    BY <2>1, FS_Subset
  <2>3. n + 1 \notin 1..n
    OBVIOUS
  <2> QED BY <2>2, <2>3
<1>2. Cardinality(S) \in Nat /\ Cardinality(S \cup {n+1}) = Cardinality(S) + 1
  BY <1>1, FS_CardinalityType, FS_AddElement
<1>3. Max(S \cup {n+1}) = n + 1
  <2>1. S \cup {n+1} \in SUBSET (1..n+1) /\ n + 1 \in S \cup {n+1}
    OBVIOUS
  <2> QED BY <2>1, Greatest
<1>4. ASSUME S = {} PROVE Min(S \cup {n+1}) = n + 1
  BY <1>4 DEF Min
<1>5. ASSUME Min(S) \in S, \A y \in S : Min(S) <= y PROVE Min(S \cup {n+1}) = Min(S)
  <2>1. PICK a : a = Min(S)
    OBVIOUS
  <2>2. a \in 1..n /\ \A y \in S : a <= y
    BY <1>5, <2>1
  <2>3. a \in S \cup {n+1} /\ \A y \in S \cup {n+1} : a <= y
    BY <1>5, <2>1, <2>2
  <2>4. PICK b : b = Min(S \cup {n+1})
    OBVIOUS
  <2>5. b \in S \cup {n+1} /\ \A y \in S \cup {n+1} : b <= y
    BY <2>3, <2>4 DEF Min
  <2>6. b \in Nat /\ a <= b /\ b <= a
    BY <2>2, <2>3, <2>5
  <2> QED BY <2>1, <2>2, <2>4, <2>6
<1> QED BY <1>2, <1>3, <1>4, <1>5

\* One more frame is one more of its identifier.
LEMMA SinceNext ==
  ASSUME NEW L, NEW c \in Nat, NEW n \in Nat, c <= n, NEW i
  PROVE  /\ Since(L, c, n, i) \in SUBSET (1..n)
         /\ L[n+1][1] = i => Since(L, c, n + 1, i) = Since(L, c, n, i) \cup {n+1}
         /\ L[n+1][1] # i => Since(L, c, n + 1, i) = Since(L, c, n, i)
<1>1. c+1..n+1 = (c+1..n) \cup {n+1} /\ c+1..n \subseteq 1..n /\ n + 1 \notin c+1..n
  OBVIOUS
<1> QED BY <1>1 DEF Since

\* The table with one more frame tells one more frame, and marks its row.
LEMMA RowStep ==
  ASSUME NEW T, NEW L, NEW c \in Nat, NEW n \in Nat, c <= n,
         L[n+1][1] \in Numbers, L[n+1][2] \in Kinds, Tells(T, L, c, n)
  PROVE  /\ Tells(Update(T, L[n+1][1], L[n+1][2], n + 1), L, c, n + 1)
         /\ Marked(T, Update(T, L[n+1][1], L[n+1][2], n + 1))
<1>1. PICK x : x = L[n+1][1]
  OBVIOUS
<1>2. PICK v : v = L[n+1][2]
  OBVIOUS
<1>3. PICK U : U = Update(T, x, v, n + 1)
  OBVIOUS
<1>4. DOMAIN U = DOMAIN T \cup {x}
  BY <1>3 DEF Update, With
<1>5. ASSUME NEW i \in DOMAIN T, i # x PROVE U[i] = T[i]
  BY <1>3, <1>5 DEF Update, With
<1>6. ASSUME NEW i PROVE Since(L, c, n + 1, i) = IF i = x THEN Since(L, c, n, i) \cup {n+1}
                                                 ELSE Since(L, c, n, i)
  <2>1. CASE i = x
    BY <1>1, <2>1, SinceNext
  <2>2. CASE i # x
    BY <1>1, <2>2, SinceNext
  <2> QED BY <2>1, <2>2
<1>7. DOMAIN U = {i \in Numbers : Since(L, c, n + 1, i) # {}}
  BY <1>1, <1>4, <1>6 DEF Tells
<1>8. PICK S : S = Since(L, c, n, x)
  OBVIOUS
<1>9. S \in SUBSET (1..n)
  BY <1>8, SinceNext
<1>10. RowTells(U, L, x, S \cup {n+1}) /\ U[x].dirty = TRUE
       /\ (x \in DOMAIN T => T[x].count <= U[x].count)
  <2>1. CASE x \in DOMAIN T
    <3>1. U[x] = [T[x] EXCEPT !.count = @ + 1, !.data = n + 1, !.dirty = TRUE]
      BY <1>3, <2>1 DEF Update
    <3>2. RowTells(T, L, x, S)
      BY <1>8, <2>1 DEF Tells
    <3>3. /\ U[x] \in Entry /\ U[x].count = T[x].count + 1 /\ U[x].data = n + 1
          /\ U[x].kind = T[x].kind /\ U[x].dirty = TRUE
      <4>1. PICK t : t = T[x]
        OBVIOUS
      <4>2. t \in [count : Nat, kind : Kinds, data : Nat, dirty : BOOLEAN]
        BY <3>2, <4>1 DEF RowTells, Entry
      <4>3. U[x] = [t EXCEPT !.count = t.count + 1, !.data = n + 1, !.dirty = TRUE]
        BY <3>1, <4>1
      <4>4. t.count \in Nat /\ t.kind \in Kinds
        BY <4>2
      <4>5. PICK d : d = t.count + 1
        OBVIOUS
      <4>6. d \in Nat
        BY <4>4, <4>5
      <4>7. U[x] \in [count : Nat, kind : Kinds, data : Nat, dirty : BOOLEAN]
        <5>1. PICK e : e = n + 1
          OBVIOUS
        <5>2. e \in Nat
          BY <5>1
        <5>3. U[x] = [t EXCEPT !.count = d, !.data = e, !.dirty = TRUE]
          BY <4>3, <4>5, <5>1
        <5> QED BY <4>2, <4>6, <5>2, <5>3, Zenon
      <4>8. U[x].count = d /\ U[x].data = n + 1 /\ U[x].kind = t.kind /\ U[x].dirty = TRUE
        BY <4>2, <4>3, <4>5
      <4> QED BY <4>1, <4>5, <4>7, <4>8 DEF Entry
    <3>4. /\ Min(S \cup {n+1}) = Min(S) /\ Min(S) \in S /\ Min(S) \in 1..n
          /\ \A y \in S : Min(S) <= y
      BY <1>9, <3>2, OneMore DEF RowTells
    <3>5. Cardinality(S) \in Nat /\ Cardinality(S \cup {n+1}) = Cardinality(S) + 1
          /\ Max(S \cup {n+1}) = n + 1
      BY <1>9, OneMore
    <3>6. T[x].count = Cardinality(S) /\ T[x].kind = L[Min(S)][2]
      BY <3>2 DEF RowTells
    <3>7. \A y \in S \cup {n+1} : Min(S) <= y
      BY <3>4
    <3>8. RowTells(U, L, x, S \cup {n+1})
      BY <3>3, <3>4, <3>5, <3>6, <3>7 DEF RowTells
    <3> QED BY <3>3, <3>5, <3>6, <3>8
  <2>2. CASE x \notin DOMAIN T
    <3>1. U[x] = [count |-> 1, kind |-> v, data |-> n + 1, dirty |-> TRUE]
      BY <1>3, <2>2 DEF Update, With
    <3>2. S = {}
      BY <1>1, <1>8, <2>2 DEF Tells
    <3>3. /\ Cardinality(S \cup {n+1}) = 1 /\ Max(S \cup {n+1}) = n + 1
          /\ Min(S \cup {n+1}) = n + 1
      BY <1>9, <3>2, OneMore, FS_EmptySet
    <3>4. U[x] \in Entry
      BY <1>2, <3>1 DEF Entry
    <3> QED BY <1>2, <2>2, <3>1, <3>2, <3>3, <3>4 DEF RowTells
  <2> QED BY <2>1, <2>2
<1>11. ASSUME NEW i \in DOMAIN U PROVE RowTells(U, L, i, Since(L, c, n + 1, i))
  <2>1. CASE i = x
    BY <1>6, <1>8, <1>10, <2>1
  <2>2. CASE i # x
    <3>1. i \in DOMAIN T /\ U[i] = T[i]
      BY <1>4, <1>5, <2>2
    <3>2. RowTells(T, L, i, Since(L, c, n, i))
      BY <3>1 DEF Tells
    <3> QED BY <1>6, <2>2, <3>1, <3>2 DEF RowTells
  <2> QED BY <2>1, <2>2
<1>12. Tells(U, L, c, n + 1)
  BY <1>7, <1>11 DEF Tells
<1>13. Marked(T, U)
  <2>1. ASSUME NEW i \in DOMAIN T PROVE T[i].count \in Nat
    BY DEF Tells, RowTells, Entry
  <2> QED BY <1>4, <1>5, <1>10, <2>1 DEF Marked
<1> QED BY <1>1, <1>2, <1>3, <1>12, <1>13

\* A key that is not there yet comes behind the others.
LEMMA KeyStep ==
  ASSUME NEW O, NEW T, NEW U, NEW x \in Numbers, Listed(O, T), DOMAIN U = DOMAIN T \cup {x}
  PROVE  LET Q == IF Contains(O, x) THEN O ELSE Append(O, x)
         IN  Listed(Q, U) /\ Behind(O, Q)
<1>1. O \in Seq(Numbers) /\ DOMAIN O = 1..Len(O) /\ Len(O) \in Nat
  BY DEF Listed
<1>2. Contains(O, x) <=> x \in ToSet(O)
  BY <1>1 DEF Contains, ToSet
<1>3. CASE x \in ToSet(O)
  BY <1>1, <1>2, <1>3 DEF Listed, Behind
<1>4. CASE x \notin ToSet(O)
  <2>1. PICK Q : Q = Append(O, x)
    OBVIOUS
  <2>2. /\ Q \in Seq(Numbers) /\ Len(Q) = Len(O) + 1 /\ Q[Len(O)+1] = x
        /\ \A j \in 1..Len(O) : Q[j] = O[j]
    BY <1>1, <2>1
  <2>3. ToSet(Q) = ToSet(O) \cup {x}
    <3>1. DOMAIN Q = 1..Len(O)+1 /\ 1..Len(O)+1 = (1..Len(O)) \cup {Len(O)+1}
      BY <1>1, <2>2
    <3> QED BY <1>1, <2>2, <3>1 DEF ToSet
  <2>4. IsFiniteSet(ToSet(Q)) /\ Cardinality(ToSet(Q)) = Cardinality(ToSet(O)) + 1
    BY <1>4, <2>3, FS_AddElement DEF Listed
  <2>5. Listed(Q, U)
    BY <2>2, <2>3, <2>4 DEF Listed
  <2>6. Behind(O, Q)
    BY <1>1, <1>4, <2>2 DEF Behind
  <2> QED BY <1>2, <1>4, <2>1, <2>5, <2>6
<1> QED BY <1>3, <1>4

-----------------------------------------------------------------------------
(* A batch.                                                                *)

\* What two batches mark and add, one after the other, they mark and add.
LEMMA Together ==
  ASSUME NEW T, NEW U, NEW V, NEW O, NEW P, NEW Q,
         \A i \in DOMAIN T : T[i].count \in Nat, \A i \in DOMAIN U : U[i].count \in Nat,
         \A i \in DOMAIN V : V[i].count \in Nat,
         O \in Seq(Numbers), P \in Seq(Numbers), Q \in Seq(Numbers),
         Marked(T, U), Marked(U, V), Behind(O, P), Behind(P, Q)
  PROVE  Marked(T, V) /\ Behind(O, Q)
<1>1. ASSUME NEW i \in DOMAIN T PROVE i \in DOMAIN V /\ T[i].count <= V[i].count
  <2>1. i \in DOMAIN U /\ T[i].count <= U[i].count
    BY DEF Marked
  <2>2. i \in DOMAIN V /\ U[i].count <= V[i].count
    BY <2>1 DEF Marked
  <2>3. T[i].count \in Nat /\ U[i].count \in Nat /\ V[i].count \in Nat
    BY <2>1, <2>2
  <2> QED BY <2>1, <2>2, <2>3
<1>2. ASSUME NEW i \in DOMAIN V PROVE V[i].dirty \/ (i \in DOMAIN T /\ V[i] = T[i])
  <2>1. V[i].dirty \/ (i \in DOMAIN U /\ V[i] = U[i])
    BY DEF Marked
  <2>2. i \in DOMAIN U => U[i].dirty \/ (i \in DOMAIN T /\ U[i] = T[i])
    BY DEF Marked
  <2> QED BY <2>1, <2>2
<1>3. /\ Len(O) \in Nat /\ Len(P) \in Nat /\ Len(Q) \in Nat
      /\ Len(O) <= Len(P) /\ Len(P) <= Len(Q)
  BY DEF Behind
<1>4. ASSUME NEW j \in 1..Len(O) PROVE Q[j] = O[j]
  BY <1>3 DEF Behind
<1>5. ASSUME NEW j \in Len(O)+1..Len(Q) PROVE Q[j] \notin ToSet(O)
  <2>1. CASE j \in Len(O)+1..Len(P)
    <3>1. P[j] \notin ToSet(O)
      BY <2>1 DEF Behind
    <3>2. j \in 1..Len(P)
      BY <1>3, <2>1
    <3> QED BY <3>1, <3>2 DEF Behind
  <2>2. CASE j \in Len(P)+1..Len(Q)
    <3>1. Q[j] \notin ToSet(P)
      BY <2>2 DEF Behind
    <3>2. ToSet(O) \subseteq ToSet(P)
      BY <1>3, SMTT(30) DEF Behind, ToSet
    <3> QED BY <3>1, <3>2
  <2> QED BY <1>3, <2>1, <2>2
<1>6. Marked(T, V)
  BY <1>1, <1>2 DEF Marked
<1>7. Behind(O, Q)
  BY <1>3, <1>4, <1>5 DEF Behind
<1> QED BY <1>6, <1>7

\* Rows and keys are those of the frames up to number n, and have grown since
\* the table was T and the keys O.
Grown(T, O, U, Q, L, c, n) ==
  Tells(U, L, c, n) /\ Listed(Q, U) /\ Marked(T, U) /\ Behind(O, Q)

\* A batch of frames from number a+1 on, one by one.
LEMMA Batch ==
  ASSUME NEW T, NEW O, NEW L \in Seq(Frames), NEW c \in Nat, NEW a \in Nat, c <= a,
         NEW m \in Nat, a + m <= Len(L), NEW batch, DOMAIN batch = 1..m,
         \A k \in 1..m : L[a+k] = batch[k], Tells(T, L, c, a), Listed(O, T)
  PROVE  Grown(T, O, RowsFold(T, L, [k \in 1..m |-> a + k]), KeysFold(O, batch),
               L, c, a + m)
<1>1. PICK s : s = [k \in 1..m |-> a + k]
  OBVIOUS
<1>2. PICK R : Passes("rows", L, T, s, m, R) /\ R[m] = RowsFold(T, L, s)
  <2>1. DOMAIN s = 1..m
    BY <1>1
  <2> QED BY <2>1, RowsSteps
<1>3. PICK K : Passes("keys", batch, O, batch, m, K) /\ K[m] = KeysFold(O, batch)
  BY KeysSteps
<1> DEFINE Holds(k) == Grown(T, O, R[k], K[k], L, c, a + k)
<1> DEFINE G == {k \in Nat : k <= m => Holds(k)}
<1>4. \A i \in DOMAIN T : T[i].count \in Nat
  BY DEF Tells, RowTells, Entry
<1>5. 0 \in G
  <2>1. R[0] = T /\ K[0] = O /\ a + 0 = a
    BY <1>2, <1>3 DEF Passes
  <2>2. Marked(T, T)
    BY <1>4 DEF Marked
  <2>3. Behind(O, O)
    BY DEF Behind, Listed
  <2> QED BY <2>1, <2>2, <2>3 DEF Grown
<1>6. ASSUME NEW k \in Nat, k + 1 <= m, Holds(k) PROVE Holds(k + 1)
  <2>1. PICK n : n = a + k
    OBVIOUS
  <2>2. n \in Nat /\ c <= n /\ n + 1 = a + (k + 1) /\ n + 1 \in 1..Len(L)
    BY <1>6, <2>1
  <2>3. k \in 0..m-1 /\ k + 1 \in 1..m
    BY <1>6
  <2>4. L[n+1] = batch[k+1] /\ s[k+1] = n + 1
    BY <1>1, <2>2, <2>3
  <2>5. L[n+1][1] \in Numbers /\ L[n+1][2] \in Kinds
    <3>1. L[n+1] \in Frames
      BY <2>2
    <3> QED BY <3>1 DEF Numbers, Kinds
  <2>6. R[k+1] = Update(R[k], L[n+1][1], L[n+1][2], n + 1)
    BY <1>2, <2>3, <2>4 DEF Passes, LoopBody
  <2>7. K[k+1] = IF Contains(K[k], L[n+1][1]) THEN K[k] ELSE Append(K[k], L[n+1][1])
    BY <1>3, <2>3, <2>4 DEF Passes, LoopBody
  <2>8. Tells(R[k], L, c, n) /\ Listed(K[k], R[k]) /\ Marked(T, R[k]) /\ Behind(O, K[k])
    BY <1>6, <2>1 DEF Grown
  <2>9. Tells(R[k+1], L, c, n + 1) /\ Marked(R[k], R[k+1])
    BY <2>2, <2>5, <2>6, <2>8, RowStep
  <2>10. DOMAIN R[k+1] = DOMAIN R[k] \cup {L[n+1][1]}
    BY <2>6 DEF Update, With
  <2>11. Listed(K[k+1], R[k+1]) /\ Behind(K[k], K[k+1])
    BY <2>5, <2>7, <2>8, <2>10, KeyStep
  <2>12. /\ \A i \in DOMAIN R[k] : R[k][i].count \in Nat
         /\ \A i \in DOMAIN R[k+1] : R[k+1][i].count \in Nat
    BY <2>8, <2>9 DEF Tells, RowTells, Entry
  <2>13. O \in Seq(Numbers) /\ K[k] \in Seq(Numbers) /\ K[k+1] \in Seq(Numbers)
    BY <2>8, <2>11 DEF Listed
  <2>14. Marked(T, R[k+1]) /\ Behind(O, K[k+1])
    BY <1>4, <2>8, <2>9, <2>11, <2>12, <2>13, Together, SMTT(30)
  <2> QED BY <2>2, <2>9, <2>11, <2>14 DEF Grown
<1>7. \A k \in Nat : k \in G => k + 1 \in G
  <2> HIDE DEF Holds
  <2>1. ASSUME NEW k \in Nat, k \in G, k + 1 <= m PROVE Holds(k + 1)
    <3>1. k <= m
      BY <2>1
    <3> QED BY <1>6, <2>1, <3>1
  <2> QED BY <2>1
<1>8. Holds(m)
  <2> HIDE DEF Holds
  <2>1. Nat \subseteq G
    <3> HIDE DEF G
    <3> QED BY <1>5, <1>7, Induction
  <2>2. m \in G
    BY <2>1
  <2> QED BY <2>2
<1> QED BY <1>1, <1>2, <1>3, <1>8

-----------------------------------------------------------------------------
(* The table.                                                              *)

USE DEF table, fps, view, vars

\* The log and the bounds.
LogOK == log \in Seq(Frames) /\ Len(log) <= MaxFrames /\ cleared \in 0..Len(log)

\* The rows tell the frames since the last clear; the keys are those of the rows.
Rows == Tells(messages, log, cleared, Len(log)) /\ Listed(order, messages)

\* The counters.
Counted ==
  /\ rate_rx_count \in Nat /\ current_fps \in 0..MaxFrames /\ measured \in Nat
  /\ total_rx_count = Len(log) - cleared
  /\ measured + rate_rx_count = Len(log)

\* The main thread.
Thread ==
  /\ main \in {"idle", "show"} /\ (main = "idle" => dirty_items = <<>>)
  /\ paused \in BOOLEAN /\ clears \in 0..MaxClears /\ toggles \in 0..MaxToggles

IInv == LogOK /\ Rows /\ Counted /\ Thread

\* The bounds are numbers.
LEMMA Bounds == MaxFrames \in Nat /\ MaxClears \in Nat /\ MaxToggles \in Nat
  BY BoundAssumption

\* An empty table tells no frames, and has no keys.
LEMMA Nothing ==
  ASSUME NEW L, NEW n \in Nat
  PROVE  Tells(Empty, L, n, n) /\ Listed(<<>>, Empty)
<1>1. \A i : Since(L, n, n, i) = {}
  BY DEF Since
<1>2. DOMAIN Empty = {}
  BY DEF Empty
<1>3. Tells(Empty, L, n, n)
  BY <1>1, <1>2 DEF Tells
<1>4. ToSet(<<>>) = {} /\ <<>> \in Seq(Numbers) /\ Len(<<>>) = 0
  BY DEF ToSet
<1>5. Listed(<<>>, Empty)
  BY <1>2, <1>4, FS_EmptySet DEF Listed
<1> QED BY <1>3, <1>5

\* Frames that come later change nothing of those before.
LEMMA SinceBefore ==
  ASSUME NEW L \in Seq(Frames), NEW b \in Seq(Frames), NEW c \in Nat, NEW T,
         Tells(T, L, c, Len(L))
  PROVE  Tells(T, L \o b, c, Len(L))
<1>1. \A k \in c+1..Len(L) : (L \o b)[k] = L[k]
  OBVIOUS
<1>2. \A i : Since(L \o b, c, Len(L), i) = Since(L, c, Len(L), i)
  BY <1>1 DEF Since
<1>3. ASSUME NEW i \in DOMAIN T PROVE RowTells(T, L \o b, i, Since(L, c, Len(L), i))
  <2>1. RowTells(T, L, i, Since(L, c, Len(L), i))
    BY DEF Tells
  <2>2. Min(Since(L, c, Len(L), i)) \in c+1..Len(L)
    BY <2>1 DEF RowTells, Since
  <2> QED BY <1>1, <2>1, <2>2 DEF RowTells
<1> QED BY <1>2, <1>3 DEF Tells

\* A batch in the table (_process_rx_batch).
LEMMA BatchStep ==
  ASSUME LogOK, Rows, NEW b \in Batches, ProcessRxBatch(b)
  PROVE  /\ LogOK' /\ Len(log') = Len(log) + Len(b) /\ Len(b) \in Nat
         /\ Grown(messages, order, messages', order', log', cleared, Len(log'))
<1>1. b \in Seq(Frames) /\ Len(b) \in Nat /\ DOMAIN b = 1..Len(b)
  BY DEF Batches
<1>2. log \in Seq(Frames) /\ Len(log) \in Nat /\ cleared \in Nat /\ cleared <= Len(log)
  BY DEF LogOK
<1>3. log' = log \o b /\ Len(log) + Len(b) <= MaxFrames /\ cleared' = cleared
  BY DEF ProcessRxBatch
<1>4. /\ log' \in Seq(Frames) /\ Len(log') = Len(log) + Len(b)
      /\ \A k \in 1..Len(b) : log'[Len(log)+k] = b[k]
  BY <1>1, <1>2, <1>3
<1>5. LogOK'
  BY <1>1, <1>2, <1>3, <1>4, Bounds DEF LogOK
<1>6. Tells(messages, log', cleared, Len(log)) /\ Listed(order, messages)
  BY <1>1, <1>2, <1>3, SinceBefore DEF Rows
<1>7. messages' = RowsFold(messages, log', [k \in 1..Len(b) |-> Len(log) + k])
  BY DEF ProcessRxBatch, RowsFold
<1>8. order' = KeysFold(order, b)
  BY DEF ProcessRxBatch, KeysFold
<1>9. Grown(messages, order, messages', order', log', cleared, Len(log) + Len(b))
  <2>1. PICK m : m = Len(b)
    OBVIOUS
  <2>2. PICK a : a = Len(log)
    OBVIOUS
  <2>3. PICK L : L = log'
    OBVIOUS
  <2>4. /\ L \in Seq(Frames) /\ cleared \in Nat /\ a \in Nat /\ cleared <= a /\ m \in Nat
        /\ a + m <= Len(L) /\ DOMAIN b = 1..m /\ \A k \in 1..m : L[a+k] = b[k]
    <3>1. L \in Seq(Frames) /\ \A k \in 1..m : L[a+k] = b[k]
      BY <1>4, <2>1, <2>2, <2>3
    <3>2. Len(L) = a + m
      BY <1>4, <2>1, <2>2, <2>3
    <3>3. cleared \in Nat /\ a \in Nat /\ cleared <= a /\ m \in Nat /\ DOMAIN b = 1..m
      BY <1>1, <1>2, <2>1, <2>2
    <3> QED BY <3>1, <3>2, <3>3
  <2>5. Tells(messages, L, cleared, a) /\ Listed(order, messages)
    BY <1>6, <2>2, <2>3
  <2>6. Grown(messages, order, RowsFold(messages, L, [k \in 1..m |-> a + k]),
              KeysFold(order, b), L, cleared, a + m)
    BY <2>4, <2>5, Batch
  <2> QED BY <1>7, <1>8, <2>1, <2>2, <2>3, <2>6
<1> QED BY <1>1, <1>4, <1>5, <1>9

\* The marks are no part of what the rows tell.
LEMMA Unmark ==
  ASSUME Rows, NEW M, M = [n \in DOMAIN messages |-> [messages[n] EXCEPT !.dirty = FALSE]]
  PROVE  /\ DOMAIN M = DOMAIN messages
         /\ \A n \in DOMAIN messages :
              Values(M[n]) = Values(messages[n]) /\ M[n].dirty = FALSE
         /\ Tells(M, log, cleared, Len(log)) /\ Listed(order, M)
<1>1. DOMAIN M = DOMAIN messages
  OBVIOUS
<1>2. ASSUME NEW n \in DOMAIN messages
      PROVE  /\ M[n] \in Entry /\ M[n].dirty = FALSE /\ M[n].count = messages[n].count
             /\ M[n].data = messages[n].data /\ M[n].kind = messages[n].kind
  <2>1. PICK r : r = messages[n]
    OBVIOUS
  <2>2. r \in Entry
    BY <2>1 DEF Rows, Tells, RowTells
  <2>3. M[n] = [r EXCEPT !.dirty = FALSE]
    BY <2>1
  <2> QED BY <2>1, <2>2, <2>3 DEF Entry
<1>3. ASSUME NEW n \in DOMAIN M PROVE RowTells(M, log, n, Since(log, cleared, Len(log), n))
  <2>1. RowTells(messages, log, n, Since(log, cleared, Len(log), n))
    BY <1>1 DEF Rows, Tells
  <2> QED BY <1>1, <1>2, <2>1 DEF RowTells
<1>4. Tells(M, log, cleared, Len(log))
  BY <1>1, <1>3 DEF Rows, Tells
<1>5. Listed(order, M)
  BY <1>1 DEF Rows, Listed
<1> QED BY <1>1, <1>2, <1>4, <1>5 DEF Values

\* The invariant of the table.
THEOREM Invariance == Spec => []IInv
<1>1. Init => IInv
  <2> SUFFICES ASSUME Init PROVE IInv
    OBVIOUS
  <2>1. LogOK
    BY Bounds DEF Init, LogOK
  <2>2. Counted /\ Thread
    <3>1. Counted
      BY Bounds DEF Init, Counted
    <3>2. clears \in 0..MaxClears /\ toggles \in 0..MaxToggles
      BY Bounds DEF Init
    <3>3. Thread
      BY <3>2 DEF Init, Thread
    <3> QED BY <3>1, <3>3
  <2>3. Rows
    BY Nothing DEF Init, Rows
  <2> QED BY <2>1, <2>2, <2>3 DEF IInv
<1>2. IInv /\ [Next]_vars => IInv'
  <2> SUFFICES ASSUME IInv, [Next]_vars PROVE IInv'
    OBVIOUS
  <2>1. ASSUME NEW b \in Batches, ProcessRxBatch(b) PROVE IInv'
    <3>1. /\ LogOK' /\ Len(log') = Len(log) + Len(b) /\ Len(b) \in Nat
          /\ Grown(messages, order, messages', order', log', cleared, Len(log'))
      BY <2>1, BatchStep DEF IInv
    <3>2. Rows'
      BY <2>1, <3>1 DEF ProcessRxBatch, Rows, Grown
    <3>3. Counted'
      <4>1. /\ rate_rx_count \in Nat /\ current_fps \in 0..MaxFrames /\ measured \in Nat
            /\ total_rx_count = Len(log) - cleared /\ measured + rate_rx_count = Len(log)
        BY DEF IInv, Counted
      <4>2. Len(log) \in Nat /\ cleared \in Nat
        BY DEF IInv, LogOK
      <4>3. /\ rate_rx_count' = rate_rx_count + Len(b) /\ current_fps' = current_fps
            /\ total_rx_count' = total_rx_count + Len(b) /\ measured' = measured
            /\ cleared' = cleared
        BY <2>1 DEF ProcessRxBatch
      <4> QED BY <3>1, <4>1, <4>2, <4>3 DEF Counted
    <3>4. Thread'
      BY <2>1 DEF ProcessRxBatch, IInv, Thread
    <3> QED BY <3>1, <3>2, <3>3, <3>4 DEF IInv
  <2>2. CASE Collect
    <3>1. messages' = [n \in DOMAIN messages |-> [messages[n] EXCEPT !.dirty = FALSE]]
          /\ UNCHANGED <<order, log, cleared>>
      BY <2>2 DEF Collect
    <3>2. Rows'
      BY <3>1, Unmark DEF IInv, Rows
    <3>3. LogOK' /\ Counted' /\ Thread'
      BY <2>2 DEF Collect, IInv, LogOK, Counted, Thread
    <3> QED BY <3>2, <3>3 DEF IInv
  <2>3. CASE Show
    BY <2>3 DEF Show, IInv, LogOK, Rows, Counted, Thread
  <2>4. CASE ClearGrid
    <3>1. LogOK' /\ Counted' /\ Thread'
      BY <2>4, Bounds DEF ClearGrid, IInv, LogOK, Counted, Thread
    <3>2. Rows'
      <4>1. messages' = Empty /\ order' = <<>> /\ cleared' = Len(log) /\ log' = log
        BY <2>4 DEF ClearGrid
      <4>2. Len(log) \in Nat
        BY DEF IInv, LogOK
      <4> QED BY <4>1, <4>2, Nothing DEF Rows
    <3> QED BY <3>1, <3>2 DEF IInv
  <2>5. CASE TogglePause
    BY <2>5, Bounds DEF TogglePause, IInv, LogOK, Rows, Counted, Thread
  <2>6. CASE CalcFps
    BY <2>6, Bounds DEF CalcFps, IInv, LogOK, Rows, Counted, Thread
  <2>7. CASE UNCHANGED vars
    BY <2>7 DEF IInv, LogOK, Rows, Counted, Thread
  <2> QED BY <2>1, <2>2, <2>3, <2>4, <2>5, <2>6, <2>7 DEF Next
<1> QED BY <1>1, <1>2, PTL DEF Spec

\* Rows, totals and rates tell every frame once, for any identifiers, batches,
\* clears and pauses (pcan_view_gui.py:942-982, 1043-1065).
THEOREM TableRight == Spec => []TableOK
<1>1. IInv => TableOK
  <2> SUFFICES ASSUME IInv PROVE TableOK
    OBVIOUS
  <2>1. log \in Seq(Frames) /\ Len(log) \in Nat /\ Len(log) <= MaxFrames
        /\ cleared \in Nat /\ cleared <= Len(log)
    BY DEF IInv, LogOK
  <2>2. \A n : Received(n) = Since(log, cleared, Len(log), n)
    BY DEF Received, Since
  <2>3. RowsTellFrames
    <3>1. total_rx_count = Len(log) - cleared
      BY DEF IInv, Counted
    <3> QED BY <2>2, <3>1 DEF IInv, Rows, Tells, RowTells, RowsTellFrames
  <2>4. ASSUME NEW n \in DOMAIN messages PROVE n \in Numbers /\ Values(messages[n]) \in Row
    <3>1. PICK S : S = Since(log, cleared, Len(log), n)
      OBVIOUS
    <3>2. RowTells(messages, log, n, S) /\ S # {} /\ n \in Numbers
      BY <3>1 DEF IInv, Rows, Tells
    <3>3. S \in SUBSET (1..Len(log)) /\ IsFiniteSet(S) /\ IsFiniteSet(1..Len(log))
      <4>1. S \subseteq 1..Len(log)
        BY <2>1, <3>1 DEF Since
      <4>2. IsFiniteSet(1..Len(log))
        BY <2>1, FS_Interval
      <4> QED BY <4>1, <4>2, FS_Subset
    <3>4. Cardinality(S) \in 1..MaxFrames
      <4>1. Cardinality(1..Len(log)) = Len(log)
        <5>1. 1 \in Int /\ Len(log) \in Int /\ (1 > Len(log) => Len(log) = 0)
              /\ Len(log) - 1 + 1 = Len(log)
          BY <2>1
        <5> QED BY <5>1, FS_Interval
      <4>2. Cardinality(S) <= Len(log) /\ Cardinality(S) \in Nat /\ Cardinality(S) # 0
        <5>1. Cardinality(S) <= Cardinality(1..Len(log))
          BY <3>3, FS_Subset
        <5>2. Cardinality(S) \in Nat
          BY <3>3, FS_CardinalityType
        <5>3. Cardinality(S) # 0
          BY <3>2, <3>3, FS_EmptySet
        <5> QED BY <4>1, <5>1, <5>2, <5>3
      <4> QED BY <2>1, <4>2, Bounds
    <3>5. messages[n].data \in 1..MaxFrames
      <4>1. messages[n].data \in S
        BY <3>2 DEF RowTells
      <4>2. messages[n].data \in 1..Len(log)
        BY <3>3, <4>1
      <4> QED BY <2>1, <4>2, Bounds
    <3>6. messages[n].kind \in Kinds
      BY <3>2 DEF RowTells, Entry
    <3> QED BY <3>2, <3>4, <3>5, <3>6 DEF Values, Row, RowTells
  <2>5. TypeOK
    <3>1. {total_rx_count, rate_rx_count, current_fps, measured} \subseteq 0..MaxFrames
      BY <2>1, Bounds DEF IInv, Counted
    <3>2. Len(order) = Cardinality(DOMAIN messages) /\ ToSet(order) = DOMAIN messages
      BY DEF IInv, Rows, Listed
    <3> QED BY <2>4, <3>1, <3>2 DEF TypeOK, IInv, Thread
  <2>6. FramesMeasured
    BY DEF IInv, Counted, FramesMeasured
  <2> QED BY <2>3, <2>5, <2>6 DEF TableOK
<1> QED BY <1>1, Invariance, PTL

-----------------------------------------------------------------------------
(* The refresh.                                                            *)

ValueSet == [count : Nat, kind : Kinds, data : Nat]
Item == Numbers \X ValueSet

\* C are the marked ones of the first k rows, each not behind its row.
Collects(C, O, M, k) ==
  /\ C \in Seq(Item) /\ Len(C) <= k
  /\ \A p \in 1..Len(C) : C[p][1] \in DOMAIN M /\ C[p][2] = Values(M[C[p][1]])
  /\ \A j \in 1..k : M[O[j]].dirty => \E p \in 1..Len(C) : p <= j /\ C[p][1] = O[j]

\* The loop over the rows collects the marked ones in order.
LEMMA Collected ==
  ASSUME NEW O \in Seq(Numbers), NEW M, \A j \in 1..Len(O) : O[j] \in DOMAIN M,
         \A n \in DOMAIN M : Values(M[n]) \in ValueSet
  PROVE  Collects(ItemsFold(<<>>, M, O), O, M, Len(O))
<1>1. PICK m \in Nat : m = Len(O) /\ DOMAIN O = 1..m
  OBVIOUS
<1>2. PICK R : Passes("items", M, <<>>, O, m, R) /\ R[m] = ItemsFold(<<>>, M, O)
  BY <1>1, ItemsSteps
<1> DEFINE Holds(k) == Collects(R[k], O, M, k)
<1> DEFINE G == {k \in Nat : k <= m => Holds(k)}
<1>3. 0 \in G
  <2>1. R[0] = <<>>
    BY <1>2 DEF Passes
  <2>2. <<>> \in Seq(Item) /\ Len(<<>>) = 0 /\ 1..0 = {}
    OBVIOUS
  <2>3. Collects(<<>>, O, M, 0)
    BY <2>2 DEF Collects
  <2> QED BY <2>1, <2>3
<1>4. ASSUME NEW k \in Nat, k + 1 <= m, Holds(k) PROVE Holds(k + 1)
  <2>1. k \in 0..m-1 /\ k + 1 \in 1..m
    BY <1>4
  <2>2. PICK x : x = O[k+1]
    OBVIOUS
  <2>3. x \in Numbers /\ x \in DOMAIN M
    BY <1>1, <2>1, <2>2
  <2>4. PICK C : C = R[k]
    OBVIOUS
  <2>5. PICK E : E = R[k+1]
    OBVIOUS
  <2>6. E = IF M[x].dirty THEN Append(C, <<x, Values(M[x])>>) ELSE C
    BY <1>2, <2>1, <2>2, <2>4, <2>5 DEF Passes, LoopBody
  <2>7. /\ C \in Seq(Item) /\ Len(C) <= k
        /\ \A p \in 1..Len(C) : C[p][1] \in DOMAIN M /\ C[p][2] = Values(M[C[p][1]])
        /\ \A j \in 1..k : M[O[j]].dirty => \E p \in 1..Len(C) : p <= j /\ C[p][1] = O[j]
    BY <1>4, <2>4 DEF Collects
  <2>8. Len(C) \in Nat /\ \A j \in 1..k+1 : j \in 1..k \/ j = k + 1
    BY <2>7
  <2>9. CASE ~M[x].dirty
    <3>1. E = C
      BY <2>6, <2>9
    <3>2. Len(E) <= k + 1
      BY <2>7, <2>8, <3>1
    <3>3. \A j \in 1..k+1 : M[O[j]].dirty => \E p \in 1..Len(E) : p <= j /\ E[p][1] = O[j]
      BY <2>2, <2>7, <2>8, <2>9, <3>1
    <3> QED BY <2>5, <2>7, <3>1, <3>2, <3>3 DEF Collects
  <2>10. CASE M[x].dirty
    <3>1. PICK i : i = <<x, Values(M[x])>>
      OBVIOUS
    <3>2. i \in Item /\ i[1] = x /\ i[2] = Values(M[x])
      BY <2>3, <3>1 DEF Item
    <3>3. E = Append(C, i)
      BY <2>6, <2>10, <3>1
    <3>4. /\ E \in Seq(Item) /\ Len(E) = Len(C) + 1 /\ E[Len(C)+1] = i
          /\ \A p \in 1..Len(C) : E[p] = C[p]
      BY <2>7, <3>2, <3>3
    <3>5. \A p \in 1..Len(E) : p \in 1..Len(C) \/ p = Len(C) + 1
      BY <2>8, <3>4
    <3>6. \A p \in 1..Len(E) : E[p][1] \in DOMAIN M /\ E[p][2] = Values(M[E[p][1]])
      BY <2>3, <2>7, <3>2, <3>4, <3>5
    <3>7. ASSUME NEW j \in 1..k+1, M[O[j]].dirty
          PROVE  \E p \in 1..Len(E) : p <= j /\ E[p][1] = O[j]
      <4>1. CASE j \in 1..k
        <5>1. PICK p \in 1..Len(C) : p <= j /\ C[p][1] = O[j]
          BY <2>7, <3>7, <4>1
        <5>2. p \in 1..Len(E)
          BY <2>8, <3>4
        <5> QED BY <3>4, <5>1, <5>2
      <4>2. CASE j = k + 1
        <5>1. Len(C) + 1 \in 1..Len(E) /\ Len(C) + 1 <= j
          BY <2>7, <2>8, <3>4, <4>2
        <5>2. E[Len(C)+1][1] = O[j]
          BY <2>2, <3>2, <3>4, <4>2
        <5> QED BY <5>1, <5>2
      <4> QED BY <2>8, <4>1, <4>2
    <3>8. Len(E) <= k + 1
      BY <2>7, <2>8, <3>4
    <3> QED BY <2>5, <3>4, <3>6, <3>7, <3>8 DEF Collects
  <2> QED BY <2>9, <2>10
<1>5. \A k \in Nat : k \in G => k + 1 \in G
  <2> HIDE DEF Holds
  <2>1. ASSUME NEW k \in Nat, k \in G, k + 1 <= m PROVE Holds(k + 1)
    <3>1. k <= m
      BY <2>1
    <3> QED BY <1>4, <2>1, <3>1
  <2> QED BY <2>1
<1>6. Holds(m)
  <2> HIDE DEF Holds
  <2>1. Nat \subseteq G
    <3> HIDE DEF G
    <3> QED BY <1>3, <1>5, Induction
  <2>2. m \in G
    BY <2>1
  <2> QED BY <2>2
<1> QED BY <1>1, <1>2, <1>6

\* The display W is T with the first k items of S drawn over it.
Draws(W, T, S, k) ==
  /\ \A n \in DOMAIN T : n \in DOMAIN W
  /\ \A n \in DOMAIN W : \/ n \in DOMAIN T /\ W[n] = T[n]
                         \/ \E q \in 1..k : S[q][1] = n /\ W[n] = S[q][2]
  /\ \A p \in 1..k : \E q \in 1..k : /\ S[q][1] = S[p][1] /\ S[p][1] \in DOMAIN W
                                     /\ W[S[p][1]] = S[q][2]

\* The loop over the items draws each.
LEMMA Drawn ==
  ASSUME NEW T, NEW S, NEW m \in Nat, DOMAIN S = 1..m
  PROVE  Draws(TreeFold(T, S), T, S, m)
<1>1. PICK R : Passes("show", S, T, S, m, R) /\ R[m] = TreeFold(T, S)
  BY TreeSteps
<1> DEFINE Holds(k) == Draws(R[k], T, S, k)
<1> DEFINE G == {k \in Nat : k <= m => Holds(k)}
<1>2. 0 \in G
  <2>1. R[0] = T
    BY <1>1 DEF Passes
  <2> QED BY <2>1 DEF Draws
<1>3. ASSUME NEW k \in Nat, k + 1 <= m, Holds(k) PROVE Holds(k + 1)
  <2>1. k \in 0..m-1
    BY <1>3
  <2>2. PICK x : x = S[k+1][1]
    OBVIOUS
  <2>3. PICK W : W = R[k]
    OBVIOUS
  <2>4. PICK V : V = R[k+1]
    OBVIOUS
  <2>5. V = With(W, x, S[k+1][2])
    BY <1>1, <2>1, <2>2, <2>3, <2>4 DEF Passes, LoopBody
  <2>6. /\ DOMAIN V = DOMAIN W \cup {x} /\ V[x] = S[k+1][2]
        /\ \A n \in DOMAIN W : n # x => V[n] = W[n]
    BY <2>5 DEF With
  <2>7. Draws(W, T, S, k)
    BY <1>3, <2>3
  <2>8. /\ k + 1 \in 1..k+1 /\ 1..k \subseteq 1..k+1
        /\ \A p \in 1..k+1 : p \in 1..k \/ p = k + 1
    OBVIOUS
  <2>9. \A n \in DOMAIN T : n \in DOMAIN V
    BY <2>6, <2>7 DEF Draws
  <2>10. ASSUME NEW n \in DOMAIN V
         PROVE  \/ n \in DOMAIN T /\ V[n] = T[n]
                \/ \E q \in 1..k+1 : S[q][1] = n /\ V[n] = S[q][2]
    <3>1. CASE n = x
      BY <2>2, <2>6, <2>8, <3>1
    <3>2. CASE n # x
      <4>1. n \in DOMAIN W /\ V[n] = W[n]
        BY <2>6, <3>2
      <4>2. \/ n \in DOMAIN T /\ W[n] = T[n]
            \/ \E q \in 1..k : S[q][1] = n /\ W[n] = S[q][2]
        BY <2>7, <4>1 DEF Draws
      <4> QED BY <2>8, <4>1, <4>2
    <3> QED BY <3>1, <3>2
  <2>11. ASSUME NEW p \in 1..k+1
         PROVE  \E q \in 1..k+1 : /\ S[q][1] = S[p][1] /\ S[p][1] \in DOMAIN V
                                  /\ V[S[p][1]] = S[q][2]
    <3>1. CASE S[p][1] = x
      BY <2>2, <2>6, <2>8, <3>1
    <3>2. CASE S[p][1] # x
      <4>1. p \in 1..k
        BY <2>2, <2>8, <3>2
      <4> QED BY <2>6, <2>7, <2>8, <3>2, <4>1 DEF Draws
    <3> QED BY <3>1, <3>2
  <2> QED BY <2>4, <2>9, <2>10, <2>11 DEF Draws
<1>4. \A k \in Nat : k \in G => k + 1 \in G
  <2> HIDE DEF Holds
  <2>1. ASSUME NEW k \in Nat, k \in G, k + 1 <= m PROVE Holds(k + 1)
    <3>1. k <= m
      BY <2>1
    <3> QED BY <1>3, <2>1, <3>1
  <2> QED BY <2>1
<1>5. Holds(m)
  <2> HIDE DEF Holds
  <2>1. Nat \subseteq G
    <3> HIDE DEF G
    <3> QED BY <1>2, <1>4, Induction
  <2>2. m \in G
    BY <2>1
  <2> QED BY <2>2
<1> QED BY <1>1, <1>5

\* The values v of row n were once right, and n is still in the table.
Old(n, v) ==
  /\ n \in DOMAIN messages /\ v.count \in Nat /\ v.count <= messages[n].count
  /\ v.data \in Since(log, cleared, Len(log), n)

\* Values that wait to be shown are right where the row is not marked.
ItemOld(n, v) == Old(n, v) /\ (messages[n].dirty \/ v = Values(messages[n]))

\* What waits to be shown.
ItemsOld ==
  /\ dirty_items \in Seq(Item)
  /\ \A p \in 1..Len(dirty_items) : ItemOld(dirty_items[p][1], dirty_items[p][2])

\* What is shown was once right.
TreeOld == \A n \in DOMAIN tree : Old(n, tree[n])

\* Row n is among the items that will be shown.
Waits(n) == \E p \in 1..Len(dirty_items) : p <= Portion /\ dirty_items[p][1] = n

\* The first rows are marked, shown, or about to be shown.
Due ==
  \A k \in 1..Len(order) :
    k <= Portion => messages[order[k]].dirty \/ IsShown(order[k]) \/ Waits(order[k])

View == ItemsOld /\ TreeOld /\ Due

\* The fields of a row, and where the keys lead.
LEMMA RowFields ==
  ASSUME Rows
  PROVE  /\ \A n \in DOMAIN messages :
              /\ n \in Numbers /\ messages[n] \in Entry /\ Values(messages[n]) \in ValueSet
              /\ Old(n, Values(messages[n]))
         /\ order \in Seq(Numbers)
         /\ \A j \in 1..Len(order) : order[j] \in DOMAIN messages
         /\ ToSet(order) = DOMAIN messages
<1>1. ASSUME NEW n \in DOMAIN messages
      PROVE  /\ n \in Numbers /\ messages[n] \in Entry /\ Values(messages[n]) \in ValueSet
             /\ Old(n, Values(messages[n]))
  <2>1. RowTells(messages, log, n, Since(log, cleared, Len(log), n)) /\ n \in Numbers
    BY DEF Rows, Tells
  <2>2. messages[n] \in Entry
    BY <2>1 DEF RowTells
  <2>3. messages[n].data \in Since(log, cleared, Len(log), n)
    BY <2>1 DEF RowTells
  <2>4. Values(messages[n]) \in ValueSet
    BY <2>2 DEF Entry, Values, ValueSet
  <2>5. Old(n, Values(messages[n]))
    BY <2>2, <2>3 DEF Entry, Values, Old
  <2> QED BY <2>1, <2>2, <2>4, <2>5
<1>2. order \in Seq(Numbers) /\ ToSet(order) = DOMAIN messages
  BY DEF Rows, Listed
<1>3. \A j \in 1..Len(order) : order[j] \in DOMAIN messages
  BY <1>2 DEF ToSet
<1> QED BY <1>1, <1>2, <1>3

\* A batch marks the rows it changes.
LEMMA ViewBatch ==
  ASSUME LogOK, Rows, View, NEW b \in Batches, ProcessRxBatch(b), Rows'
  PROVE  View'
<1>1. /\ Marked(messages, messages') /\ Behind(order, order') /\ Listed(order', messages')
      /\ Len(log') = Len(log) + Len(b) /\ Len(b) \in Nat
  BY BatchStep DEF Grown
<1>2. UNCHANGED <<cleared, main, dirty_items, tree>> /\ log' = log \o b
  BY DEF ProcessRxBatch
<1>3. \A n : Since(log, cleared, Len(log), n) \subseteq Since(log', cleared', Len(log'), n)
  <2>1. log \in Seq(Frames) /\ b \in Seq(Frames) /\ cleared \in Nat
    BY DEF LogOK, Batches
  <2>2. \A k \in cleared+1..Len(log) : k \in cleared+1..Len(log') /\ log'[k] = log[k]
    BY <1>1, <1>2, <2>1
  <2> QED BY <1>2, <2>2 DEF Since
<1>4. ASSUME NEW n, NEW v, Old(n, v) PROVE Old(n, v)'
  <2>1. n \in DOMAIN messages' /\ messages[n].count <= messages'[n].count
    BY <1>1, <1>4 DEF Marked, Old
  <2>2. messages[n].count \in Nat /\ messages'[n].count \in Nat
    <3>1. messages[n] \in Entry
      BY <1>4, RowFields DEF Old
    <3>2. messages'[n] \in Entry
      BY <2>1 DEF Rows, Tells, RowTells
    <3> QED BY <3>1, <3>2 DEF Entry
  <2>3. v.count \in Nat /\ v.count <= messages[n].count
    BY <1>4 DEF Old
  <2>4. v.count <= messages'[n].count
    BY <2>1, <2>2, <2>3
  <2> QED BY <1>3, <1>4, <2>1, <2>3, <2>4 DEF Old
<1>5. ItemsOld'
  <2>1. ASSUME NEW n, NEW v, ItemOld(n, v) PROVE ItemOld(n, v)'
    <3>1. Old(n, v) /\ (messages[n].dirty \/ v = Values(messages[n]))
      BY <2>1 DEF ItemOld
    <3>2. messages'[n].dirty \/ messages'[n] = messages[n]
      BY <1>1, <3>1 DEF Marked, Old
    <3>3. Old(n, v)'
      BY <1>4, <3>1
    <3> QED BY <3>1, <3>2, <3>3 DEF ItemOld
  <2>2. ASSUME NEW p \in 1..Len(dirty_items)
        PROVE  ItemOld(dirty_items[p][1], dirty_items[p][2])'
    <3>1. PICK n : n = dirty_items[p][1]
      OBVIOUS
    <3>2. PICK v : v = dirty_items[p][2]
      OBVIOUS
    <3>3. ItemOld(n, v)'
      BY <2>1, <3>1, <3>2 DEF View, ItemsOld
    <3> QED BY <1>2, <3>1, <3>2, <3>3 DEF ItemOld, Old
  <2>3. dirty_items' \in Seq(Item) /\ Len(dirty_items') = Len(dirty_items)
    BY <1>2 DEF View, ItemsOld
  <2> QED BY <2>2, <2>3 DEF ItemsOld
<1>6. TreeOld'
  BY <1>2, <1>4 DEF View, TreeOld
<1>7. Due'
  <2>1. ASSUME NEW k \in 1..Len(order'), k <= Portion, NEW n, n = order'[k]
        PROVE  messages'[n].dirty \/ IsShown(n)' \/ Waits(n)'
    <3> SUFFICES ASSUME ~messages'[n].dirty PROVE IsShown(n)' \/ Waits(n)'
      OBVIOUS
    <3>1. order' \in Seq(Numbers) /\ order \in Seq(Numbers) /\ n \in DOMAIN messages'
      BY <1>1, <2>1, RowFields DEF Listed, ToSet
    <3>2. n \in DOMAIN messages /\ messages'[n] = messages[n]
      BY <1>1, <3>1 DEF Marked
    <3>3. k \in 1..Len(order) /\ n = order[k]
      BY <1>1, <2>1, <3>1, <3>2, RowFields DEF Behind
    <3>4. IsShown(n) \/ Waits(n)
      BY <2>1, <3>2, <3>3 DEF View, Due
    <3>5. IsShown(n) => IsShown(n)'
      BY <1>2, <3>2 DEF IsShown
    <3>6. Waits(n) => Waits(n)'
      BY <1>2 DEF Waits
    <3> QED BY <3>4, <3>5, <3>6
  <2>2. ASSUME NEW k \in 1..Len(order'), k <= Portion
        PROVE  (messages[order[k]].dirty \/ IsShown(order[k]) \/ Waits(order[k]))'
    BY <2>1, <2>2 DEF IsShown, Waits
  <2> QED BY <2>2 DEF Due
<1> QED BY <1>5, <1>6, <1>7 DEF View

\* The refresh takes along the first rows that are marked.
LEMMA ViewCollect ==
  ASSUME Rows, Thread, View, Collect
  PROVE  View'
<1>1. /\ dirty_items = <<>> /\ UNCHANGED <<order, log, cleared, tree>>
      /\ dirty_items' = ItemsFold(<<>>, messages, order)
  BY DEF Collect, Thread, ItemsFold
<1>2. PICK M : M = messages'
  OBVIOUS
<1>3. M = [n \in DOMAIN messages |-> [messages[n] EXCEPT !.dirty = FALSE]]
  BY <1>2 DEF Collect
<1>4. /\ DOMAIN M = DOMAIN messages
      /\ \A n \in DOMAIN messages : Values(M[n]) = Values(messages[n]) /\ M[n].dirty = FALSE
  BY <1>3, Unmark
<1>5. Collects(dirty_items', order, messages, Len(order))
  BY <1>1, RowFields, Collected
<1>6. ASSUME NEW n, NEW v, Old(n, v) PROVE Old(n, v)'
  <2>1. M[n].count = messages[n].count
    BY <1>4, <1>6 DEF Old, Values
  <2> QED BY <1>1, <1>2, <1>4, <1>6, <2>1 DEF Old
<1>7. ItemsOld'
  <2>1. ASSUME NEW p \in 1..Len(dirty_items')
        PROVE  ItemOld(dirty_items[p][1], dirty_items[p][2])'
    <3>1. PICK n : n = dirty_items'[p][1]
      OBVIOUS
    <3>2. PICK v : v = dirty_items'[p][2]
      OBVIOUS
    <3>3. n \in DOMAIN messages /\ v = Values(messages[n])
      BY <1>5, <3>1, <3>2 DEF Collects
    <3>4. Old(n, v)'
      BY <1>6, <3>3, RowFields
    <3>5. v = Values(messages'[n])
      BY <1>2, <1>4, <3>3
    <3> QED BY <3>1, <3>2, <3>4, <3>5 DEF ItemOld, Old
  <2>2. dirty_items' \in Seq(Item)
    BY <1>5 DEF Collects
  <2> QED BY <2>1, <2>2 DEF ItemsOld
<1>8. TreeOld'
  BY <1>1, <1>6 DEF View, TreeOld
<1>9. Due'
  <2>1. ASSUME NEW k \in 1..Len(order), k <= Portion, NEW n, n = order[k]
        PROVE  IsShown(n)' \/ Waits(n)'
    <3>1. n \in DOMAIN messages /\ k \in Nat /\ Portion \in Nat
      BY <2>1, RowFields, PortionAssumption
    <3>2. CASE messages[n].dirty
      <4>1. PICK p \in 1..Len(dirty_items') : p <= k /\ dirty_items'[p][1] = n
        BY <1>5, <2>1, <3>2 DEF Collects
      <4>2. p <= Portion
        <5>1. p \in Nat
          BY <1>5 DEF Collects
        <5> QED BY <2>1, <3>1, <4>1, <5>1
      <4> QED BY <1>1, <4>1, <4>2 DEF Waits
    <3>3. CASE IsShown(n)
      BY <1>1, <1>2, <1>4, <3>1, <3>3 DEF IsShown
    <3>4. ~Waits(n)
      BY <1>1 DEF Waits
    <3> QED BY <2>1, <3>2, <3>3, <3>4 DEF View, Due
  <2>2. ASSUME NEW k \in 1..Len(order'), k <= Portion
        PROVE  (IsShown(order[k]) \/ Waits(order[k]))'
    BY <1>1, <2>1, <2>2 DEF IsShown, Waits
  <2> QED BY <2>2 DEF Due
<1> QED BY <1>7, <1>8, <1>9 DEF View

\* The first items of what was collected.
LEMMA Portions ==
  ASSUME NEW D \in Seq(Item)
  PROVE  \E m \in Nat : /\ DOMAIN Shown(D) = 1..m /\ m <= Len(D)
                        /\ \A p \in 1..m : Shown(D)[p] = D[p]
                        /\ \A p \in 1..Len(D) : p <= Portion => p \in 1..m
<1>1. CASE Len(D) <= Portion
  <2>1. Shown(D) = D
    BY <1>1 DEF Shown
  <2>2. PICK m \in Nat : m = Len(D)
    OBVIOUS
  <2>3. DOMAIN D = 1..m /\ m <= Len(D) /\ 1..Len(D) = 1..m
    BY <2>2
  <2> QED BY <2>1, <2>3
<1>2. CASE ~(Len(D) <= Portion)
  <2>1. Shown(D) = SubSeq(D, 1, Portion)
    BY <1>2 DEF Shown
  <2>2. Portion \in Nat /\ Portion <= Len(D) /\ Len(D) \in Nat
    BY <1>2, PortionAssumption
  <2>3. DOMAIN Shown(D) = 1..Portion /\ \A p \in 1..Portion : Shown(D)[p] = D[p]
    BY <2>1, <2>2
  <2> QED BY <2>2, <2>3
<1> QED BY <1>1, <1>2

\* What is shown is what was collected, and was right unless the row is marked.
LEMMA ViewShow ==
  ASSUME Rows, View, Show
  PROVE  View'
<1>1. /\ UNCHANGED <<messages, order, log, cleared>> /\ dirty_items' = <<>>
      /\ tree' = TreeFold(tree, Shown(dirty_items))
  BY DEF Show, TreeFold
<1>2. PICK D : D = dirty_items
  OBVIOUS
<1>3. PICK S : S = Shown(D)
  OBVIOUS
<1>4. /\ D \in Seq(Item)
      /\ \A p \in 1..Len(D) : /\ Old(D[p][1], D[p][2])
                              /\ \/ messages[D[p][1]].dirty
                                 \/ D[p][2] = Values(messages[D[p][1]])
  BY <1>2 DEF View, ItemsOld, ItemOld
<1>5. PICK m \in Nat : /\ DOMAIN S = 1..m /\ m <= Len(D)
                       /\ \A p \in 1..m : S[p] = D[p]
                       /\ \A p \in 1..Len(D) : p <= Portion => p \in 1..m
  BY <1>3, <1>4, Portions
<1>6. PICK W : W = tree'
  OBVIOUS
<1>7. Draws(W, tree, S, m)
  BY <1>1, <1>2, <1>3, <1>5, <1>6, Drawn
<1>8. ASSUME NEW p \in 1..m
      PROVE  /\ Old(S[p][1], S[p][2])
             /\ messages[S[p][1]].dirty \/ S[p][2] = Values(messages[S[p][1]])
  <2>1. p \in 1..Len(D) /\ S[p] = D[p]
    BY <1>4, <1>5
  <2> QED BY <1>4, <2>1
<1>9. \A n, v : Old(n, v) => Old(n, v)'
  BY <1>1 DEF Old
<1>10. TreeOld'
  <2>1. ASSUME NEW n \in DOMAIN W PROVE Old(n, W[n])
    <3>1. \/ n \in DOMAIN tree /\ W[n] = tree[n]
          \/ \E q \in 1..m : S[q][1] = n /\ W[n] = S[q][2]
      BY <1>7 DEF Draws
    <3> QED BY <1>8, <3>1 DEF View, TreeOld
  <2>2. \A n \in DOMAIN W : Old(n, W[n])'
    BY <1>9, <2>1
  <2> QED BY <1>6, <2>2 DEF TreeOld
<1>11. ItemsOld'
  BY <1>1 DEF ItemsOld
<1>12. Due'
  <2>1. ASSUME NEW k \in 1..Len(order), k <= Portion, ~messages[order[k]].dirty
        PROVE  order[k] \in DOMAIN W /\ W[order[k]] = Values(messages[order[k]])
    <3>1. PICK n : n = order[k]
      OBVIOUS
    <3>2. n \in DOMAIN W
      <4>1. CASE IsShown(n)
        BY <1>7, <4>1 DEF Draws, IsShown
      <4>2. CASE Waits(n)
        <5>1. PICK p \in 1..Len(D) : p <= Portion /\ D[p][1] = n
          BY <1>2, <4>2 DEF Waits
        <5>2. p \in 1..m /\ S[p][1] = n
          BY <1>5, <5>1
        <5> QED BY <1>7, <5>2 DEF Draws
      <4> QED BY <2>1, <3>1, <4>1, <4>2 DEF View, Due
    <3>3. ASSUME NEW q \in 1..m, S[q][1] = n PROVE S[q][2] = Values(messages[n])
      BY <1>8, <2>1, <3>1, <3>3
    <3>4. CASE \E q \in 1..m : S[q][1] = n /\ W[n] = S[q][2]
      BY <3>1, <3>2, <3>3, <3>4
    <3>5. CASE ~(\E q \in 1..m : S[q][1] = n /\ W[n] = S[q][2])
      <4>1. n \in DOMAIN tree /\ W[n] = tree[n]
        BY <1>7, <3>2, <3>5 DEF Draws
      <4>2. ASSUME NEW p \in 1..m, S[p][1] = n PROVE FALSE
        <5>1. \E q \in 1..m : S[q][1] = S[p][1] /\ W[S[p][1]] = S[q][2]
          BY <1>7 DEF Draws
        <5> QED BY <3>5, <4>2, <5>1
      <4>3. ~Waits(n)
        BY <1>2, <1>5, <4>2 DEF Waits
      <4>4. IsShown(n)
        BY <2>1, <3>1, <4>3 DEF View, Due
      <4> QED BY <3>1, <3>2, <4>1, <4>4 DEF IsShown
    <3> QED BY <3>4, <3>5
  <2> QED BY <1>1, <1>6, <2>1 DEF Due, IsShown
<1> QED BY <1>10, <1>11, <1>12 DEF View

\* The first rows of the table are on the display or marked again, for any number
\* of identifiers and portions, whatever comes between the look at the table and
\* the drawing (pcan_view_gui.py:1043-1110).
THEOREM Display == Spec => []DisplayFollows
<1>1. Init => View
  <2> SUFFICES ASSUME Init PROVE View
    OBVIOUS
  <2>1. dirty_items = <<>> /\ order = <<>> /\ DOMAIN tree = {}
    BY DEF Init, Empty
  <2>2. <<>> \in Seq(Item) /\ Len(<<>>) = 0
    OBVIOUS
  <2> QED BY <2>1, <2>2 DEF View, ItemsOld, TreeOld, Due
<1>2. IInv /\ IInv' /\ View /\ [Next]_vars => View'
  <2> SUFFICES ASSUME IInv, IInv', View, [Next]_vars PROVE View'
    OBVIOUS
  <2>1. ASSUME NEW b \in Batches, ProcessRxBatch(b) PROVE View'
    BY <2>1, ViewBatch DEF IInv
  <2>2. CASE Collect
    BY <2>2, ViewCollect DEF IInv
  <2>3. CASE Show
    BY <2>3, ViewShow DEF IInv
  <2>4. CASE ClearGrid
    <3>1. dirty_items' = <<>> /\ order' = <<>> /\ DOMAIN tree' = {}
      BY <2>4 DEF ClearGrid, IInv, Thread, Empty
    <3>2. <<>> \in Seq(Item) /\ Len(<<>>) = 0
      OBVIOUS
    <3> QED BY <3>1, <3>2 DEF View, ItemsOld, TreeOld, Due
  <2>5. CASE TogglePause \/ CalcFps \/ UNCHANGED vars
    <3>1. UNCHANGED <<messages, order, log, cleared, dirty_items, tree>>
      BY <2>5 DEF TogglePause, CalcFps
    <3> QED BY <3>1 DEF View, ItemsOld, ItemOld, TreeOld, Due, Old, IsShown,
                                 Waits
  <2> QED BY <2>1, <2>2, <2>3, <2>4, <2>5 DEF Next
<1>3. IInv /\ View => DisplayFollows
  <2> SUFFICES ASSUME IInv, View, main = "idle" PROVE
         /\ \A k \in 1..Len(order) :
              k <= Portion => messages[order[k]].dirty \/ IsShown(order[k])
         /\ \A n \in DOMAIN tree : /\ n \in DOMAIN messages
                                   /\ tree[n].count <= messages[n].count
                                   /\ tree[n].data \in Received(n)
    BY DEF DisplayFollows
  <2>1. \A n : ~Waits(n)
    BY DEF IInv, Thread, Waits
  <2>2. \A n : Received(n) = Since(log, cleared, Len(log), n)
    BY DEF Received, Since
  <2> QED BY <2>1, <2>2 DEF View, Due, TreeOld, Old
<1> QED BY <1>1, <1>2, <1>3, Invariance, PTL DEF Spec

=============================================================================
