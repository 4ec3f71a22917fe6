-------------------------- MODULE AcceptChain_proofs --------------------------
(***************************************************************************)
(* What holds of the accept chain for any number of candidates, any text   *)
(* and any hunks the contract allows.  The runs of MCAcceptChain check the *)
(* same properties on texts of three lines.                                *)
(*                                                                         *)
(* The argument: folds are recursions; to put one more hunk into the       *)
(* composition is to splice it in at its position, and moves the positions *)
(* below it by its delta; so the offsets computed from hunks alone are     *)
(* positions, and both the edits of an accept and the hunks of an export,  *)
(* lowest first, are splices that build the composition one hunk at a      *)
(* time.  And each edit puts its text between two parts of the document,   *)
(* so that an #include the filter leaves comes once.                       *)
(***************************************************************************)
EXTENDS AcceptChain, WellFoundedInduction, SequenceTheorems, FiniteSetTheorems, TLAPS

-----------------------------------------------------------------------------
(***************************************************************************)
(* Induction and recursion over the natural numbers; folds as recursions.  *)
(***************************************************************************)
\* The order of the natural numbers as a relation.
LessThan == {p \in Nat \X Nat : p[1] < p[2]}

\* The natural numbers are well-founded.
LEMMA LessThanWellFounded == IsWellFoundedOn(LessThan, Nat)
  BY NatLessThanWellFounded DEF OpToRel, LessThan

\* The least number of a set.
LEMMA Least ==
  ASSUME NEW S \in SUBSET Nat, S # {}
  PROVE  \E m \in S : \A k \in S : m <= k
<1>1. PICK m \in S : \A k \in S : <<k, m>> \notin LessThan
  BY LessThanWellFounded, WFMin
<1>2. ASSUME NEW k \in S PROVE m <= k
  <2>1. m \in Nat /\ k \in Nat /\ <<k, m>> \notin LessThan
    BY <1>1
  <2>2. QED
    BY <2>1 DEF LessThan
<1>3. QED
  BY <1>2

\* Induction over the natural numbers, for a set: the library's theorem takes an
\* operator.
LEMMA Induction ==
  ASSUME NEW S, 0 \in S, \A n \in Nat : n \in S => n + 1 \in S
  PROVE  Nat \subseteq S
<1>1. SUFFICES ASSUME Nat \ S # {} PROVE FALSE
  OBVIOUS
<1>2. PICK m \in Nat \ S : \A k \in Nat \ S : m <= k
  <2>1. Nat \ S \in SUBSET Nat
    OBVIOUS
  <2>2. QED
    BY <1>1, <2>1, Least
<1>3. m # 0 /\ m - 1 \in Nat
  BY <1>2
<1>4. m - 1 \in S
  BY <1>2, <1>3
<1>5. QED
  BY <1>2, <1>3, <1>4

\* Primitive recursion.
Runs(f, a, step) == f[0] = a /\ \A n \in Nat : f[n + 1] = step[n][f[n]]

\* A function defined by primitive recursion exists.
LEMMA Recursion ==
  ASSUME NEW A, NEW a \in A, NEW step \in [Nat -> [A -> A]]
  PROVE  \E f \in [Nat -> A] : Runs(f, a, step)
<1> DEFINE Fits(g, n) == g[0] = a /\ \A k \in 0..n-1 : g[k + 1] = step[k][g[k]]
           Good == {n \in Nat : \E g \in [Nat -> A] : Fits(g, n)}
           Same == {n \in Nat : \A g, h \in [Nat -> A] : Fits(g, n) /\ Fits(h, n) => g[n] = h[n]}
<1>1. 0 \in Good
  <2>1. [i \in Nat |-> a] \in [Nat -> A] /\ Fits([i \in Nat |-> a], 0)
    OBVIOUS
  <2>2. QED
    BY <2>1
<1>2. ASSUME NEW n \in Nat, n \in Good PROVE n + 1 \in Good
  <2>1. PICK g \in [Nat -> A] : Fits(g, n)
    BY <1>2
  <2> DEFINE h == [i \in Nat |-> IF i = n + 1 THEN step[n][g[n]] ELSE g[i]]
  <2>2. h \in [Nat -> A]
    OBVIOUS
  <2>3. Fits(h, n + 1)
    BY <2>1
  <2> HIDE DEF h, Fits
  <2>4. QED
    BY <2>2, <2>3
<1>3. Nat \subseteq Good
  <2> HIDE DEF Good
  <2>1. QED
    BY <1>1, <1>2, Induction
<1>4. 0 \in Same
  OBVIOUS
<1>5. ASSUME NEW n \in Nat, n \in Same PROVE n + 1 \in Same
  <2>1. ASSUME NEW g \in [Nat -> A], NEW h \in [Nat -> A], Fits(g, n + 1), Fits(h, n + 1)
        PROVE  g[n + 1] = h[n + 1]
    <3>1. Fits(g, n) /\ Fits(h, n)
      BY <2>1
    <3>2. g[n] = h[n]
      BY <1>5, <3>1
    <3>3. QED
      BY <2>1, <3>2
  <2>2. QED
    BY <2>1
<1>6. Nat \subseteq Same
  <2> HIDE DEF Same
  <2>1. QED
    BY <1>4, <1>5, Induction
<1> DEFINE G == [n \in Nat |-> CHOOSE g \in [Nat -> A] : Fits(g, n)]
           f == [n \in Nat |-> G[n][n]]
<1>7. \A n \in Nat : G[n] \in [Nat -> A] /\ Fits(G[n], n)
  <2> HIDE DEF Fits
  <2>1. QED
    BY <1>3
<1>8. \A n \in Nat : f[n] = G[n][n]
  OBVIOUS
<1>9. f \in [Nat -> A] /\ f[0] = a
  BY <1>7
<1>10. ASSUME NEW n \in Nat PROVE f[n + 1] = step[n][f[n]]
  <2> HIDE DEF G, f
  <2>1. Fits(G[n + 1], n + 1) /\ G[n + 1] \in [Nat -> A]
    BY <1>7
  <2>2. Fits(G[n], n) /\ G[n] \in [Nat -> A]
    BY <1>7
  <2>3. Fits(G[n + 1], n) /\ G[n + 1][n + 1] = step[n][G[n + 1][n]]
    BY <2>1
  <2>4. G[n + 1][n] = G[n][n]
    <3>1. n \in Same
      BY <1>6
    <3> HIDE DEF Fits
    <3>2. QED
      BY <2>1, <2>2, <2>3, <3>1
  <2>5. QED
    BY <2>3, <2>4, <1>8
<1>11. QED
  BY <1>9, <1>10 DEF Runs

\* A fold from the left, by the subsets of the domain as FoldLeft has it.
Folds(g, a, s, step) ==
  \A D \in SUBSET (1..Len(s)) :
    g[D] = IF D = {} THEN a ELSE step[g[D \ {Max(D)}]][s[Max(D)]]

\* The top of the first n + 1 numbers, where it is one of them.
LEMMA MaxOfTop ==
  ASSUME NEW n \in Nat, NEW D \in SUBSET (1..n + 1), n + 1 \in D
  PROVE  Max(D) = n + 1 /\ D \ {Max(D)} \in SUBSET (1..n)
<1>1. n + 1 \in D /\ \A y \in D : n + 1 >= y
  OBVIOUS
<1>2. \A x \in D : (\A y \in D : x >= y) => x = n + 1
  OBVIOUS
<1>3. Max(D) = n + 1
  BY <1>1, <1>2 DEF Max
<1>4. QED
  BY <1>3

\* The function a fold chooses exists.
LEMMA FoldExists ==
  ASSUME NEW A, NEW a \in A, NEW E, NEW s \in Seq(E), NEW step \in [A -> [E -> A]]
  PROVE  \E g \in [SUBSET (1..Len(s)) -> A] : Folds(g, a, s, step)
<1> DEFINE Eq(g, D) == g[D] = IF D = {} THEN a ELSE step[g[D \ {Max(D)}]][s[Max(D)]]
           Good(n) == \E g \in [SUBSET (1..n) -> A] : \A D \in SUBSET (1..n) : Eq(g, D)
           S == {n \in Nat : n <= Len(s) => Good(n)}
<1>1. \A x \in A, e \in E : step[x][e] \in A
  OBVIOUS
<1>2. Good(0)
  <2> DEFINE g == [D \in SUBSET (1..0) |-> a]
  <2>1. g \in [SUBSET (1..0) -> A]
    OBVIOUS
  <2>2. \A D \in SUBSET (1..0) : D = {} /\ Eq(g, D)
    OBVIOUS
  <2>3. QED
    BY <2>1, <2>2
<1>3. ASSUME NEW n \in Nat, Good(n), n + 1 <= Len(s) PROVE Good(n + 1)
  <2>1. PICK g \in [SUBSET (1..n) -> A] : \A D \in SUBSET (1..n) : Eq(g, D)
    BY <1>3
  <2> DEFINE h == [D \in SUBSET (1..n + 1) |->
                     IF n + 1 \in D THEN step[g[D \ {n + 1}]][s[n + 1]] ELSE g[D]]
  <2>2. s[n + 1] \in E
    BY <1>3
  <2>3. ASSUME NEW D \in SUBSET (1..n + 1), n + 1 \notin D PROVE D \in SUBSET (1..n)
    BY <2>3
  <2>4. ASSUME NEW D \in SUBSET (1..n + 1) PROVE D \ {n + 1} \in SUBSET (1..n)
    OBVIOUS
  <2>5. h \in [SUBSET (1..n + 1) -> A]
    <3>1. ASSUME NEW D \in SUBSET (1..n + 1), n + 1 \in D
          PROVE  step[g[D \ {n + 1}]][s[n + 1]] \in A
      <4>1. g[D \ {n + 1}] \in A
        BY <2>1, <2>4
      <4>2. QED
        BY <1>1, <2>2, <4>1
    <3>2. ASSUME NEW D \in SUBSET (1..n + 1), n + 1 \notin D PROVE g[D] \in A
      BY <2>1, <2>3, <3>2
    <3>3. QED
      BY <3>1, <3>2
  <2>6. ASSUME NEW D \in SUBSET (1..n + 1) PROVE Eq(h, D)
    <3>1. CASE n + 1 \in D
      <4>1. Max(D) = n + 1 /\ D \ {Max(D)} \in SUBSET (1..n)
        BY <3>1, MaxOfTop
      <4>2. h[D \ {n + 1}] = g[D \ {n + 1}]
        BY <4>1
      <4>3. h[D] = step[g[D \ {n + 1}]][s[n + 1]]
        BY <3>1
      <4> HIDE DEF h
      <4>4. QED
        BY <3>1, <4>1, <4>2, <4>3
    <3>2. CASE n + 1 \notin D
      <4>1. D \in SUBSET (1..n) /\ h[D] = g[D] /\ Eq(g, D)
        BY <2>1, <2>3, <3>2
      <4>2. CASE D = {}
        BY <4>1, <4>2
      <4>3. CASE D # {}
        <5>1. D \ {Max(D)} \in SUBSET (1..n) /\ n + 1 \notin D \ {Max(D)}
          BY <4>1, <3>2
        <5>2. h[D \ {Max(D)}] = g[D \ {Max(D)}]
          BY <5>1
        <5> HIDE DEF h
        <5>3. QED
          BY <4>1, <4>3, <5>2
      <4>4. QED
        BY <4>2, <4>3
    <3>3. QED
      BY <3>1, <3>2
  <2> HIDE DEF h, Eq
  <2>7. QED
    BY <2>5, <2>6
<1>4. Nat \subseteq S
  <2> HIDE DEF Good
  <2>1. 0 \in S
    BY <1>2
  <2>2. \A n \in Nat : n \in S => n + 1 \in S
    BY <1>3
  <2> HIDE DEF S
  <2>3. QED
    BY <2>1, <2>2, Induction
<1>5. Good(Len(s))
  <2> HIDE DEF Good
  <2>1. QED
    BY <1>4
<1>6. QED
  BY <1>5 DEF Folds

\* The largest number of a finite set of them.
LEMMA MaxIsIn ==
  ASSUME NEW n \in Nat, NEW D \in SUBSET (1..n), D # {}
  PROVE  Max(D) \in D /\ \A y \in D : Max(D) >= y
<1> DEFINE S == {k \in Nat : \E x \in D : k = n - x}
<1>1. \A x \in D : n - x \in Nat
  OBVIOUS
<1>2. S \in SUBSET Nat /\ S # {}
  BY <1>1
<1>3. PICK m \in S : \A k \in S : m <= k
  <2> HIDE DEF S
  <2>1. QED
    BY <1>2, Least
<1>4. PICK x \in D : m = n - x
  BY <1>3
<1>5. ASSUME NEW y \in D PROVE x >= y
  <2>1. n - y \in S
    BY <1>1
  <2>2. m <= n - y
    BY <1>3, <2>1
  <2>3. QED
    BY <1>4, <2>2
<1>6. \E z \in D : \A y \in D : z >= y
  BY <1>5
<1>7. QED
  BY <1>6 DEF Max

\* The largest of the first k + 1 numbers, and the rest.
LEMMA TopOfPrefix ==
  ASSUME NEW k \in Nat
  PROVE  Max(1..k + 1) = k + 1 /\ (1..k + 1) \ {k + 1} = 1..k
<1>1. 1..k + 1 \in SUBSET (1..k + 1) /\ k + 1 \in 1..k + 1
  OBVIOUS
<1>2. Max(1..k + 1) = k + 1
  BY <1>1, MaxOfTop
<1>3. QED
  BY <1>2

\* c takes a fold along the initial parts of s.
Along(c, A, a, E, s, step) ==
  /\ a \in A /\ s \in Seq(E) /\ step \in [A -> [E -> A]] /\ c[{}] = a
  /\ \A k \in Nat : k < Len(s) /\ c[1..k] \in A => c[1..k + 1] = step[c[1..k]][s[k + 1]]

\* A fold along the initial parts of a sequence stays in its set.
LEMMA FoldAlong ==
  ASSUME NEW A, NEW a, NEW E, NEW s, NEW step, NEW c, Along(c, A, a, E, s, step)
  PROVE  \A k \in 0..Len(s) : c[1..k] \in A
<1> USE DEF Along
<1> DEFINE S == {k \in Nat : k <= Len(s) => c[1..k] \in A}
<1>1. 0 \in S
  <2>1. 1..0 = {}
    OBVIOUS
  <2>2. QED
    BY <2>1
<1>2. ASSUME NEW k \in Nat, k \in S PROVE k + 1 \in S
  <2>1. SUFFICES ASSUME k + 1 <= Len(s) PROVE c[1..k + 1] \in A
    OBVIOUS
  <2>2. s[k + 1] \in E
    BY <2>1
  <2>3. c[1..k] \in A
    BY <1>2, <2>1
  <2>4. c[1..k + 1] = step[c[1..k]][s[k + 1]]
    BY <2>1, <2>3
  <2>5. QED
    BY <2>2, <2>3, <2>4
<1>3. Nat \subseteq S
  <2> HIDE DEF S
  <2>3. QED
    BY <1>1, <1>2, Induction
<1>4. QED
  BY <1>3

\* lineOffsetForStart as a recursion over the accepted hunks.
OffsetRun(acc, start) ==
  \E f \in [0..Len(acc) -> Int] :
    /\ f[0] = 0
    /\ \A k \in 0..Len(acc)-1 : f[k + 1] = f[k] + LineShift(acc[k + 1], start)
    /\ LineOffsetForStart(start, acc) = f[Len(acc)]

\* The fold of lineOffsetForStart is that recursion.
LEMMA OffsetFold ==
  ASSUME NEW start \in Int, NEW E, \A h \in E : LineShift(h, start) \in Int, NEW acc \in Seq(E)
  PROVE  OffsetRun(acc, start)
<1> DEFINE step == [x \in Int |-> [e \in E |-> x + LineShift(e, start)]]
           body(g) == [D \in SUBSET DOMAIN acc |->
              IF D = {} THEN 0 ELSE g[D \ {Max(D)}] + LineShift(acc[Max(D)], start)]
           c == CHOOSE g : g = body(g)
<1>1. Len(acc) \in Nat /\ DOMAIN acc = 1..Len(acc) /\ 0 \in Int
  OBVIOUS
<1>2. step \in [Int -> [E -> Int]]
  OBVIOUS
<1>3. PICK g \in [SUBSET (1..Len(acc)) -> Int] : Folds(g, 0, acc, step)
  <2> HIDE DEF step
  <2>1. QED
    BY <1>1, <1>2, FoldExists
<1>4. g = body(g)
  <2>1. ASSUME NEW D \in SUBSET (1..Len(acc)), D # {}
        PROVE  g[D] = g[D \ {Max(D)}] + LineShift(acc[Max(D)], start)
    <3>1. Max(D) \in 1..Len(acc) /\ D \ {Max(D)} \in SUBSET (1..Len(acc))
      BY <1>1, <2>1, MaxIsIn
    <3>2. acc[Max(D)] \in E
      BY <3>1
    <3>3. g[D \ {Max(D)}] \in Int
      BY <3>1
    <3>4. g[D] = step[g[D \ {Max(D)}]][acc[Max(D)]]
      BY <1>3, <2>1 DEF Folds
    <3>5. QED
      BY <3>2, <3>3, <3>4
  <2>2. g[{}] = 0 /\ {} \in SUBSET (1..Len(acc))
    BY <1>3 DEF Folds
  <2>3. ASSUME NEW D \in SUBSET (1..Len(acc))
        PROVE  g[D] = IF D = {} THEN 0 ELSE g[D \ {Max(D)}] + LineShift(acc[Max(D)], start)
    BY <2>1, <2>2
  <2>4. QED
    BY <1>1, <2>3
<1>5. c = body(c)
  <2> HIDE DEF body
  <2>1. QED
    BY <1>4
<1>6. LineOffsetForStart(start, acc) = c[DOMAIN acc]
  BY DEF LineOffsetForStart, FoldLeft, MapThenFoldSet
<1>7. c[{}] = 0
  <2>1. body(c)[{}] = 0
    OBVIOUS
  <2> HIDE DEF body, c
  <2>2. QED
    BY <1>5, <2>1
<1>8. ASSUME NEW k \in Nat, k < Len(acc)
      PROVE  c[1..k + 1] = c[1..k] + LineShift(acc[k + 1], start)
  <2>1. 1..k + 1 \in SUBSET DOMAIN acc /\ 1..k + 1 # {}
    <3>1. 1 \in 1..k + 1 /\ \A x \in 1..k + 1 : x \in 1..Len(acc)
      BY <1>1, <1>8
    <3>2. QED
      BY <1>1, <3>1
  <2>2. body(c)[1..k + 1] = c[(1..k + 1) \ {Max(1..k + 1)}] + LineShift(acc[Max(1..k + 1)], start)
    <3> HIDE DEF c
    <3>1. QED
      BY <2>1
  <2> HIDE DEF body, c
  <2>3. QED
    BY <1>5, <2>2, TopOfPrefix
<1> HIDE DEF c, body
<1>9. \A k \in 0..Len(acc) : c[1..k] \in Int
  <2>1. ASSUME NEW k \in Nat, k < Len(acc), c[1..k] \in Int
        PROVE  c[1..k + 1] = step[c[1..k]][acc[k + 1]]
    <3>1. acc[k + 1] \in E
      BY <2>1
    <3>2. QED
      BY <1>8, <2>1, <3>1
  <2> HIDE DEF step
  <2>2. Along(c, Int, 0, E, acc, step)
    BY <1>1, <1>2, <1>7, <2>1 DEF Along
  <2>3. QED
    BY <2>2, FoldAlong
<1> DEFINE f == [k \in 0..Len(acc) |-> c[1..k]]
<1>10. f \in [0..Len(acc) -> Int] /\ f[0] = 0
  <2>1. 1..0 = {}
    OBVIOUS
  <2>2. QED
    BY <1>7, <1>9, <2>1
<1>11. \A k \in 0..Len(acc)-1 : f[k + 1] = f[k] + LineShift(acc[k + 1], start)
  BY <1>8
<1>12. LineOffsetForStart(start, acc) = f[Len(acc)]
  BY <1>1, <1>6
<1>13. QED
  BY <1>10, <1>11, <1>12 DEF OffsetRun

\* The least number of a set, as CHOOSE gives it.
LEMMA MinIsIn ==
  ASSUME NEW S \in SUBSET Nat, S # {}
  PROVE  Min(S) \in S /\ \A k \in S : Min(S) <= k
<1>1. \E m \in S : \A k \in S : m <= k
  BY Least
<1>2. QED
  BY <1>1 DEF Min

\* The elements of a sequence with one put in.
LEMMA InsertAtGives ==
  ASSUME NEW E, NEW s \in Seq(E), NEW e \in E, NEW m \in 1..Len(s) + 1
  PROVE  /\ InsertAt(s, m, e) \in Seq(E)
         /\ Len(InsertAt(s, m, e)) = Len(s) + 1
         /\ \A i \in 1..Len(s) + 1 :
              InsertAt(s, m, e)[i] = IF i < m THEN s[i] ELSE IF i = m THEN e ELSE s[i - 1]
<1> DEFINE a == SubSeq(s, 1, m - 1)
           b == SubSeq(s, m, Len(s))
<1>1. a \in Seq(E) /\ Len(a) = m - 1 /\ \A i \in 1..m - 1 : a[i] = s[i]
  OBVIOUS
<1>2. b \in Seq(E) /\ Len(b) = Len(s) - m + 1 /\ \A i \in 1..Len(s) - m + 1 : b[i] = s[m + i - 1]
  OBVIOUS
<1>3. InsertAt(s, m, e) = (a \o <<e>>) \o b
  BY DEF InsertAt
<1> HIDE DEF a, b
<1> DEFINE q == a \o <<e>>
<1>4. q \in Seq(E) /\ Len(q) = m /\ \A i \in 1..m : q[i] = IF i < m THEN s[i] ELSE e
  BY <1>1
<1> HIDE DEF q
<1>5. q \o b \in Seq(E) /\ Len(q \o b) = Len(s) + 1
  BY <1>2, <1>4
<1>6. ASSUME NEW i \in 1..Len(s) + 1
      PROVE  (q \o b)[i] = IF i < m THEN s[i] ELSE IF i = m THEN e ELSE s[i - 1]
  <2>1. CASE i <= m
    BY <1>2, <1>4, <2>1
  <2>2. CASE i > m
    <3>1. (q \o b)[i] = b[i - m]
      BY <1>2, <1>4, <2>2
    <3>2. i - m \in 1..Len(s) - m + 1 /\ m + (i - m) - 1 = i - 1
      BY <2>2
    <3>3. b[i - m] = s[i - 1]
      BY <1>2, <3>2
    <3>4. QED
      BY <2>2, <3>1, <3>3
  <2>3. i <= m \/ i > m
    OBVIOUS
  <2>4. QED
    BY <2>1, <2>2, <2>3
<1>7. QED
  BY <1>3, <1>5, <1>6 DEF q

\* Where the stable sort puts the next element.
LEMMA PutBehindGives ==
  ASSUME NEW E, NEW s \in Seq(E), NEW e \in E, NEW ahead
  PROVE  \E m \in 1..Len(s) + 1 :
           /\ PutBehind(s, e, ahead) = InsertAt(s, m, e)
           /\ \A i \in 1..Len(s) : i < m => <<s[i], e>> \in ahead
           /\ m <= Len(s) => <<s[m], e>> \notin ahead
<1> DEFINE S == (1..Len(s) + 1) \ {i \in DOMAIN s : <<s[i], e>> \in ahead}
           m == Min(S)
<1>1. S \in SUBSET Nat /\ Len(s) + 1 \in S /\ DOMAIN s = 1..Len(s)
  OBVIOUS
<1>2. m \in S /\ \A k \in S : m <= k
  <2> HIDE DEF S
  <2>1. QED
    BY <1>1, MinIsIn
<1>3. PutBehind(s, e, ahead) = InsertAt(s, m, e)
  BY DEF PutBehind
<1> HIDE DEF m
<1>4. m \in 1..Len(s) + 1
  BY <1>2
<1>5. \A i \in 1..Len(s) : i < m => <<s[i], e>> \in ahead
  <2>1. ASSUME NEW i \in 1..Len(s), i < m PROVE i \notin S
    BY <1>2, <1>4, <2>1
  <2>2. QED
    BY <1>1, <2>1
<1>6. m <= Len(s) => <<s[m], e>> \notin ahead
  BY <1>1, <1>2, <1>4
<1>7. QED
  BY <1>3, <1>4, <1>5, <1>6

\* The sort keeps to sequences of the elements.
LEMMA PutBehindTyped ==
  ASSUME NEW E, NEW ahead
  PROVE  \A x \in Seq(E), e \in E : PutBehind(x, e, ahead) \in Seq(E)
<1> SUFFICES ASSUME NEW x \in Seq(E), NEW e \in E PROVE PutBehind(x, e, ahead) \in Seq(E)
  OBVIOUS
<1>1. PICK m \in 1..Len(x) + 1 : PutBehind(x, e, ahead) = InsertAt(x, m, e)
  BY PutBehindGives
<1>2. QED
  BY <1>1, InsertAtGives

\* The stable sort as a recursion over the list.
SortRun(E, s, ahead) ==
  \E f \in [0..Len(s) -> Seq(E)] :
    /\ f[0] = << >>
    /\ \A k \in 0..Len(s)-1 : f[k + 1] = PutBehind(f[k], s[k + 1], ahead)
    /\ SortedBy(s, ahead) = f[Len(s)]

\* The fold of the sort is that recursion.
LEMMA SortFold ==
  ASSUME NEW E, NEW ahead, NEW s \in Seq(E)
  PROVE  SortRun(E, s, ahead)
<1> DEFINE step == [x \in Seq(E) |-> [e \in E |-> PutBehind(x, e, ahead)]]
           body(g) == [D \in SUBSET DOMAIN s |->
              IF D = {} THEN << >> ELSE PutBehind(g[D \ {Max(D)}], s[Max(D)], ahead)]
           c == CHOOSE g : g = body(g)
<1>1. Len(s) \in Nat /\ DOMAIN s = 1..Len(s) /\ << >> \in Seq(E)
  OBVIOUS
<1>2. step \in [Seq(E) -> [E -> Seq(E)]]
  BY PutBehindTyped
<1>3. PICK g \in [SUBSET (1..Len(s)) -> Seq(E)] : Folds(g, << >>, s, step)
  <2> HIDE DEF step
  <2>1. QED
    BY <1>1, <1>2, FoldExists
<1>4. g = body(g)
  <2>1. ASSUME NEW D \in SUBSET (1..Len(s)), D # {}
        PROVE  g[D] = PutBehind(g[D \ {Max(D)}], s[Max(D)], ahead)
    <3>1. Max(D) \in 1..Len(s) /\ D \ {Max(D)} \in SUBSET (1..Len(s))
      BY <1>1, <2>1, MaxIsIn
    <3>2. s[Max(D)] \in E
      BY <3>1
    <3>3. g[D \ {Max(D)}] \in Seq(E)
      BY <3>1
    <3>4. g[D] = step[g[D \ {Max(D)}]][s[Max(D)]]
      BY <1>3, <2>1 DEF Folds
    <3>5. QED
      BY <3>2, <3>3, <3>4
  <2>2. g[{}] = << >> /\ {} \in SUBSET (1..Len(s))
    BY <1>3 DEF Folds
  <2>3. ASSUME NEW D \in SUBSET (1..Len(s))
        PROVE  g[D] = IF D = {} THEN << >> ELSE PutBehind(g[D \ {Max(D)}], s[Max(D)], ahead)
    BY <2>1, <2>2
  <2>4. QED
    BY <1>1, <2>3
<1>5. c = body(c)
  <2> HIDE DEF body
  <2>1. QED
    BY <1>4
<1>6. SortedBy(s, ahead) = c[DOMAIN s]
  BY DEF SortedBy, FoldLeft, MapThenFoldSet
<1>7. c[{}] = << >>
  <2>1. body(c)[{}] = << >>
    OBVIOUS
  <2> HIDE DEF body, c
  <2>2. QED
    BY <1>5, <2>1
<1>8. ASSUME NEW k \in Nat, k < Len(s)
      PROVE  c[1..k + 1] = PutBehind(c[1..k], s[k + 1], ahead)
  <2>1. 1..k + 1 \in SUBSET DOMAIN s /\ 1..k + 1 # {}
    <3>1. 1 \in 1..k + 1 /\ \A x \in 1..k + 1 : x \in 1..Len(s)
      BY <1>1, <1>8
    <3>2. QED
      BY <1>1, <3>1
  <2>2. body(c)[1..k + 1] = PutBehind(c[(1..k + 1) \ {Max(1..k + 1)}], s[Max(1..k + 1)], ahead)
    <3> HIDE DEF c
    <3>1. QED
      BY <2>1
  <2> HIDE DEF body, c
  <2>3. QED
    BY <1>5, <2>2, TopOfPrefix
<1> HIDE DEF c, body
<1>9. \A k \in 0..Len(s) : c[1..k] \in Seq(E)
  <2>1. ASSUME NEW k \in Nat, k < Len(s), c[1..k] \in Seq(E)
        PROVE  c[1..k + 1] = step[c[1..k]][s[k + 1]]
    <3>1. s[k + 1] \in E
      BY <2>1
    <3>2. QED
      BY <1>8, <2>1, <3>1
  <2> HIDE DEF step
  <2>2. Along(c, Seq(E), << >>, E, s, step)
    BY <1>1, <1>2, <1>7, <2>1 DEF Along
  <2>3. QED
    BY <2>2, FoldAlong
<1> DEFINE f == [k \in 0..Len(s) |-> c[1..k]]
<1>10. f \in [0..Len(s) -> Seq(E)] /\ f[0] = << >>
  <2>1. 1..0 = {}
    OBVIOUS
  <2>2. QED
    BY <1>7, <1>9, <2>1
<1>11. \A k \in 0..Len(s)-1 : f[k + 1] = PutBehind(f[k], s[k + 1], ahead)
  BY <1>8
<1>12. SortedBy(s, ahead) = f[Len(s)]
  BY <1>1, <1>6
<1>13. QED
  BY <1>10, <1>11, <1>12 DEF SortRun

\* applyHunks as a recursion over the sorted hunks.
HunksRun(A, o, hs) ==
  \E f \in [0..Len(DescendingByStart(hs)) -> A] :
    /\ f[0] = o
    /\ \A k \in 0..Len(DescendingByStart(hs))-1 : f[k + 1] = PutIn(f[k], DescendingByStart(hs)[k + 1])
    /\ ApplyHunks(o, hs) = f[Len(DescendingByStart(hs))]

\* The fold of applyHunks is that recursion.
LEMMA HunksFold ==
  ASSUME NEW A, NEW o \in A, NEW E, NEW hs, DescendingByStart(hs) \in Seq(E),
         \A x \in A, h \in E : PutIn(x, h) \in A
  PROVE  HunksRun(A, o, hs)
<1> DEFINE step == [x \in A |-> [e \in E |-> PutIn(x, e)]]
           body(g) == [D \in SUBSET DOMAIN DescendingByStart(hs) |->
              IF D = {} THEN o ELSE PutIn(g[D \ {Max(D)}], DescendingByStart(hs)[Max(D)])]
           c == CHOOSE g : g = body(g)
<1>1. Len(DescendingByStart(hs)) \in Nat /\ DOMAIN DescendingByStart(hs) = 1..Len(DescendingByStart(hs)) /\ o \in A
  OBVIOUS
<1>2. step \in [A -> [E -> A]]
  OBVIOUS
<1>3. PICK g \in [SUBSET (1..Len(DescendingByStart(hs))) -> A] : Folds(g, o, DescendingByStart(hs), step)
  <2> HIDE DEF step
  <2>1. QED
    BY <1>1, <1>2, FoldExists
<1>4. g = body(g)
  <2>1. ASSUME NEW D \in SUBSET (1..Len(DescendingByStart(hs))), D # {}
        PROVE  g[D] = PutIn(g[D \ {Max(D)}], DescendingByStart(hs)[Max(D)])
    <3>1. Max(D) \in 1..Len(DescendingByStart(hs)) /\ D \ {Max(D)} \in SUBSET (1..Len(DescendingByStart(hs)))
      BY <1>1, <2>1, MaxIsIn
    <3>2. DescendingByStart(hs)[Max(D)] \in E
      BY <3>1
    <3>3. g[D \ {Max(D)}] \in A
      BY <3>1
    <3>4. g[D] = step[g[D \ {Max(D)}]][DescendingByStart(hs)[Max(D)]]
      BY <1>3, <2>1 DEF Folds
    <3>5. QED
      BY <3>2, <3>3, <3>4
  <2>2. g[{}] = o /\ {} \in SUBSET (1..Len(DescendingByStart(hs)))
    BY <1>3 DEF Folds
  <2>3. ASSUME NEW D \in SUBSET (1..Len(DescendingByStart(hs)))
        PROVE  g[D] = IF D = {} THEN o ELSE PutIn(g[D \ {Max(D)}], DescendingByStart(hs)[Max(D)])
    BY <2>1, <2>2
  <2>4. QED
    BY <1>1, <2>3
<1>5. c = body(c)
  <2> HIDE DEF body
  <2>1. QED
    BY <1>4
<1>6. ApplyHunks(o, hs) = c[DOMAIN DescendingByStart(hs)]
  BY DEF ApplyHunks, FoldLeft, MapThenFoldSet
<1>7. c[{}] = o
  <2>1. body(c)[{}] = o
    OBVIOUS
  <2> HIDE DEF body, c
  <2>2. QED
    BY <1>5, <2>1
<1>8. ASSUME NEW k \in Nat, k < Len(DescendingByStart(hs))
      PROVE  c[1..k + 1] = PutIn(c[1..k], DescendingByStart(hs)[k + 1])
  <2>1. 1..k + 1 \in SUBSET DOMAIN DescendingByStart(hs) /\ 1..k + 1 # {}
    <3>1. 1 \in 1..k + 1 /\ \A x \in 1..k + 1 : x \in 1..Len(DescendingByStart(hs))
      BY <1>1, <1>8
    <3>2. QED
      BY <1>1, <3>1
  <2>2. body(c)[1..k + 1] = PutIn(c[(1..k + 1) \ {Max(1..k + 1)}], DescendingByStart(hs)[Max(1..k + 1)])
    <3> HIDE DEF c
    <3>1. QED
      BY <2>1
  <2> HIDE DEF body, c
  <2>3. QED
    BY <1>5, <2>2, TopOfPrefix
<1> HIDE DEF c, body
<1>9. \A k \in 0..Len(DescendingByStart(hs)) : c[1..k] \in A
  <2>1. ASSUME NEW k \in Nat, k < Len(DescendingByStart(hs)), c[1..k] \in A
        PROVE  c[1..k + 1] = step[c[1..k]][DescendingByStart(hs)[k + 1]]
    <3>1. DescendingByStart(hs)[k + 1] \in E
      BY <2>1
    <3>2. QED
      BY <1>8, <2>1, <3>1
  <2> HIDE DEF step
  <2>2. Along(c, A, o, E, DescendingByStart(hs), step)
    BY <1>1, <1>2, <1>7, <2>1 DEF Along
  <2>3. QED
    BY <2>2, FoldAlong
<1> DEFINE f == [k \in 0..Len(DescendingByStart(hs)) |-> c[1..k]]
<1>10. f \in [0..Len(DescendingByStart(hs)) -> A] /\ f[0] = o
  <2>1. 1..0 = {}
    OBVIOUS
  <2>2. QED
    BY <1>7, <1>9, <2>1
<1>11. \A k \in 0..Len(DescendingByStart(hs))-1 : f[k + 1] = PutIn(f[k], DescendingByStart(hs)[k + 1])
  BY <1>8
<1>12. ApplyHunks(o, hs) = f[Len(DescendingByStart(hs))]
  BY <1>1, <1>6
<1>13. QED
  BY <1>10, <1>11, <1>12 DEF HunksRun

\* A WorkspaceEdit as a recursion over the sorted edits.
EditsRun(A, o, edits) ==
  \E f \in [0..Len(BottomUp(edits)) -> A] :
    /\ f[0] = o
    /\ \A k \in 0..Len(BottomUp(edits))-1 : f[k + 1] = ApplyTextEdit(f[k], BottomUp(edits)[k + 1])
    /\ ApplyWorkspaceEdit(o, edits) = f[Len(BottomUp(edits))]

\* The fold of a WorkspaceEdit is that recursion.
LEMMA EditsFold ==
  ASSUME NEW A, NEW o \in A, NEW E, NEW edits, BottomUp(edits) \in Seq(E),
         \A x \in A, e \in E : ApplyTextEdit(x, e) \in A
  PROVE  EditsRun(A, o, edits)
<1> DEFINE step == [x \in A |-> [e \in E |-> ApplyTextEdit(x, e)]]
           body(g) == [D \in SUBSET DOMAIN BottomUp(edits) |->
              IF D = {} THEN o ELSE ApplyTextEdit(g[D \ {Max(D)}], BottomUp(edits)[Max(D)])]
           c == CHOOSE g : g = body(g)
<1>1. Len(BottomUp(edits)) \in Nat /\ DOMAIN BottomUp(edits) = 1..Len(BottomUp(edits)) /\ o \in A
  OBVIOUS
<1>2. step \in [A -> [E -> A]]
  OBVIOUS
<1>3. PICK g \in [SUBSET (1..Len(BottomUp(edits))) -> A] : Folds(g, o, BottomUp(edits), step)
  <2> HIDE DEF step
  <2>1. QED
    BY <1>1, <1>2, FoldExists
<1>4. g = body(g)
  <2>1. ASSUME NEW D \in SUBSET (1..Len(BottomUp(edits))), D # {}
        PROVE  g[D] = ApplyTextEdit(g[D \ {Max(D)}], BottomUp(edits)[Max(D)])
    <3>1. Max(D) \in 1..Len(BottomUp(edits)) /\ D \ {Max(D)} \in SUBSET (1..Len(BottomUp(edits)))
      BY <1>1, <2>1, MaxIsIn
    <3>2. BottomUp(edits)[Max(D)] \in E
      BY <3>1
    <3>3. g[D \ {Max(D)}] \in A
      BY <3>1
    <3>4. g[D] = step[g[D \ {Max(D)}]][BottomUp(edits)[Max(D)]]
      BY <1>3, <2>1 DEF Folds
    <3>5. QED
      BY <3>2, <3>3, <3>4
  <2>2. g[{}] = o /\ {} \in SUBSET (1..Len(BottomUp(edits)))
    BY <1>3 DEF Folds
  <2>3. ASSUME NEW D \in SUBSET (1..Len(BottomUp(edits)))
        PROVE  g[D] = IF D = {} THEN o ELSE ApplyTextEdit(g[D \ {Max(D)}], BottomUp(edits)[Max(D)])
    BY <2>1, <2>2
  <2>4. QED
    BY <1>1, <2>3
<1>5. c = body(c)
  <2> HIDE DEF body
  <2>1. QED
    BY <1>4
<1>6. ApplyWorkspaceEdit(o, edits) = c[DOMAIN BottomUp(edits)]
  BY DEF ApplyWorkspaceEdit, FoldLeft, MapThenFoldSet
<1>7. c[{}] = o
  <2>1. body(c)[{}] = o
    OBVIOUS
  <2> HIDE DEF body, c
  <2>2. QED
    BY <1>5, <2>1
<1>8. ASSUME NEW k \in Nat, k < Len(BottomUp(edits))
      PROVE  c[1..k + 1] = ApplyTextEdit(c[1..k], BottomUp(edits)[k + 1])
  <2>1. 1..k + 1 \in SUBSET DOMAIN BottomUp(edits) /\ 1..k + 1 # {}
    <3>1. 1 \in 1..k + 1 /\ \A x \in 1..k + 1 : x \in 1..Len(BottomUp(edits))
      BY <1>1, <1>8
    <3>2. QED
      BY <1>1, <3>1
  <2>2. body(c)[1..k + 1] = ApplyTextEdit(c[(1..k + 1) \ {Max(1..k + 1)}], BottomUp(edits)[Max(1..k + 1)])
    <3> HIDE DEF c
    <3>1. QED
      BY <2>1
  <2> HIDE DEF body, c
  <2>3. QED
    BY <1>5, <2>2, TopOfPrefix
<1> HIDE DEF c, body
<1>9. \A k \in 0..Len(BottomUp(edits)) : c[1..k] \in A
  <2>1. ASSUME NEW k \in Nat, k < Len(BottomUp(edits)), c[1..k] \in A
        PROVE  c[1..k + 1] = step[c[1..k]][BottomUp(edits)[k + 1]]
    <3>1. BottomUp(edits)[k + 1] \in E
      BY <2>1
    <3>2. QED
      BY <1>8, <2>1, <3>1
  <2> HIDE DEF step
  <2>2. Along(c, A, o, E, BottomUp(edits), step)
    BY <1>1, <1>2, <1>7, <2>1 DEF Along
  <2>3. QED
    BY <2>2, FoldAlong
<1> DEFINE f == [k \in 0..Len(BottomUp(edits)) |-> c[1..k]]
<1>10. f \in [0..Len(BottomUp(edits)) -> A] /\ f[0] = o
  <2>1. 1..0 = {}
    OBVIOUS
  <2>2. QED
    BY <1>7, <1>9, <2>1
<1>11. \A k \in 0..Len(BottomUp(edits))-1 : f[k + 1] = ApplyTextEdit(f[k], BottomUp(edits)[k + 1])
  BY <1>8
<1>12. ApplyWorkspaceEdit(o, edits) = f[Len(BottomUp(edits))]
  BY <1>1, <1>6
<1>13. QED
  BY <1>10, <1>11, <1>12 DEF EditsRun

-----------------------------------------------------------------------------
(***************************************************************************)
(* Flattened families of sequences.                                        *)
(***************************************************************************)
\* FlattenSeq on the initial parts of a family of sequences.
LEMMA FlattenSteps ==
  ASSUME NEW L, NEW R, \A i \in Nat \ {0} : R[i] \in Seq(L)
  PROVE  /\ FlattenSeq([i \in 1..0 |-> R[i]]) = << >>
         /\ \A n \in Nat :
              /\ FlattenSeq([i \in 1..n |-> R[i]]) \in Seq(L)
              /\ FlattenSeq([i \in 1..n + 1 |-> R[i]])
                   = FlattenSeq([i \in 1..n |-> R[i]]) \o R[n + 1]
<1> DEFINE step == [n \in Nat |-> [x \in Seq(L) |-> x \o R[n + 1]]]
<1>1. step \in [Nat -> [Seq(L) -> Seq(L)]]
  <2>1. ASSUME NEW n \in Nat, NEW x \in Seq(L) PROVE x \o R[n + 1] \in Seq(L)
    <3>1. R[n + 1] \in Seq(L)
      OBVIOUS
    <3>2. QED
      BY <3>1
  <2>2. QED
    BY <2>1
<1>2. PICK f \in [Nat -> Seq(L)] : Runs(f, << >>, step)
  <2>1. << >> \in Seq(L)
    OBVIOUS
  <2> HIDE DEF step
  <2>2. QED
    BY <1>1, <2>1, Recursion
<1>3. f[0] = << >>
  BY <1>2 DEF Runs
<1>4. ASSUME NEW n \in Nat PROVE f[n + 1] = f[n] \o R[n + 1]
  <2>1. f[n + 1] = step[n][f[n]] /\ f[n] \in Seq(L)
    BY <1>2 DEF Runs
  <2>2. QED
    BY <2>1
<1> HIDE DEF step
<1> DEFINE F(n) == FlattenSeq([i \in 1..n |-> R[i]])
<1>5. F(0) = << >>
  <2>1. [i \in 1..0 |-> R[i]] = << >> /\ Len(<< >>) = 0
    OBVIOUS
  <2>2. QED
    BY <2>1 DEF FlattenSeq
<1>6. ASSUME NEW n \in Nat, n # 0 PROVE F(n) = f[n]
  <2> DEFINE s == [i \in 1..n |-> R[i]]
             body(g) == [i \in 1..Len(s) |-> IF i = 1 THEN s[i] ELSE g[i - 1] \o s[i]]
             c == CHOOSE g : g = body(g)
             g0 == [i \in 1..n |-> f[i]]
  <2>1. s \in Seq(Seq(L)) /\ Len(s) = n /\ n # 0
    BY <1>6
  <2>2. g0 = body(g0)
    <3>1. ASSUME NEW i \in 1..n PROVE f[i] = IF i = 1 THEN s[i] ELSE g0[i - 1] \o s[i]
      <4>1. PICK j \in Nat : i = j + 1
        OBVIOUS
      <4>6. f[j + 1] = f[j] \o R[j + 1]
        BY <1>4
      <4>7. f[i] = f[j] \o R[i]
        BY <4>1, <4>6, Zenon
      <4>8. j = i - 1
        BY <4>1
      <4>5. f[i] = f[j] \o R[i] /\ j = i - 1
        BY <4>7, <4>8
      <4>2. CASE i = 1
        <5>1. << >> \o R[1] = R[1]
          OBVIOUS
        <5>2. f[1] = f[0] \o R[1]
          BY <4>5, <4>2
        <5>3. s[1] = R[1]
          OBVIOUS
        <5>4. QED
          BY <1>3, <4>2, <5>1, <5>2, <5>3
      <4>3. CASE i # 1
        <5>1. g0[i - 1] = f[i - 1] /\ s[i] = R[i]
          BY <4>3
        <5>2. QED
          BY <4>5, <4>3, <5>1
      <4>4. QED
        BY <4>2, <4>3
    <3> HIDE DEF g0, s
    <3>2. body(g0) = [i \in 1..n |-> f[i]]
      BY <2>1, <3>1
    <3>3. QED
      BY <3>2 DEF g0
  <2>3. c = body(c)
    <3> HIDE DEF body, g0
    <3>1. QED
      BY <2>2
  <2>4. F(n) = c[n]
    <3>1. F(n) = c[Len(s)]
      BY <2>1 DEF FlattenSeq
    <3>2. QED
      BY <2>1, <3>1
  <2>5. ASSUME NEW i \in 1..n PROVE c[i] = IF i = 1 THEN R[i] ELSE c[i - 1] \o R[i]
    <3>1. body(c)[i] = IF i = 1 THEN R[i] ELSE c[i - 1] \o R[i]
      <4> HIDE DEF c
      <4>1. s[i] = R[i] /\ i \in 1..Len(s)
        BY <2>1
      <4> HIDE DEF s
      <4>2. QED
        BY <4>1
    <3> HIDE DEF body, c
    <3>2. QED
      BY <2>3, <3>1
  <2> HIDE DEF c
  <2> DEFINE S == {i \in Nat : i \in 1..n => c[i] = f[i]}
  <2>6. 0 \in S
    OBVIOUS
  <2>7. ASSUME NEW i \in Nat, i \in S PROVE i + 1 \in S
    <3>1. SUFFICES ASSUME i + 1 \in 1..n PROVE c[i + 1] = f[i + 1]
      OBVIOUS
    <3>2. f[i + 1] = f[i] \o R[i + 1]
      BY <1>4
    <3>3. CASE i = 0
      <4>1. c[1] = R[1] /\ f[1] = f[0] \o R[1]
        BY <2>5, <3>1, <3>2, <3>3
      <4>2. << >> \o R[1] = R[1]
        OBVIOUS
      <4>3. QED
        BY <1>3, <3>3, <4>1, <4>2
    <3>4. CASE i # 0
      <4>1. c[i] = f[i]
        BY <2>7, <3>1, <3>4
      <4>2. i + 1 # 1 /\ (i + 1) - 1 = i
        BY <3>4
      <4>3. c[i + 1] = c[i] \o R[i + 1]
        BY <2>5, <3>1, <4>2
      <4>4. QED
        BY <3>2, <4>1, <4>3
    <3>5. QED
      BY <3>3, <3>4
  <2>8. Nat \subseteq S
    <3> HIDE DEF S
    <3>1. QED
      BY <2>6, <2>7, Induction
  <2>9. c[n] = f[n]
    BY <1>6, <2>8
  <2>10. QED
    BY <2>4, <2>9
<1>7. \A n \in Nat : F(n) = f[n]
  BY <1>3, <1>5, <1>6
<1> HIDE DEF F
<1>8. ASSUME NEW n \in Nat PROVE F(n) \in Seq(L) /\ F(n + 1) = F(n) \o R[n + 1]
  <2>1. F(n) = f[n] /\ F(n + 1) = f[n + 1]
    BY <1>7
  <2>2. f[n] \in Seq(L)
    OBVIOUS
  <2>3. QED
    BY <1>4, <2>1, <2>2
<1>9. QED
  BY <1>5, <1>8 DEF F

-----------------------------------------------------------------------------
(***************************************************************************)
(* The stable sort.                                                        *)
(***************************************************************************)
\* ahead orders the elements of s, no two of which are the same, totally.
Linear(s, ahead) ==
  /\ \A i, j \in DOMAIN s : i # j => (<<s[i], s[j]>> \in ahead \/ <<s[j], s[i]>> \in ahead)
  /\ \A x, y, z \in ToSet(s) : <<x, y>> \in ahead /\ <<y, z>> \in ahead => <<x, z>> \in ahead

\* r is in the order.
Ordered(r, ahead) == \A i, j \in 1..Len(r) : i < j => <<r[i], r[j]>> \in ahead

\* e can be put among the elements of r.
Fits(r, e, ahead) ==
  \A x \in ToSet(r) :
    /\ <<x, e>> \in ahead \/ <<e, x>> \in ahead
    /\ \A y \in ToSet(r) : <<e, x>> \in ahead /\ <<x, y>> \in ahead => <<e, y>> \in ahead

\* The elements of a list, by their places.
LEMMA ElementsOf ==
  ASSUME NEW E, NEW s \in Seq(E)
  PROVE  \A x : x \in ToSet(s) <=> \E i \in 1..Len(s) : x = s[i]
  BY DEF ToSet

\* To put in one element adds it and loses none.
LEMMA InsertedElements ==
  ASSUME NEW E, NEW r \in Seq(E), NEW e \in E, NEW m \in 1..Len(r) + 1
  PROVE  \A x : x \in ToSet(InsertAt(r, m, e)) <=> x \in ToSet(r) \/ x = e
<1> DEFINE n == InsertAt(r, m, e)
<1>1. /\ n \in Seq(E) /\ Len(n) = Len(r) + 1
      /\ \A i \in 1..Len(r) + 1 : n[i] = IF i < m THEN r[i] ELSE IF i = m THEN e ELSE r[i - 1]
  BY InsertAtGives
<1> HIDE DEF n
<1>2. /\ \A x : x \in ToSet(n) <=> \E i \in 1..Len(r) + 1 : x = n[i]
      /\ \A x : x \in ToSet(r) <=> \E i \in 1..Len(r) : x = r[i]
  BY <1>1, ElementsOf
<1>3. ASSUME NEW i \in 1..Len(r) + 1 PROVE n[i] \in ToSet(r) \/ n[i] = e
  <2>1. CASE i < m
    <3>1. i \in 1..Len(r) /\ n[i] = r[i]
      BY <1>1, <2>1
    <3>2. QED
      BY <1>2, <3>1
  <2>2. CASE i = m
    BY <1>1, <2>2
  <2>3. CASE i > m
    <3>1. i - 1 \in 1..Len(r) /\ n[i] = r[i - 1]
      BY <1>1, <2>3
    <3>2. QED
      BY <1>2, <3>1
  <2>4. QED
    BY <2>1, <2>2, <2>3
<1>4. ASSUME NEW i \in 1..Len(r) PROVE r[i] \in ToSet(n)
  <2>1. CASE i < m
    <3>1. i \in 1..Len(r) + 1 /\ n[i] = r[i]
      BY <1>1, <2>1
    <3>2. QED
      BY <1>2, <3>1
  <2>2. CASE i >= m
    <3>1. i + 1 \in 1..Len(r) + 1 /\ (i + 1) - 1 = i /\ ~(i + 1 < m) /\ i + 1 # m
      BY <2>2
    <3>2. n[i + 1] = r[i]
      BY <1>1, <3>1
    <3>3. QED
      BY <1>2, <3>1, <3>2
  <2>3. QED
    BY <2>1, <2>2
<1>5. e \in ToSet(n)
  <2>1. n[m] = e
    BY <1>1
  <2>2. QED
    BY <1>2, <2>1
<1>6. ASSUME NEW x PROVE x \in ToSet(n) <=> x \in ToSet(r) \/ x = e
  BY <1>2, <1>3, <1>4, <1>5
<1>7. QED
  BY <1>6 DEF n

\* One step of the sort keeps the order.
LEMMA PutBehindOrdered ==
  ASSUME NEW E, NEW r \in Seq(E), NEW e \in E, NEW ahead, Ordered(r, ahead), Fits(r, e, ahead)
  PROVE  /\ PutBehind(r, e, ahead) \in Seq(E)
         /\ Len(PutBehind(r, e, ahead)) = Len(r) + 1
         /\ \A x : x \in ToSet(PutBehind(r, e, ahead)) <=> x \in ToSet(r) \/ x = e
         /\ Ordered(PutBehind(r, e, ahead), ahead)
<1>1. PICK m \in 1..Len(r) + 1 :
        /\ PutBehind(r, e, ahead) = InsertAt(r, m, e)
        /\ \A i \in 1..Len(r) : i < m => <<r[i], e>> \in ahead
        /\ m <= Len(r) => <<r[m], e>> \notin ahead
  BY PutBehindGives
<1> DEFINE n == InsertAt(r, m, e)
<1>2. /\ n \in Seq(E) /\ Len(n) = Len(r) + 1
      /\ \A i \in 1..Len(r) + 1 : n[i] = IF i < m THEN r[i] ELSE IF i = m THEN e ELSE r[i - 1]
  BY InsertAtGives
<1>3. \A x : x \in ToSet(n) <=> x \in ToSet(r) \/ x = e
  BY InsertedElements
<1> HIDE DEF n
<1>4. \A i \in 1..Len(r) : r[i] \in ToSet(r)
  BY DEF ToSet
<1>5. ASSUME NEW i \in 1..Len(r), i >= m PROVE <<e, r[i]>> \in ahead
  <2>1. m \in 1..Len(r) /\ <<r[m], e>> \notin ahead
    BY <1>1, <1>5
  <2>2. <<e, r[m]>> \in ahead
    BY <1>4, <2>1 DEF Fits
  <2>3. CASE i = m
    BY <2>2, <2>3
  <2>4. CASE i > m
    <3>1. <<r[m], r[i]>> \in ahead
      BY <2>1, <2>4 DEF Ordered
    <3>2. QED
      BY <1>4, <2>1, <2>2, <3>1 DEF Fits
  <2>5. QED
    BY <1>5, <2>3, <2>4
<1>6. ASSUME NEW i \in 1..Len(r) + 1, NEW j \in 1..Len(r) + 1, i < j
      PROVE  <<n[i], n[j]>> \in ahead
  <2>1. CASE j < m
    <3>1. i \in 1..Len(r) /\ j \in 1..Len(r) /\ n[i] = r[i] /\ n[j] = r[j]
      BY <1>2, <1>6, <2>1
    <3>2. QED
      BY <1>6, <3>1 DEF Ordered
  <2>2. CASE j = m
    <3>1. i \in 1..Len(r) /\ i < m /\ n[i] = r[i] /\ n[j] = e
      BY <1>2, <1>6, <2>2
    <3>2. QED
      BY <1>1, <3>1
  <2>3. CASE j > m
    <3>1. n[j] = r[j - 1] /\ j - 1 \in 1..Len(r) /\ j - 1 >= m
      BY <1>2, <2>3
    <3>2. CASE i < m
      <4>1. n[i] = r[i] /\ i \in 1..Len(r) /\ i < j - 1
        BY <1>2, <2>3, <3>2
      <4>2. QED
        BY <3>1, <4>1 DEF Ordered
    <3>3. CASE i = m
      <4>1. n[i] = e
        BY <1>2, <3>3
      <4>2. QED
        BY <1>5, <3>1, <4>1
    <3>4. CASE i > m
      <4>1. n[i] = r[i - 1] /\ i - 1 \in 1..Len(r) /\ i - 1 < j - 1
        BY <1>2, <1>6, <3>4
      <4>2. QED
        BY <3>1, <4>1 DEF Ordered
    <3>5. QED
      BY <3>2, <3>3, <3>4
  <2>4. QED
    BY <2>1, <2>2, <2>3
<1>7. Ordered(n, ahead)
  BY <1>2, <1>6 DEF Ordered
<1>8. QED
  BY <1>1, <1>2, <1>3, <1>7 DEF n

\* A sort by a total order of the elements puts them in that order.
LEMMA SortedBySorts ==
  ASSUME NEW E, NEW s \in Seq(E), NEW ahead, Linear(s, ahead)
  PROVE  /\ SortedBy(s, ahead) \in Seq(E)
         /\ Len(SortedBy(s, ahead)) = Len(s)
         /\ ToSet(SortedBy(s, ahead)) = ToSet(s)
         /\ Ordered(SortedBy(s, ahead), ahead)
<1>1. PICK f \in [0..Len(s) -> Seq(E)] :
           /\ f[0] = << >>
           /\ \A k \in 0..Len(s)-1 : f[k + 1] = PutBehind(f[k], s[k + 1], ahead)
           /\ SortedBy(s, ahead) = f[Len(s)]
  <2>1. SortRun(E, s, ahead)
    BY SortFold
  <2>2. QED
    BY <2>1 DEF SortRun
<1> DEFINE Done(r, k) == /\ Len(r) = k
                         /\ \A x : x \in ToSet(r) <=> \E i \in 1..k : x = s[i]
                         /\ Ordered(r, ahead)
           S == {k \in Nat : k <= Len(s) => Done(f[k], k)}
<1>2. Done(f[0], 0)
  BY <1>1 DEF ToSet, Ordered
<1>3. ASSUME NEW k \in Nat, k < Len(s), NEW r \in Seq(E), Done(r, k)
      PROVE  Done(PutBehind(r, s[k + 1], ahead), k + 1)
  <2>1. s[k + 1] \in E /\ k + 1 \in DOMAIN s
    BY <1>3
  <2>2. ASSUME NEW x \in ToSet(r)
        PROVE  x \in ToSet(s) /\ (<<x, s[k + 1]>> \in ahead \/ <<s[k + 1], x>> \in ahead)
    <3>1. PICK j \in 1..k : x = s[j]
      BY <1>3
    <3>2. j \in DOMAIN s /\ j # k + 1
      BY <1>3
    <3>3. QED
      BY <2>1, <3>1, <3>2 DEF Linear, ToSet
  <2>3. s[k + 1] \in ToSet(s)
    BY <2>1 DEF ToSet
  <2>4. Fits(r, s[k + 1], ahead)
    BY <2>2, <2>3 DEF Linear, Fits
  <2> DEFINE n == PutBehind(r, s[k + 1], ahead)
  <2>5. /\ Len(n) = Len(r) + 1
        /\ \A x : x \in ToSet(n) <=> x \in ToSet(r) \/ x = s[k + 1]
        /\ Ordered(n, ahead)
    BY <1>3, <2>1, <2>4, PutBehindOrdered
  <2> HIDE DEF n
  <2>6. ASSUME NEW x PROVE x \in ToSet(n) <=> \E i \in 1..k + 1 : x = s[i]
    <3>1. (\E i \in 1..k + 1 : x = s[i]) <=> (\E i \in 1..k : x = s[i]) \/ x = s[k + 1]
      OBVIOUS
    <3>2. QED
      BY <1>3, <2>5, <3>1
  <2>7. Len(n) = k + 1
    BY <1>3, <2>5
  <2>8. QED
    BY <2>5, <2>6, <2>7 DEF n
<1>4. Nat \subseteq S
  <2> HIDE DEF Done
  <2>1. 0 \in S
    BY <1>2
  <2>2. ASSUME NEW k \in Nat, k \in S PROVE k + 1 \in S
    <3>1. SUFFICES ASSUME k + 1 <= Len(s) PROVE Done(f[k + 1], k + 1)
      OBVIOUS
    <3>2. k < Len(s) /\ f[k] \in Seq(E) /\ f[k + 1] = PutBehind(f[k], s[k + 1], ahead)
      BY <1>1, <3>1
    <3>3. Done(f[k], k)
      BY <2>2, <3>2
    <3>4. QED
      BY <1>3, <3>2, <3>3
  <2> HIDE DEF S
  <2>3. QED
    BY <2>1, <2>2, Induction
<1>5. Done(f[Len(s)], Len(s))
  <2> HIDE DEF Done
  <2>1. QED
    BY <1>4
<1>6. ToSet(f[Len(s)]) = ToSet(s)
  <2>1. \A x : x \in ToSet(f[Len(s)]) <=> \E i \in 1..Len(s) : x = s[i]
    BY <1>5
  <2>2. \A x : x \in ToSet(s) <=> \E i \in 1..Len(s) : x = s[i]
    BY DEF ToSet
  <2>3. QED
    BY <2>1, <2>2
<1>7. QED
  BY <1>1, <1>5, <1>6

-----------------------------------------------------------------------------
(***************************************************************************)
(* The composition, row by row.                                            *)
(***************************************************************************)
\* Hunks that write lines of L.
HunksOver(L) == [start : Nat \ {0}, count : Nat, repl : Seq(L)]

\* A hunk writes lines, and moves what is below it by a whole number.
LEMMA NewLinesTyped ==
  ASSUME NEW L, NEW h \in HunksOver(L)
  PROVE  NewLines(h) \in Seq(L) /\ Len(NewLines(h)) \in Nat /\ HunkLineDelta(h) \in Int
<1>1. NewLines(h) \in Seq(L)
  BY DEF NewLines, HunksOver
<1>2. QED
  BY <1>1 DEF HunkLineDelta, HunksOver

\* What is written at a place is a sequence of lines.
LEMMA TextTyped ==
  ASSUME NEW L, NEW H \in SUBSET HunksOver(L)
  PROVE  TextOfOne(H) \in Seq(L)
<1>1. CASE H = {}
  BY <1>1 DEF TextOfOne
<1>2. CASE H # {}
  <2>1. (CHOOSE h \in H : TRUE) \in HunksOver(L)
    BY <1>2
  <2>2. QED
    BY <1>2, <2>1, NewLinesTyped DEF TextOfOne
<1>3. QED
  BY <1>1, <1>2

\* Where one hunk writes, it is what that hunk writes.
LEMMA TextOfSingle ==
  ASSUME NEW h
  PROVE  TextOfOne({h}) = NewLines(h) /\ TextOfOne({}) = << >>
<1>1. (CHOOSE x \in {h} : TRUE) = h
  OBVIOUS
<1>2. QED
  BY <1>1 DEF TextOfOne

\* What is put in at line i, in front of what is inserted above it.
KeptAt(o, H, i) == IF i > Len(o) \/ \E h \in H : Covers(h, i) THEN << >> ELSE <<o[i]>>

\* Line i of the original, or what replaces it.
Under(o, H, i) == ReplacedAt(H, i) \o KeptAt(o, H, i)

\* The parts of one row of the composition are lines.
RowParts(L, o, H, i) ==
  /\ InsertedAt(H, i) \in Seq(L) /\ ReplacedAt(H, i) \in Seq(L) /\ KeptAt(o, H, i) \in Seq(L)
  /\ Under(o, H, i) \in Seq(L)
  /\ Row(o, H, i) \in Seq(L)
  /\ Row(o, H, i) = InsertedAt(H, i) \o Under(o, H, i)

\* Every row of the composition has these parts.
LEMMA RowTyped ==
  ASSUME NEW L, NEW o \in Seq(L), NEW H \in SUBSET HunksOver(L), NEW i \in Nat \ {0}
  PROVE  RowParts(L, o, H, i)
<1>1. InsertedAt(H, i) \in Seq(L) /\ ReplacedAt(H, i) \in Seq(L)
  BY TextTyped DEF InsertedAt, ReplacedAt
<1>2. KeptAt(o, H, i) \in Seq(L)
  BY DEF KeptAt
<1>3. Row(o, H, i) = (InsertedAt(H, i) \o ReplacedAt(H, i)) \o KeptAt(o, H, i)
  BY DEF Row, KeptAt
<1>4. Row(o, H, i) = InsertedAt(H, i) \o Under(o, H, i)
  <2>1. (InsertedAt(H, i) \o ReplacedAt(H, i)) \o KeptAt(o, H, i)
          = InsertedAt(H, i) \o (ReplacedAt(H, i) \o KeptAt(o, H, i))
    BY <1>1, <1>2, ConcatAssociative
  <2>2. QED
    BY <1>3, <2>1, Zenon DEF Under
<1>5. Under(o, H, i) \in Seq(L)
  BY <1>1, <1>2 DEF Under
<1>6. Row(o, H, i) \in Seq(L)
  BY <1>1, <1>4, <1>5
<1>7. QED
  BY <1>1, <1>2, <1>4, <1>5, <1>6 DEF RowParts

\* The composition, row by row.
LEMMA RowsSteps ==
  ASSUME NEW L, NEW o \in Seq(L), NEW H \in SUBSET HunksOver(L)
  PROVE  /\ Rows(o, H, 0) = << >>
         /\ \A n \in Nat : /\ Rows(o, H, n) \in Seq(L)
                           /\ Rows(o, H, n + 1) = Rows(o, H, n) \o Row(o, H, n + 1)
<1> DEFINE R == [i \in Nat \ {0} |-> Row(o, H, i)]
<1>1. \A i \in Nat \ {0} : R[i] \in Seq(L)
  BY RowTyped DEF RowParts
<1>2. \A n \in Nat : Rows(o, H, n) = FlattenSeq([i \in 1..n |-> R[i]])
  <2> SUFFICES ASSUME NEW n \in Nat PROVE Rows(o, H, n) = FlattenSeq([i \in 1..n |-> R[i]])
    OBVIOUS
  <2>1. [i \in 1..n |-> R[i]] = [i \in 1..n |-> Row(o, H, i)]
    OBVIOUS
  <2>2. QED
    BY <2>1 DEF Rows
<1>3. \A n \in Nat : R[n + 1] = Row(o, H, n + 1)
  OBVIOUS
<1> HIDE DEF R
<1>4. /\ FlattenSeq([i \in 1..0 |-> R[i]]) = << >>
      /\ \A n \in Nat :
           /\ FlattenSeq([i \in 1..n |-> R[i]]) \in Seq(L)
           /\ FlattenSeq([i \in 1..n + 1 |-> R[i]]) = FlattenSeq([i \in 1..n |-> R[i]]) \o R[n + 1]
  BY <1>1, FlattenSteps
<1>5. ASSUME NEW n \in Nat
      PROVE  /\ Rows(o, H, n) \in Seq(L)
             /\ Rows(o, H, n + 1) = Rows(o, H, n) \o Row(o, H, n + 1)
  <2>1. Rows(o, H, n + 1) = FlattenSeq([i \in 1..n + 1 |-> R[i]])
    BY <1>2
  <2>2. QED
    BY <1>2, <1>3, <1>4, <2>1
<1>6. Rows(o, H, 0) = << >>
  BY <1>2, <1>4
<1>7. QED
  BY <1>5, <1>6

\* Two hunks that do not conflict, by their lines.
LEMMA ApartMeans ==
  ASSUME NEW L, NEW a \in HunksOver(L), NEW b \in HunksOver(L), ~HunksConflict(a, b)
  PROVE  /\ a.count = 0 /\ b.count = 0 => a.start # b.start
         /\ a.count = 0 /\ b.count > 0 => a.start <= b.start \/ a.start >= b.start + b.count
         /\ a.count > 0 /\ b.count = 0 => b.start <= a.start \/ b.start >= a.start + a.count
         /\ a.count > 0 /\ b.count > 0 => \/ a.start + a.count <= b.start
                                          \/ b.start + b.count <= a.start
<1> USE DEF HunksConflict, RangesIntersect, HunkRange, HunksOver
<1>1. CASE a.count = 0 /\ b.count = 0
  BY <1>1
<1>2. CASE a.count = 0 /\ b.count > 0
  BY <1>2
<1>3. CASE a.count > 0 /\ b.count = 0
  BY <1>3
<1>4. CASE a.count > 0 /\ b.count > 0
  BY <1>4
<1>5. QED
  BY <1>1, <1>2, <1>3, <1>4

\* One hunk more: h is put in where none of H is in its way.
Joins(L, o, H, h) ==
  /\ o \in Seq(L) /\ h.start + h.count <= Len(o) + 1
  /\ H \in SUBSET HunksOver(L) /\ h \in HunksOver(L)
  /\ h \notin H /\ \A a \in H : ~HunksConflict(h, a)

\* A hunk leaves the rows alone that it neither starts at nor covers.
LEMMA RowElsewhere ==
  ASSUME NEW L, NEW o, NEW H, NEW h, Joins(L, o, H, h), NEW i \in Nat \ {0},
         i # h.start, ~Covers(h, i)
  PROVE  Row(o, H \cup {h}, i) = Row(o, H, i)
<1>1. {a \in H \cup {h} : a.count = 0 /\ a.start = i} = {a \in H : a.count = 0 /\ a.start = i}
  OBVIOUS
<1>2. {a \in H \cup {h} : a.count > 0 /\ a.start = i} = {a \in H : a.count > 0 /\ a.start = i}
  OBVIOUS
<1>3. (\E a \in H \cup {h} : Covers(a, i)) <=> \E a \in H : Covers(a, i)
  OBVIOUS
<1>4. QED
  BY <1>1, <1>2, <1>3 DEF Row, InsertedAt, ReplacedAt

\* An insertion comes above what line h.start becomes.
RowsInserted(o, H, h) ==
  /\ InsertedAt(H, h.start) = << >> /\ InsertedAt(H \cup {h}, h.start) = NewLines(h)
  /\ Under(o, H \cup {h}, h.start) = Under(o, H, h.start)

\* What a new insertion does to its row.
LEMMA RowAtInsertion ==
  ASSUME NEW L, NEW o, NEW H, NEW h, Joins(L, o, H, h), h.count = 0
  PROVE  RowsInserted(o, H, h)
<1> DEFINE s == h.start
<1>1. ASSUME NEW a \in H PROVE ~(a.count = 0 /\ a.start = s)
  <2>1. a \in HunksOver(L) /\ h \in HunksOver(L) /\ ~HunksConflict(h, a)
    BY DEF Joins
  <2>2. QED
    BY <2>1, ApartMeans
<1>2. {a \in H : a.count = 0 /\ a.start = s} = {}
  BY <1>1
<1>3. {a \in H \cup {h} : a.count = 0 /\ a.start = s} = {h}
  BY <1>1
<1>4. {a \in H \cup {h} : a.count > 0 /\ a.start = s} = {a \in H : a.count > 0 /\ a.start = s}
  OBVIOUS
<1>5. (\E a \in H \cup {h} : Covers(a, s)) <=> \E a \in H : Covers(a, s)
  BY DEF Covers
<1>6. KeptAt(o, H \cup {h}, s) = KeptAt(o, H, s)
  BY <1>5 DEF KeptAt
<1>7. ReplacedAt(H \cup {h}, s) = ReplacedAt(H, s)
  BY <1>4 DEF ReplacedAt
<1>8. InsertedAt(H, s) = << >> /\ InsertedAt(H \cup {h}, s) = NewLines(h)
  BY <1>2, <1>3, TextOfSingle DEF InsertedAt
<1>9. QED
  BY <1>6, <1>7, <1>8 DEF Under, RowsInserted

\* A replacement takes the lines it covers.
RowsReplaced(o, H, h) ==
  /\ InsertedAt(H \cup {h}, h.start) = InsertedAt(H, h.start)
  /\ Under(o, H, h.start) = <<o[h.start]>> /\ Under(o, H \cup {h}, h.start) = NewLines(h)
  /\ \A i \in h.start + 1..h.start + h.count - 1 :
       Row(o, H, i) = <<o[i]>> /\ Row(o, H \cup {h}, i) = << >>

\* What a new replacement does to its rows.
LEMMA RowAtReplacement ==
  ASSUME NEW L, NEW o, NEW H, NEW h, Joins(L, o, H, h), h.count > 0
  PROVE  RowsReplaced(o, H, h)
<1> DEFINE s == h.start
<1>1. /\ s \in Nat \ {0} /\ h.count \in Nat /\ Len(o) \in Nat /\ h \in HunksOver(L)
      /\ s + h.count <= Len(o) + 1 /\ o \in Seq(L)
  BY DEF Joins, HunksOver
<1>2. ASSUME NEW a \in H, NEW i \in s..s + h.count - 1
      PROVE  /\ ~Covers(a, i) /\ ~(a.count > 0 /\ a.start = i)
             /\ i # s => ~(a.count = 0 /\ a.start = i)
  <2>1. a \in HunksOver(L) /\ ~HunksConflict(h, a)
    BY DEF Joins
  <2>2. a.start \in Nat \ {0} /\ a.count \in Nat
    BY <2>1 DEF HunksOver
  <2>3. CASE a.count = 0
    <3>1. a.start <= s \/ a.start >= s + h.count
      BY <1>1, <2>1, <2>3, ApartMeans
    <3>2. QED
      BY <1>1, <2>2, <2>3, <3>1 DEF Covers
  <2>4. CASE a.count > 0
    <3>1. s + h.count <= a.start \/ a.start + a.count <= s
      BY <1>1, <2>1, <2>4, ApartMeans
    <3>2. QED
      BY <1>1, <2>2, <2>4, <3>1 DEF Covers
  <2>5. QED
    BY <2>2, <2>3, <2>4
<1>3. ASSUME NEW i \in s..s + h.count - 1
      PROVE  /\ KeptAt(o, H, i) = <<o[i]>> /\ KeptAt(o, H \cup {h}, i) = << >>
             /\ ReplacedAt(H, i) = << >>
  <2>1. i <= Len(o) /\ Covers(h, i)
    BY <1>1 DEF Covers
  <2>2. KeptAt(o, H, i) = <<o[i]>> /\ KeptAt(o, H \cup {h}, i) = << >>
    BY <1>1, <1>2, <2>1 DEF KeptAt
  <2>3. {a \in H : a.count > 0 /\ a.start = i} = {}
    BY <1>2
  <2>4. QED
    BY <2>2, <2>3, TextOfSingle DEF ReplacedAt
<1>4. s \in s..s + h.count - 1
  BY <1>1
<1>5. ReplacedAt(H \cup {h}, s) = NewLines(h)
  <2>1. {a \in H \cup {h} : a.count > 0 /\ a.start = s} = {h}
    BY <1>2, <1>4
  <2>2. QED
    BY <2>1, TextOfSingle DEF ReplacedAt
<1>6. InsertedAt(H \cup {h}, s) = InsertedAt(H, s)
  <2>1. {a \in H \cup {h} : a.count = 0 /\ a.start = s} = {a \in H : a.count = 0 /\ a.start = s}
    OBVIOUS
  <2>2. QED
    BY <2>1 DEF InsertedAt
<1>7. NewLines(h) \in Seq(L)
  BY <1>1, NewLinesTyped
<1>8. Under(o, H, s) = <<o[s]>> /\ Under(o, H \cup {h}, s) = NewLines(h)
  <2>1. << >> \o <<o[s]>> = <<o[s]>> /\ NewLines(h) \o << >> = NewLines(h)
    BY <1>7, ConcatEmptySeq
  <2>2. QED
    BY <1>3, <1>4, <1>5, <2>1 DEF Under
<1>9. ASSUME NEW i \in s + 1..s + h.count - 1
      PROVE  Row(o, H, i) = <<o[i]>> /\ Row(o, H \cup {h}, i) = << >>
  <2>1. i \in s..s + h.count - 1 /\ i # s /\ i \in Nat \ {0}
    BY <1>1
  <2>2. {a \in H : a.count = 0 /\ a.start = i} = {}
    BY <1>2, <2>1
  <2>3. {a \in H \cup {h} : a.count = 0 /\ a.start = i} = {}
    BY <1>2, <2>1
  <2>4. {a \in H \cup {h} : a.count > 0 /\ a.start = i} = {}
    BY <1>2, <2>1
  <2>5. /\ InsertedAt(H, i) = << >> /\ InsertedAt(H \cup {h}, i) = << >>
        /\ ReplacedAt(H \cup {h}, i) = << >>
    BY <2>2, <2>3, <2>4, TextOfSingle DEF InsertedAt, ReplacedAt
  <2>6. Row(o, H, i) = (InsertedAt(H, i) \o ReplacedAt(H, i)) \o KeptAt(o, H, i)
    BY DEF Row, KeptAt
  <2>7. Row(o, H \cup {h}, i)
          = (InsertedAt(H \cup {h}, i) \o ReplacedAt(H \cup {h}, i)) \o KeptAt(o, H \cup {h}, i)
    BY DEF Row, KeptAt
  <2>8. (<< >> \o << >>) \o << >> = << >> /\ (<< >> \o << >>) \o <<o[i]>> = <<o[i]>>
    OBVIOUS
  <2>9. QED
    BY <1>3, <2>1, <2>5, <2>6, <2>7, <2>8
<1>10. QED
  BY <1>6, <1>8, <1>9 DEF RowsReplaced

-----------------------------------------------------------------------------
(***************************************************************************)
(* What one more hunk does to the composition.                             *)
(***************************************************************************)
\* Above the hunk nothing changes.
LEMMA RowsAbove ==
  ASSUME NEW L, NEW o, NEW H, NEW h, Joins(L, o, H, h)
  PROVE  \A k \in Nat : k < h.start => Rows(o, H \cup {h}, k) = Rows(o, H, k)
<1> DEFINE G == H \cup {h}
           S == {k \in Nat : k < h.start => Rows(o, G, k) = Rows(o, H, k)}
<1>1. H \in SUBSET HunksOver(L) /\ G \in SUBSET HunksOver(L) /\ o \in Seq(L)
  BY DEF Joins
<1>2. h.start \in Nat
  BY DEF Joins, HunksOver
<1>3. 0 \in S
  <2>1. Rows(o, G, 0) = << >> /\ Rows(o, H, 0) = << >>
    <3> HIDE DEF G
    <3>1. QED
      BY <1>1, RowsSteps
  <2>2. QED
    BY <2>1
<1>4. ASSUME NEW k \in Nat, k \in S PROVE k + 1 \in S
  <2>1. SUFFICES ASSUME k + 1 < h.start PROVE Rows(o, G, k + 1) = Rows(o, H, k + 1)
    OBVIOUS
  <2>2. Rows(o, G, k) = Rows(o, H, k)
    BY <1>2, <1>4, <2>1
  <2>3. k + 1 \in Nat \ {0} /\ k + 1 # h.start /\ ~Covers(h, k + 1)
    BY <1>2, <2>1 DEF Covers
  <2>4. Row(o, G, k + 1) = Row(o, H, k + 1)
    BY <2>3, RowElsewhere
  <2> HIDE DEF G
  <2>5. Rows(o, G, k + 1) = Rows(o, G, k) \o Row(o, G, k + 1)
    BY <1>1, RowsSteps
  <2>6. Rows(o, H, k + 1) = Rows(o, H, k) \o Row(o, H, k + 1)
    BY <1>1, RowsSteps
  <2>7. QED
    BY <2>2, <2>4, <2>5, <2>6
<1>5. Nat \subseteq S
  <2> HIDE DEF S
  <2>1. QED
    BY <1>3, <1>4, Induction
<1>6. QED
  BY <1>5

\* The text down to the place where h is put in.
Before(o, H, h) == Rows(o, H, h.start - 1) \o InsertedAt(H, h.start)

\* The last line h stands for.
Foot(h) == IF h.count = 0 THEN h.start ELSE h.start + h.count - 1

\* Down to line k, h takes the place of as many lines as it counts.
Swapped(L, o, H, h, k) ==
  \E old, rest \in Seq(L) :
    /\ Len(old) = h.count
    /\ Rows(o, H, k) = (Before(o, H, h) \o old) \o rest
    /\ Rows(o, H \cup {h}, k) = (Before(o, H, h) \o NewLines(h)) \o rest
    /\ h.count > 0 /\ k = Foot(h) => rest = << >>

\* One row more.
LEMMA RowsAt ==
  ASSUME NEW L, NEW o \in Seq(L), NEW H \in SUBSET HunksOver(L), NEW i \in Nat \ {0}
  PROVE  Rows(o, H, i) = Rows(o, H, i - 1) \o Row(o, H, i)
<1>1. PICK j \in Nat : i = j + 1
  OBVIOUS
<1>2. i - 1 = j
  BY <1>1
<1>3. Rows(o, H, j + 1) = Rows(o, H, j) \o Row(o, H, j + 1)
  BY RowsSteps
<1>4. QED
  BY <1>1, <1>2, <1>3, Zenon

\* Concatenation groups either way.
Grouped(a, b, c) == (a \o b) \o c = a \o (b \o c)

\* The same, as a fact to cite of parts whose inside does not matter.
LEMMA Regroup ==
  ASSUME NEW L, NEW a \in Seq(L), NEW b \in Seq(L), NEW c \in Seq(L)
  PROVE  Grouped(a, b, c)
  BY ConcatAssociative DEF Grouped

\* At the row of a new insertion.
LEMMA SwappedAtInsertion ==
  ASSUME NEW L, NEW o, NEW H, NEW h, Joins(L, o, H, h), h.count = 0
  PROVE  Swapped(L, o, H, h, h.start)
<1> DEFINE s == h.start
           G == H \cup {h}
           U == Under(o, H, s)
           A == Rows(o, H, s - 1)
           N == NewLines(h)
<1>1. /\ H \in SUBSET HunksOver(L) /\ G \in SUBSET HunksOver(L) /\ h \in HunksOver(L)
      /\ o \in Seq(L) /\ h.start + h.count <= Len(o) + 1
      /\ s \in Nat \ {0} /\ s - 1 \in Nat /\ (s - 1) + 1 = s /\ s - 1 < s
  BY DEF Joins, HunksOver
<1>2. InsertedAt(H, s) = << >> /\ InsertedAt(G, s) = N /\ Under(o, G, s) = U
  <2>1. RowsInserted(o, H, h)
    BY RowAtInsertion
  <2>2. QED
    BY <2>1 DEF RowsInserted
<1>3. A \in Seq(L) /\ U \in Seq(L) /\ N \in Seq(L) /\ << >> \in Seq(L)
  <2>1. A \in Seq(L)
    BY <1>1, RowsSteps
  <2>2. U \in Seq(L)
    <3>1. RowParts(L, o, H, s)
      BY <1>1, RowTyped
    <3>2. QED
      BY <3>1 DEF RowParts
  <2>3. N \in Seq(L)
    BY <1>1, NewLinesTyped
  <2>4. << >> \in Seq(L)
    OBVIOUS
  <2>5. QED
    BY <2>1, <2>2, <2>3, <2>4
<1>4. /\ Rows(o, H, s) = A \o (<< >> \o U)
      /\ Rows(o, G, s - 1) = A
      /\ Rows(o, G, s) = Rows(o, G, s - 1) \o (N \o U)
  <2>1. Rows(o, H, s) = A \o Row(o, H, s)
    BY <1>1, RowsAt
  <2>2. Rows(o, G, s) = Rows(o, G, s - 1) \o Row(o, G, s)
    BY <1>1, RowsAt
  <2>3. Row(o, H, s) = InsertedAt(H, s) \o U
    <3>1. RowParts(L, o, H, s)
      BY <1>1, RowTyped
    <3>2. QED
      BY <3>1 DEF RowParts
  <2>4. Row(o, G, s) = InsertedAt(G, s) \o Under(o, G, s)
    <3> HIDE DEF G
    <3>1. RowParts(L, o, G, s)
      BY <1>1, RowTyped
    <3>2. QED
      BY <3>1 DEF RowParts
  <2>5. Rows(o, G, s - 1) = A
    BY <1>1, RowsAbove
  <2> HIDE DEF A, U, N, G, s
  <2>6. QED
    BY <1>2, <2>1, <2>2, <2>3, <2>4, <2>5, Zenon
<1>5. Before(o, H, h) = A
  BY <1>2, <1>3, ConcatEmptySeq DEF Before
<1> HIDE DEF A, U, N, G, s
<1>6. Grouped(A, << >>, U) /\ Grouped(A, N, U)
  BY <1>3, Regroup
<1>8. Len(<< >>) = 0
  OBVIOUS
<1>9. /\ Rows(o, H, s) = (Before(o, H, h) \o << >>) \o U
      /\ Rows(o, G, s) = (Before(o, H, h) \o N) \o U
  BY <1>4, <1>5, <1>6, Zenon DEF Grouped
<1>10. ~(h.count > 0) /\ h.count = 0
  OBVIOUS
<1>11. QED
  BY <1>3, <1>8, <1>9, <1>10, Zenon DEF Swapped, s, G, N

\* At the last row of a new replacement.
LEMMA SwappedAtReplacement ==
  ASSUME NEW L, NEW o, NEW H, NEW h, Joins(L, o, H, h), h.count > 0
  PROVE  Swapped(L, o, H, h, h.start + h.count - 1)
<1> DEFINE s == h.start
           G == H \cup {h}
           B == Before(o, H, h)
           N == NewLines(h)
           Up(j) == \E old \in Seq(L) : /\ Len(old) = j + 1
                                        /\ Rows(o, H, s + j) = B \o old
                                        /\ Rows(o, G, s + j) = B \o N
           S == {j \in Nat : j < h.count => Up(j)}
<1>1. /\ H \in SUBSET HunksOver(L) /\ G \in SUBSET HunksOver(L) /\ h \in HunksOver(L)
      /\ o \in Seq(L) /\ h.start + h.count <= Len(o) + 1
      /\ s \in Nat \ {0} /\ s - 1 \in Nat /\ (s - 1) + 1 = s /\ s - 1 < s
      /\ h.count \in Nat /\ Len(o) \in Nat
  <2>1. /\ H \in SUBSET HunksOver(L) /\ h \in HunksOver(L)
        /\ o \in Seq(L) /\ h.start + h.count <= Len(o) + 1
    BY DEF Joins
  <2>2. s \in Nat \ {0} /\ h.count \in Nat /\ Len(o) \in Nat
    BY <2>1 DEF HunksOver
  <2>3. G \in SUBSET HunksOver(L)
    BY <2>1
  <2> HIDE DEF s, G
  <2>4. QED
    BY <2>1, <2>2, <2>3
<1>2. /\ InsertedAt(G, s) = InsertedAt(H, s)
      /\ Under(o, H, s) = <<o[s]>> /\ Under(o, G, s) = N
  <2>1. RowsReplaced(o, H, h)
    BY RowAtReplacement
  <2>2. QED
    BY <2>1 DEF RowsReplaced
<1>22. \A i \in s + 1..s + h.count - 1 : Row(o, H, i) = <<o[i]>> /\ Row(o, G, i) = << >>
  <2>1. RowsReplaced(o, H, h)
    BY RowAtReplacement
  <2>2. QED
    BY <2>1 DEF RowsReplaced
<1>3. /\ Rows(o, H, s - 1) \in Seq(L) /\ InsertedAt(H, s) \in Seq(L) /\ N \in Seq(L)
      /\ B \in Seq(L)
  <2>1. RowParts(L, o, H, s)
    BY <1>1, RowTyped
  <2>2. Rows(o, H, s - 1) \in Seq(L)
    BY <1>1, RowsSteps
  <2>3. N \in Seq(L)
    BY <1>1, NewLinesTyped
  <2>4. InsertedAt(H, s) \in Seq(L)
    BY <2>1 DEF RowParts
  <2> HIDE DEF N, s
  <2>5. Rows(o, H, s - 1) \o InsertedAt(H, s) \in Seq(L)
    BY <2>2, <2>4
  <2>6. QED
    BY <2>2, <2>3, <2>4, <2>5 DEF Before, s
<1>4. Rows(o, G, s - 1) = Rows(o, H, s - 1)
  BY <1>1, RowsAbove
<1>5. Up(0)
  <2>1. o[s] \in L
    BY <1>1
  <2>2. <<o[s]>> \in Seq(L) /\ Len(<<o[s]>>) = 0 + 1
    BY <2>1
  <2>3. Rows(o, H, s) = Rows(o, H, s - 1) \o Row(o, H, s)
    BY <1>1, RowsAt
  <2>4. Rows(o, G, s) = Rows(o, G, s - 1) \o Row(o, G, s)
    BY <1>1, RowsAt
  <2>13. RowParts(L, o, H, s) /\ RowParts(L, o, G, s)
    <3> HIDE DEF G
    <3>1. QED
      BY <1>1, RowTyped
  <2>5. Row(o, H, s) = InsertedAt(H, s) \o Under(o, H, s)
    BY <2>13 DEF RowParts
  <2>6. Row(o, G, s) = InsertedAt(G, s) \o Under(o, G, s)
    BY <2>13 DEF RowParts
  <2>7. B = Rows(o, H, s - 1) \o InsertedAt(H, s)
    BY DEF Before
  <2> HIDE DEF s, N, G, B
  <2>8. Grouped(Rows(o, H, s - 1), InsertedAt(H, s), <<o[s]>>)
    BY <1>3, <2>2, Regroup
  <2>9. Grouped(Rows(o, H, s - 1), InsertedAt(H, s), N)
    BY <1>3, Regroup
  <2>10. Rows(o, H, s) = B \o <<o[s]>> /\ Rows(o, G, s) = B \o N
    BY <1>2, <1>4, <2>3, <2>4, <2>5, <2>6, <2>7, <2>8, <2>9, Zenon DEF Grouped
  <2>11. s + 0 = s
    BY <1>1
  <2>12. QED
    BY <2>2, <2>10, <2>11
<1> HIDE DEF B, Up
<1>6. ASSUME NEW j \in Nat, j + 1 < h.count, Up(j) PROVE Up(j + 1)
  <2> DEFINE i == s + (j + 1)
  <2>1. i \in s + 1..s + h.count - 1 /\ i \in 1..Len(o) /\ i \in Nat \ {0} /\ i - 1 = s + j
    <3>1. h.count \in Nat /\ h.start \in Nat \ {0} /\ Len(o) \in Nat /\ h.start + h.count <= Len(o) + 1
      BY <1>1
    <3>2. QED
      BY <1>6, <3>1
  <2>2. PICK old \in Seq(L) : /\ Len(old) = j + 1
                              /\ Rows(o, H, s + j) = B \o old
                              /\ Rows(o, G, s + j) = B \o N
    BY <1>6 DEF Up
  <2>3. Rows(o, H, i) = Rows(o, H, s + j) \o Row(o, H, i)
    BY <1>1, <2>1, RowsAt
  <2>4. Rows(o, G, i) = Rows(o, G, s + j) \o Row(o, G, i)
    BY <1>1, <2>1, RowsAt
  <2>5. o[i] \in L
    BY <1>1, <2>1
  <2>6. Row(o, H, i) = <<o[i]>> /\ Row(o, G, i) = << >>
    BY <1>22, <2>1
  <2> HIDE DEF i, G, s, N
  <2>7. old \o <<o[i]>> \in Seq(L) /\ Len(old \o <<o[i]>>) = (j + 1) + 1 /\ <<o[i]>> \in Seq(L)
    BY <2>2, <2>5
  <2>8. Grouped(B, old, <<o[i]>>)
    BY <1>3, <2>7, Regroup
  <2>9. B \o N \in Seq(L)
    BY <1>3
  <2>10. (B \o N) \o << >> = B \o N
    BY <2>9, ConcatEmptySeq
  <2>11. Rows(o, H, i) = B \o (old \o <<o[i]>>) /\ Rows(o, G, i) = B \o N
    BY <2>2, <2>3, <2>4, <2>6, <2>8, <2>10, Zenon DEF Grouped
  <2>12. QED
    BY <2>7, <2>11 DEF i, Up
<1>7. Nat \subseteq S
  <2> HIDE DEF Up
  <2>1. 0 \in S
    BY <1>5
  <2>2. ASSUME NEW j \in Nat, j \in S PROVE j + 1 \in S
    BY <1>1, <1>6, <2>2
  <2> HIDE DEF S
  <2>3. QED
    BY <2>1, <2>2, Induction
<1>8. Up(h.count - 1)
  <2> HIDE DEF Up
  <2>1. h.count - 1 \in Nat /\ h.count - 1 < h.count
    BY <1>1
  <2>2. QED
    BY <1>7, <2>1
<1>9. PICK old \in Seq(L) : /\ Len(old) = (h.count - 1) + 1
                            /\ Rows(o, H, s + (h.count - 1)) = B \o old
                            /\ Rows(o, G, s + (h.count - 1)) = B \o N
  BY <1>8 DEF Up
<1>10. (h.count - 1) + 1 = h.count /\ s + (h.count - 1) = s + h.count - 1
  BY <1>1
<1>11. B \o old \in Seq(L) /\ B \o N \in Seq(L)
  BY <1>3
<1>12. B \o old = (B \o old) \o << >> /\ B \o N = (B \o N) \o << >>
  BY <1>11, ConcatEmptySeq
<1>13. << >> \in Seq(L)
  OBVIOUS
<1> HIDE DEF G
<1>14. /\ Len(old) = h.count
       /\ Rows(o, H, s + h.count - 1) = (B \o old) \o << >>
       /\ Rows(o, G, s + h.count - 1) = (B \o N) \o << >>
  BY <1>9, <1>10, <1>12
<1>15. QED
  BY <1>13, <1>14 DEF Swapped, B, G

\* At every row below.
LEMMA SwappedBelow ==
  ASSUME NEW L, NEW o, NEW H, NEW h, Joins(L, o, H, h)
  PROVE  \A k \in Nat : k >= Foot(h) => Swapped(L, o, H, h, k)
<1> DEFINE G == H \cup {h}
           B == Before(o, H, h)
           N == NewLines(h)
           S == {j \in Nat : Swapped(L, o, H, h, Foot(h) + j)}
<1>1. /\ H \in SUBSET HunksOver(L) /\ G \in SUBSET HunksOver(L) /\ h \in HunksOver(L)
      /\ o \in Seq(L) /\ h.start + h.count <= Len(o) + 1
      /\ h.start \in Nat \ {0} /\ h.count \in Nat /\ Foot(h) \in Nat
  BY DEF Joins, HunksOver, Foot
<1>2. 0 \in S
  <2>1. Swapped(L, o, H, h, Foot(h))
    <3>1. CASE h.count = 0
      BY <3>1, SwappedAtInsertion DEF Foot
    <3>2. CASE h.count > 0
      BY <1>1, <3>2, SwappedAtReplacement DEF Foot
    <3>3. QED
      BY <1>1, <3>1, <3>2
  <2>2. Foot(h) + 0 = Foot(h)
    BY <1>1
  <2>3. QED
    BY <2>1, <2>2
<1>3. /\ Rows(o, H, h.start - 1) \in Seq(L) /\ InsertedAt(H, h.start) \in Seq(L) /\ N \in Seq(L)
      /\ B \in Seq(L)
  <2>1. Rows(o, H, h.start - 1) \in Seq(L) /\ InsertedAt(H, h.start) \in Seq(L) /\ N \in Seq(L)
    <3>1. h.start - 1 \in Nat
      BY <1>1
    <3>2. RowParts(L, o, H, h.start)
      BY <1>1, RowTyped
    <3>3. QED
      BY <1>1, <3>1, <3>2, RowsSteps, NewLinesTyped DEF RowParts
  <2>2. QED
    BY <2>1 DEF Before
<1>4. /\ \A k \in Nat : Rows(o, H, k + 1) = Rows(o, H, k) \o Row(o, H, k + 1)
      /\ \A k \in Nat : Rows(o, G, k + 1) = Rows(o, G, k) \o Row(o, G, k + 1)
  <2> HIDE DEF G
  <2>1. o \in Seq(L) /\ H \in SUBSET HunksOver(L) /\ G \in SUBSET HunksOver(L)
    BY <1>1
  <2>2. \A k \in Nat : Rows(o, H, k + 1) = Rows(o, H, k) \o Row(o, H, k + 1)
    BY <2>1, RowsSteps
  <2>3. \A k \in Nat : Rows(o, G, k + 1) = Rows(o, G, k) \o Row(o, G, k + 1)
    BY <2>1, RowsSteps
  <2>4. QED
    BY <2>2, <2>3
<1>5. ASSUME NEW j \in Nat, j \in S PROVE j + 1 \in S
  <2> DEFINE k == Foot(h) + j
             R == Row(o, H, k + 1)
  <2>1. k \in Nat /\ Foot(h) + (j + 1) = k + 1 /\ k + 1 \in Nat \ {0} /\ k + 1 # Foot(h)
    BY <1>1
  <2>2. PICK old, rest \in Seq(L) :
          /\ Len(old) = h.count
          /\ Rows(o, H, k) = (B \o old) \o rest
          /\ Rows(o, G, k) = (B \o N) \o rest
    BY <1>5 DEF Swapped
  <2>3. k + 1 # h.start /\ ~Covers(h, k + 1)
    <3>1. h.start <= Foot(h) /\ h.start + h.count <= Foot(h) + 1
      BY <1>1 DEF Foot
    <3>2. k + 1 > h.start /\ k + 1 >= h.start + h.count
      BY <1>1, <3>1
    <3> HIDE DEF k
    <3>3. QED
      BY <1>1, <2>1, <3>2 DEF Covers
  <2>4. Row(o, G, k + 1) = R
    BY <2>1, <2>3, RowElsewhere
  <2> HIDE DEF G, B, N
  <2>5. R \in Seq(L)
    <3>1. RowParts(L, o, H, k + 1)
      BY <1>1, <2>1, RowTyped
    <3>2. QED
      BY <3>1 DEF RowParts
  <2> HIDE DEF k
  <2>6. Rows(o, H, k + 1) = Rows(o, H, k) \o R
    BY <1>4, <2>1
  <2>7. Rows(o, G, k + 1) = Rows(o, G, k) \o R
    BY <1>4, <2>1, <2>4
  <2> HIDE DEF R
  <2>8. B \o old \in Seq(L) /\ B \o N \in Seq(L)
    BY <1>3
  <2>9. rest \o R \in Seq(L)
    BY <2>5
  <2>10. Grouped(B \o old, rest, R) /\ Grouped(B \o N, rest, R)
    BY <2>5, <2>8, Regroup
  <2>11. /\ Rows(o, H, k + 1) = (B \o old) \o (rest \o R)
         /\ Rows(o, G, k + 1) = (B \o N) \o (rest \o R)
    BY <2>2, <2>6, <2>7, <2>10, Zenon DEF Grouped
  <2>12. Swapped(L, o, H, h, k + 1)
    BY <2>1, <2>2, <2>9, <2>11 DEF Swapped, B, N, G
  <2>13. Swapped(L, o, H, h, Foot(h) + (j + 1))
    BY <2>1, <2>12
  <2>14. QED
    BY <2>13
<1>6. Nat \subseteq S
  <2> HIDE DEF S
  <2>1. QED
    BY <1>2, <1>5, Induction
<1>7. ASSUME NEW k \in Nat, k >= Foot(h) PROVE Swapped(L, o, H, h, k)
  <2>1. k - Foot(h) \in Nat /\ Foot(h) + (k - Foot(h)) = k
    BY <1>1, <1>7
  <2>2. QED
    BY <1>6, <2>1
<1>8. QED
  BY <1>7

-----------------------------------------------------------------------------
(***************************************************************************)
(* One more hunk is a splice at its position.                              *)
(***************************************************************************)
\* c has the parts a and b.
Joined(L, a, b, c) ==
  /\ c \in Seq(L) /\ Len(c) = Len(a) + Len(b)
  /\ \A i \in 1..Len(a) : c[i] = a[i]
  /\ \A i \in 1..Len(b) : c[Len(a) + i] = b[i]

\* A concatenation has both its parts.
LEMMA ConcatGives ==
  ASSUME NEW L, NEW a \in Seq(L), NEW b \in Seq(L)
  PROVE  Joined(L, a, b, a \o b)
<1>1. Len(a) \in Nat /\ Len(b) \in Nat
  OBVIOUS
<1>2. ASSUME NEW i \in 1..Len(b) PROVE (a \o b)[Len(a) + i] = b[i]
  <2>1. Len(a) + i \in 1..Len(a) + Len(b) /\ ~(Len(a) + i <= Len(a)) /\ (Len(a) + i) - Len(a) = i
    BY <1>1
  <2>2. (a \o b)[Len(a) + i] = b[(Len(a) + i) - Len(a)]
    BY <2>1, ConcatProperties
  <2>3. QED
    BY <2>1, <2>2
<1>3. ASSUME NEW i \in 1..Len(a) PROVE (a \o b)[i] = a[i]
  OBVIOUS
<1>4. QED
  BY <1>2, <1>3 DEF Joined

\* A splice in the middle of a text.
Exchanged(B, old, rest, new) ==
  Splice((B \o old) \o rest, Len(B), Len(old), new) = (B \o new) \o rest

\* What a splice at the end of the first part of a text does.
LEMMA SpliceSwaps ==
  ASSUME NEW L, NEW B \in Seq(L), NEW old \in Seq(L), NEW rest \in Seq(L), NEW new \in Seq(L)
  PROVE  Exchanged(B, old, rest, new)
<1> DEFINE t == (B \o old) \o rest
<1>1. /\ B \o old \in Seq(L) /\ Len(B \o old) = Len(B) + Len(old)
      /\ \A i \in 1..Len(B) : (B \o old)[i] = B[i]
  OBVIOUS
<1>2. /\ t \in Seq(L) /\ Len(t) = Len(B) + Len(old) + Len(rest)
      /\ \A i \in 1..Len(B) : t[i] = B[i]
      /\ \A i \in 1..Len(rest) : t[Len(B) + Len(old) + i] = rest[i]
  <2> DEFINE q == B \o old
  <2>1. q \in Seq(L) /\ Len(q) = Len(B) + Len(old) /\ \A i \in 1..Len(B) : q[i] = B[i]
    BY <1>1
  <2> HIDE DEF q
  <2>2. Joined(L, q, rest, q \o rest)
    BY <2>1, ConcatGives
  <2>3. t = q \o rest
    BY DEF q
  <2> HIDE DEF t
  <2>4. /\ t \in Seq(L) /\ Len(t) = Len(q) + Len(rest)
        /\ \A i \in 1..Len(q) : t[i] = q[i]
        /\ \A i \in 1..Len(rest) : t[Len(q) + i] = rest[i]
    BY <2>2, <2>3, Zenon DEF Joined
  <2>5. Len(B) \in Nat /\ Len(old) \in Nat /\ Len(rest) \in Nat
    OBVIOUS
  <2>6. Len(t) = Len(B) + Len(old) + Len(rest)
    BY <2>1, <2>4, <2>5
  <2>7. \A i \in 1..Len(B) : t[i] = B[i]
    BY <2>1, <2>4, <2>5
  <2>8. \A i \in 1..Len(rest) : t[Len(B) + Len(old) + i] = rest[i]
    BY <2>1, <2>4, <2>5
  <2>9. QED
    BY <2>4, <2>6, <2>7, <2>8
<1> HIDE DEF t
<1>3. Len(B) \in Nat /\ Len(old) \in Nat /\ Len(rest) \in Nat
  OBVIOUS
<1>4. SubSeq(t, 1, Len(B)) = B
  <2>1. SubSeq(t, 1, Len(B)) = [i \in 1..Len(B) |-> t[i]]
    BY <1>2, <1>3
  <2>2. B = [i \in 1..Len(B) |-> B[i]]
    OBVIOUS
  <2>3. QED
    BY <1>2, <2>1, <2>2
<1>5. SubSeq(t, Len(B) + Len(old) + 1, Len(t)) = rest
  <2> DEFINE u == SubSeq(t, Len(B) + Len(old) + 1, Len(t))
  <2>1. u \in Seq(L) /\ Len(u) = Len(rest) /\ \A i \in 1..Len(rest) : u[i] = t[Len(B) + Len(old) + i]
    <3>1. \A i \in Len(B) + Len(old) + 1..Len(t) : t[i] \in L
      BY <1>2, <1>3
    <3>2. Len(B) + Len(old) + 1 \in Int /\ Len(t) \in Int
      BY <1>2, <1>3
    <3>3. /\ u \in Seq(L)
          /\ Len(u) = IF Len(B) + Len(old) + 1 <= Len(t) THEN Len(t) - (Len(B) + Len(old) + 1) + 1 ELSE 0
          /\ \A i \in 1..Len(t) - (Len(B) + Len(old) + 1) + 1 :
               u[i] = t[(Len(B) + Len(old) + 1) + i - 1]
      BY <3>1, <3>2, SubSeqProperties
    <3> HIDE DEF u
    <3>4. \A i \in 1..Len(rest) : (Len(B) + Len(old) + 1) + i - 1 = Len(B) + Len(old) + i
      BY <1>3
    <3>5. Len(u) = Len(rest) /\ Len(t) - (Len(B) + Len(old) + 1) + 1 = Len(rest)
      BY <1>2, <1>3, <3>3
    <3>6. QED
      BY <3>3, <3>4, <3>5
  <2> HIDE DEF u
  <2>2. \A i \in 1..Len(rest) : u[i] = rest[i]
    BY <1>2, <2>1
  <2>3. u = rest
    BY <2>1, <2>2
  <2>4. QED
    BY <2>3 DEF u
<1>6. (IF Len(B) < Len(t) THEN Len(B) ELSE Len(t)) = Len(B)
  BY <1>2, <1>3
<1>7. Splice(t, Len(B), Len(old), new) = (B \o new) \o rest
  BY <1>4, <1>5, <1>6 DEF Splice
<1>8. QED
  BY <1>7 DEF t, Exchanged

\* The row of the composed text at which what h brings is put in.
Pos(o, H, x) == Len(Rows(o, H, x - 1)) + Len(InsertedAt(H, x))

\* To put in one more hunk is to splice it in at its position.
LEMMA ComposeSplices ==
  ASSUME NEW L, NEW o, NEW H, NEW h, Joins(L, o, H, h)
  PROVE  Compose(o, H \cup {h}) = Splice(Compose(o, H), Pos(o, H, h.start), h.count, NewLines(h))
<1> DEFINE n == Len(o) + 1
<1>1. /\ H \in SUBSET HunksOver(L) /\ h \in HunksOver(L)
      /\ h.start \in Nat \ {0} /\ h.count \in Nat /\ o \in Seq(L) /\ h.start + h.count <= Len(o) + 1
  BY DEF Joins, HunksOver
<1>2. n \in Nat /\ n >= Foot(h)
  BY <1>1 DEF Foot
<1>3. Swapped(L, o, H, h, n)
  <2> HIDE DEF n
  <2>1. QED
    BY <1>2, SwappedBelow
<1>4. PICK old, rest \in Seq(L) :
        /\ Len(old) = h.count
        /\ Rows(o, H, n) = (Before(o, H, h) \o old) \o rest
        /\ Rows(o, H \cup {h}, n) = (Before(o, H, h) \o NewLines(h)) \o rest
  BY <1>3 DEF Swapped
<1>5. /\ Rows(o, H, h.start - 1) \in Seq(L) /\ InsertedAt(H, h.start) \in Seq(L)
      /\ NewLines(h) \in Seq(L)
  <2>1. h.start - 1 \in Nat
    BY <1>1
  <2>2. RowParts(L, o, H, h.start)
    BY <1>1, RowTyped
  <2>3. QED
    BY <1>1, <2>1, <2>2, RowsSteps, NewLinesTyped DEF RowParts
<1>6. Before(o, H, h) \in Seq(L) /\ Len(Before(o, H, h)) = Pos(o, H, h.start)
  BY <1>5 DEF Before, Pos
<1>7. Exchanged(Before(o, H, h), old, rest, NewLines(h))
  BY <1>5, <1>6, SpliceSwaps
<1>8. Compose(o, H) = Rows(o, H, n) /\ Compose(o, H \cup {h}) = Rows(o, H \cup {h}, n)
  BY DEF Compose
<1>9. QED
  BY <1>4, <1>6, <1>7, <1>8, Zenon DEF Exchanged

-----------------------------------------------------------------------------
(***************************************************************************)
(* Offsets and positions (lineOffsetForStart).                             *)
(***************************************************************************)
\* The lines between the first and the last line of a replacement.
Inside(h, x) == h.count > 0 /\ h.start < x /\ x < h.start + h.count

\* A position is a number, of a sequence of lines.
PosTyped(L, o, H, x) ==
  /\ Rows(o, H, x - 1) \in Seq(L) /\ InsertedAt(H, x) \in Seq(L)
  /\ Len(Rows(o, H, x - 1)) \in Nat /\ Len(InsertedAt(H, x)) \in Nat /\ Pos(o, H, x) \in Nat

\* Every line has a position.
LEMMA PosIsRow ==
  ASSUME NEW L, NEW o \in Seq(L), NEW H \in SUBSET HunksOver(L), NEW x \in Nat \ {0}
  PROVE  PosTyped(L, o, H, x)
<1>1. x - 1 \in Nat
  OBVIOUS
<1>2. RowParts(L, o, H, x)
  BY RowTyped
<1>3. Rows(o, H, x - 1) \in Seq(L)
  BY <1>1, RowsSteps
<1>4. InsertedAt(H, x) \in Seq(L)
  BY <1>2 DEF RowParts
<1>5. Len(Rows(o, H, x - 1)) \in Nat /\ Len(InsertedAt(H, x)) \in Nat
  BY <1>3, <1>4
<1>6. QED
  BY <1>3, <1>4, <1>5 DEF PosTyped, Pos

\* h inserts nothing at line x.
InsertedSame(H, h, x) == InsertedAt(H \cup {h}, x) = InsertedAt(H, x)

\* A hunk inserts nothing where it does not start.
LEMMA InsertedElsewhere ==
  ASSUME NEW H, NEW h, NEW x, h.start # x
  PROVE  InsertedSame(H, h, x)
<1>1. {a \in H \cup {h} : a.count = 0 /\ a.start = x} = {a \in H : a.count = 0 /\ a.start = x}
  OBVIOUS
<1>2. QED
  BY <1>1 DEF InsertedAt, InsertedSame

\* The length of three parts.
LenOfThree(a, b, c) == Len((a \o b) \o c) = Len(a) + Len(b) + Len(c)

\* Lengths add up.
LEMMA ThreeLong ==
  ASSUME NEW L, NEW a \in Seq(L), NEW b \in Seq(L), NEW c \in Seq(L)
  PROVE  LenOfThree(a, b, c)
<1>1. a \o b \in Seq(L) /\ Len(a \o b) = Len(a) + Len(b)
  OBVIOUS
<1>2. Len((a \o b) \o c) = Len(a \o b) + Len(c)
  BY <1>1
<1>3. QED
  BY <1>1, <1>2 DEF LenOfThree

\* By how much h moves what is put in at line x.
Moved(o, H, h, x) == Pos(o, H \cup {h}, x) = Pos(o, H, x) + LineShift(h, x)

\* lineOffsetForStart, one hunk: the shift counted for a hunk is what putting it in
\* does to the position of every line that is not inside it.
LEMMA PosShift ==
  ASSUME NEW L, NEW o, NEW H, NEW h, Joins(L, o, H, h), NEW x \in Nat \ {0}, ~Inside(h, x)
  PROVE  Moved(o, H, h, x)
<1> DEFINE G == H \cup {h}
           N == NewLines(h)
<1>1. /\ H \in SUBSET HunksOver(L) /\ G \in SUBSET HunksOver(L) /\ h \in HunksOver(L)
      /\ o \in Seq(L) /\ h.start \in Nat \ {0} /\ h.count \in Nat /\ x - 1 \in Nat
  BY DEF Joins, HunksOver
<1>2. N \in Seq(L) /\ Len(N) \in Nat
  BY <1>1, NewLinesTyped
<1>3. PosTyped(L, o, H, x)
  BY <1>1, PosIsRow
<1>4. LineShift(h, x) = IF x < h.start \/ (x = h.start /\ h.count > 0) THEN 0 ELSE Len(N) - h.count
  <2>1. CASE h.count = 0
    BY <1>1, <2>1 DEF LineShift, LiesAbove, HunkRange, HunkLineDelta
  <2>2. CASE h.count > 0
    <3>1. HunkRange(h) = [start |-> h.start, end |-> h.start + h.count - 1, insert |-> FALSE]
      BY <1>1, <2>2 DEF HunkRange
    <3>2. LiesAbove(h, x) <=> h.start + h.count - 1 < x
      BY <3>1 DEF LiesAbove
    <3>3. x <= h.start \/ x >= h.start + h.count
      BY <1>1, <2>2 DEF Inside
    <3>4. x \in Nat /\ h.count \in Nat \ {0} /\ h.start \in Nat
      BY <1>1, <2>2
    <3>5. LiesAbove(h, x) <=> ~(x < h.start \/ (x = h.start /\ h.count > 0))
      BY <2>2, <3>2, <3>3, <3>4
    <3>6. QED
      BY <3>5 DEF LineShift, HunkLineDelta
  <2>3. QED
    BY <1>1, <2>1, <2>2
<1>5. CASE x <= h.start
  <2>1. x - 1 < h.start
    BY <1>1, <1>5
  <2>2. Rows(o, G, x - 1) = Rows(o, H, x - 1)
    BY <1>1, <2>1, RowsAbove
  <2>3. CASE x < h.start
    <3>1. InsertedSame(H, h, x)
      BY <1>1, <2>3, InsertedElsewhere
    <3>2. LineShift(h, x) = 0
      BY <1>4, <2>3
    <3>3. Pos(o, G, x) = Pos(o, H, x)
      BY <2>2, <3>1 DEF Pos, InsertedSame
    <3>4. QED
      BY <1>3, <3>2, <3>3 DEF Moved, PosTyped
  <2>4. CASE x = h.start /\ h.count > 0
    <3>1. RowsReplaced(o, H, h)
      BY <2>4, RowAtReplacement
    <3>2. InsertedAt(G, x) = InsertedAt(H, x)
      BY <2>4, <3>1 DEF RowsReplaced
    <3>3. LineShift(h, x) = 0
      BY <1>4, <2>4
    <3>4. Pos(o, G, x) = Pos(o, H, x)
      BY <2>2, <3>2 DEF Pos
    <3>5. QED
      BY <1>3, <3>3, <3>4 DEF Moved, PosTyped
  <2>5. CASE x = h.start /\ h.count = 0
    <3>1. RowsInserted(o, H, h)
      BY <2>5, RowAtInsertion
    <3>2. InsertedAt(G, x) = N /\ InsertedAt(H, x) = << >>
      BY <2>5, <3>1 DEF RowsInserted
    <3>3. LineShift(h, x) = Len(N)
      BY <1>2, <1>4, <2>5
    <3>4. Len(<< >>) = 0
      OBVIOUS
    <3>5. Pos(o, G, x) = Len(Rows(o, H, x - 1)) + Len(N) /\ Pos(o, H, x) = Len(Rows(o, H, x - 1)) + 0
      BY <2>2, <3>2, <3>4 DEF Pos
    <3> HIDE DEF N
    <3>6. QED
      BY <1>2, <1>3, <3>3, <3>5 DEF Moved, PosTyped
  <2>6. QED
    BY <1>1, <1>5, <2>3, <2>4, <2>5
<1>6. CASE x > h.start
  <2>1. x - 1 >= Foot(h)
    BY <1>1, <1>6 DEF Foot, Inside
  <2>2. Swapped(L, o, H, h, x - 1)
    BY <1>1, <2>1, SwappedBelow
  <2> DEFINE B == Before(o, H, h)
  <2>3. PICK old, rest \in Seq(L) :
          /\ Len(old) = h.count
          /\ Rows(o, H, x - 1) = (B \o old) \o rest
          /\ Rows(o, G, x - 1) = (B \o N) \o rest
    BY <2>2 DEF Swapped
  <2>4. B \in Seq(L) /\ Len(B) \in Nat
    <3>1. PosTyped(L, o, H, h.start)
      BY <1>1, PosIsRow
    <3>2. QED
      BY <3>1 DEF PosTyped, Before
  <2>5. InsertedSame(H, h, x)
    BY <1>1, <1>6, InsertedElsewhere
  <2>6. LineShift(h, x) = Len(N) - h.count
    BY <1>1, <1>4, <1>6
  <2> HIDE DEF B, N, G
  <2>7. Len((B \o old) \o rest) = Len(B) + h.count + Len(rest)
    <3>1. LenOfThree(B, old, rest)
      BY <2>4, ThreeLong
    <3>2. QED
      BY <2>3, <3>1 DEF LenOfThree
  <2>8. Len((B \o N) \o rest) = Len(B) + Len(N) + Len(rest)
    <3>1. LenOfThree(B, N, rest)
      BY <1>2, <2>4, ThreeLong
    <3>2. QED
      BY <3>1 DEF LenOfThree
  <2>9. Len(rest) \in Nat
    OBVIOUS
  <2>10. /\ Pos(o, H, x) = (Len(B) + h.count + Len(rest)) + Len(InsertedAt(H, x))
         /\ Pos(o, G, x) = (Len(B) + Len(N) + Len(rest)) + Len(InsertedAt(H, x))
    BY <2>3, <2>5, <2>7, <2>8 DEF Pos, InsertedSame, G
  <2>11. h.count \in Nat /\ Len(InsertedAt(H, x)) \in Nat /\ Len(N) \in Nat
    BY <1>1, <1>2, <1>3 DEF PosTyped
  <2>12. Pos(o, G, x) = Pos(o, H, x) + LineShift(h, x)
    BY <2>4, <2>6, <2>9, <2>10, <2>11
  <2>13. QED
    BY <2>12 DEF Moved, G
<1>7. QED
  BY <1>1, <1>5, <1>6

\* With nothing put in the text is the original, and every line is at its place.
LEMMA RowsOfNone ==
  ASSUME NEW L, NEW o \in Seq(L)
  PROVE  /\ \A k \in Nat : k <= Len(o) => Len(Rows(o, {}, k)) = k
         /\ \A k \in Nat : k <= Len(o) => Rows(o, {}, k) = SubSeq(o, 1, k)
         /\ Compose(o, {}) = o
<1> DEFINE S == {k \in Nat : k <= Len(o) => Rows(o, {}, k) = SubSeq(o, 1, k)}
<1>1. {} \in SUBSET HunksOver(L) /\ Len(o) \in Nat
  OBVIOUS
<1>2. \A i \in Nat \ {0} : Row(o, {}, i) = IF i > Len(o) THEN << >> ELSE <<o[i]>>
  <2> SUFFICES ASSUME NEW i \in Nat \ {0}
               PROVE  Row(o, {}, i) = IF i > Len(o) THEN << >> ELSE <<o[i]>>
    OBVIOUS
  <2>1. InsertedAt({}, i) = << >> /\ ReplacedAt({}, i) = << >>
    <3>1. {a \in {} : a.count = 0 /\ a.start = i} = {} /\ {a \in {} : a.count > 0 /\ a.start = i} = {}
      OBVIOUS
    <3>2. QED
      BY <3>1, TextOfSingle DEF InsertedAt, ReplacedAt
  <2>2. Row(o, {}, i) = (<< >> \o << >>) \o KeptAt(o, {}, i)
    BY <2>1 DEF Row, KeptAt
  <2>3. KeptAt(o, {}, i) = IF i > Len(o) THEN << >> ELSE <<o[i]>>
    BY DEF KeptAt
  <2>4. (<< >> \o << >>) \o << >> = << >> /\ (<< >> \o << >>) \o <<o[i]>> = <<o[i]>>
    OBVIOUS
  <2>5. QED
    BY <2>2, <2>3, <2>4
<1>3. 0 \in S
  <2>1. Rows(o, {}, 0) = << >>
    BY <1>1, RowsSteps
  <2>2. SubSeq(o, 1, 0) = << >>
    OBVIOUS
  <2>3. QED
    BY <2>1, <2>2
<1>4. ASSUME NEW k \in Nat, k \in S PROVE k + 1 \in S
  <2>1. SUFFICES ASSUME k + 1 <= Len(o) PROVE Rows(o, {}, k + 1) = SubSeq(o, 1, k + 1)
    OBVIOUS
  <2>2. Rows(o, {}, k) = SubSeq(o, 1, k)
    BY <1>1, <1>4, <2>1
  <2>3. Rows(o, {}, k + 1) = Rows(o, {}, k) \o Row(o, {}, k + 1)
    BY <1>1, RowsSteps
  <2>4. Row(o, {}, k + 1) = <<o[k + 1]>>
    BY <1>1, <1>2, <2>1
  <2>5. SubSeq(o, 1, k + 1) = SubSeq(o, 1, k) \o <<o[k + 1]>>
    BY <1>1, <2>1
  <2>6. QED
    BY <2>2, <2>3, <2>4, <2>5
<1>5. Nat \subseteq S
  <2> HIDE DEF S
  <2>1. QED
    BY <1>3, <1>4, Induction
<1>6. \A k \in Nat : k <= Len(o) => Rows(o, {}, k) = SubSeq(o, 1, k)
  BY <1>5
<1>7. \A k \in Nat : k <= Len(o) => Len(SubSeq(o, 1, k)) = k
  BY <1>1
<1>8. Compose(o, {}) = o
  <2>1. Rows(o, {}, Len(o) + 1) = Rows(o, {}, Len(o)) \o Row(o, {}, Len(o) + 1)
    BY <1>1, RowsSteps
  <2>2. Row(o, {}, Len(o) + 1) = << >>
    BY <1>1, <1>2
  <2>3. Rows(o, {}, Len(o)) = SubSeq(o, 1, Len(o))
    BY <1>1, <1>6
  <2>4. SubSeq(o, 1, Len(o)) = o
    OBVIOUS
  <2>5. QED
    BY <2>1, <2>2, <2>3, <2>4, ConcatEmptySeq DEF Compose
<1>9. QED
  BY <1>6, <1>7, <1>8

\* In the original a line is at its own row.
LEMMA PosOfNone ==
  ASSUME NEW L, NEW o \in Seq(L), NEW x \in 1..Len(o) + 1
  PROVE  Pos(o, {}, x) = x - 1
<1>1. x - 1 \in Nat /\ x - 1 <= Len(o)
  OBVIOUS
<1>2. Len(Rows(o, {}, x - 1)) = x - 1
  BY <1>1, RowsOfNone
<1>3. InsertedAt({}, x) = << >> /\ Len(<< >>) = 0
  <2>1. {a \in {} : a.count = 0 /\ a.start = x} = {}
    OBVIOUS
  <2>2. QED
    BY <2>1, TextOfSingle DEF InsertedAt
<1>4. QED
  BY <1>1, <1>2, <1>3 DEF Pos

-----------------------------------------------------------------------------
(***************************************************************************)
(* Positions increase with the lines of the original.                      *)
(***************************************************************************)
\* The text never gets shorter from line to line.
LEMMA RowsGrow ==
  ASSUME NEW L, NEW o \in Seq(L), NEW H \in SUBSET HunksOver(L)
  PROVE  \A j, k \in Nat : j <= k => Len(Rows(o, H, j)) <= Len(Rows(o, H, k))
<1> SUFFICES ASSUME NEW j \in Nat
             PROVE  \A k \in Nat : j <= k => Len(Rows(o, H, j)) <= Len(Rows(o, H, k))
  OBVIOUS
<1> DEFINE S == {d \in Nat : Len(Rows(o, H, j)) <= Len(Rows(o, H, j + d))}
<1>1. \A k \in Nat : Len(Rows(o, H, k)) \in Nat
  BY RowsSteps
<1>2. 0 \in S
  BY <1>1
<1>3. ASSUME NEW d \in Nat, d \in S PROVE d + 1 \in S
  <2> DEFINE k == j + d
  <2>1. k \in Nat /\ j + (d + 1) = k + 1 /\ k + 1 \in Nat \ {0}
    OBVIOUS
  <2>2. RowParts(L, o, H, k + 1)
    BY <2>1, RowTyped
  <2>3. Row(o, H, k + 1) \in Seq(L)
    BY <2>2 DEF RowParts
  <2>4. Rows(o, H, k) \in Seq(L) /\ Rows(o, H, k + 1) = Rows(o, H, k) \o Row(o, H, k + 1)
    BY <2>1, RowsSteps
  <2>5. Len(Rows(o, H, k)) <= Len(Rows(o, H, k + 1))
    BY <2>3, <2>4
  <2>6. Len(Rows(o, H, j)) <= Len(Rows(o, H, k))
    BY <1>3
  <2> HIDE DEF k
  <2>7. Len(Rows(o, H, j)) <= Len(Rows(o, H, k + 1))
    BY <1>1, <2>1, <2>5, <2>6
  <2>8. QED
    BY <2>1, <2>7
<1>4. Nat \subseteq S
  <2> HIDE DEF S
  <2>1. QED
    BY <1>2, <1>3, Induction
<1>5. ASSUME NEW k \in Nat, j <= k PROVE Len(Rows(o, H, j)) <= Len(Rows(o, H, k))
  <2>1. k - j \in Nat /\ j + (k - j) = k
    BY <1>5
  <2>2. QED
    BY <1>4, <2>1
<1>6. QED
  BY <1>5

\* None of the hunks takes lines out without putting one in.
Filling(H) == \A a \in H : NewLines(a) # << >>

\* Line x is not inside any of the hunks.
Clear(H, x) == \A a \in H : ~Inside(a, x)

\* Line x leaves a line of its own.
UnderThere(o, H, x) == Len(Rows(o, H, x)) >= Pos(o, H, x) + 1

\* A line that is not inside a replacement leaves at least one line.
LEMMA LineStays ==
  ASSUME NEW L, NEW o \in Seq(L), NEW H \in SUBSET HunksOver(L), Filling(H),
         NEW x \in 1..Len(o), Clear(H, x)
  PROVE  UnderThere(o, H, x)
<1>1. x \in Nat \ {0} /\ ~(x > Len(o))
  OBVIOUS
<1>2. PosTyped(L, o, H, x)
  BY <1>1, PosIsRow
<1>3. RowParts(L, o, H, x)
  BY <1>1, RowTyped
<1>4. Under(o, H, x) # << >>
  <2>1. ReplacedAt(H, x) \in Seq(L) /\ KeptAt(o, H, x) \in Seq(L)
    BY <1>3 DEF RowParts
  <2> DEFINE here == {a \in H : a.count > 0 /\ a.start = x}
  <2>2. CASE here # {}
    <3>1. (CHOOSE a \in here : TRUE) \in H
      BY <2>2
    <3>2. ReplacedAt(H, x) # << >>
      BY <2>2, <3>1 DEF Filling, ReplacedAt, TextOfOne
    <3>3. Len(ReplacedAt(H, x)) > 0
      BY <2>1, <3>2
    <3>4. Len(Under(o, H, x)) > 0
      BY <2>1, <3>3 DEF Under
    <3>5. Len(<< >>) = 0
      OBVIOUS
    <3>6. QED
      BY <3>4, <3>5
  <2>3. CASE here = {}
    <3>1. ASSUME NEW a \in H PROVE ~Covers(a, x)
      <4>1. ~(a.count > 0 /\ a.start = x) /\ ~Inside(a, x)
        BY <2>3 DEF Clear
      <4>2. a.start \in Nat \ {0}
        BY DEF HunksOver
      <4>3. QED
        BY <1>1, <4>1, <4>2 DEF Covers, Inside
    <3>2. KeptAt(o, H, x) = <<o[x]>>
      BY <1>1, <3>1 DEF KeptAt
    <3>3. ReplacedAt(H, x) = << >>
      BY <2>3, TextOfSingle DEF ReplacedAt
    <3>4. Under(o, H, x) = << >> \o <<o[x]>>
      BY <3>2, <3>3 DEF Under
    <3>5. << >> \o <<o[x]>> # << >>
      OBVIOUS
    <3>6. QED
      BY <3>4, <3>5
  <2>4. QED
    BY <2>2, <2>3
<1>5. Rows(o, H, x) = Rows(o, H, x - 1) \o Row(o, H, x)
  BY <1>1, RowsAt
<1>6. Under(o, H, x) \in Seq(L) /\ Row(o, H, x) = InsertedAt(H, x) \o Under(o, H, x)
  BY <1>3 DEF RowParts
<1>7. Rows(o, H, x - 1) \in Seq(L) /\ InsertedAt(H, x) \in Seq(L)
  BY <1>2 DEF PosTyped
<1>8. Len(Under(o, H, x)) >= 1
  BY <1>4, <1>6
<1>9. Len(Row(o, H, x)) = Len(InsertedAt(H, x)) + Len(Under(o, H, x)) /\ Row(o, H, x) \in Seq(L)
  BY <1>6, <1>7
<1>10. Len(Rows(o, H, x)) = Len(Rows(o, H, x - 1)) + Len(Row(o, H, x))
  <2>1. LenOfThree(Rows(o, H, x - 1), Row(o, H, x), << >>)
    <3>1. /\ << >> \in Seq(L)
          /\ Rows(o, H, x - 1) \in Seq(L) /\ Row(o, H, x) \in Seq(L)
      BY <1>7, <1>9
    <3>2. QED
      BY <3>1, ThreeLong
  <2>2. Rows(o, H, x) \in Seq(L)
    BY <1>1, RowsSteps
  <2>3. Rows(o, H, x) \o << >> = Rows(o, H, x)
    BY <2>2, ConcatEmptySeq
  <2>4. Len(Rows(o, H, x)) = Len(Rows(o, H, x - 1)) + Len(Row(o, H, x)) + Len(<< >>)
    BY <1>5, <2>1, <2>3, Zenon DEF LenOfThree
  <2>5. Len(Row(o, H, x)) \in Nat /\ Len(Rows(o, H, x - 1)) \in Nat /\ Len(<< >>) = 0
    BY <1>7, <1>9
  <2>6. QED
    BY <2>4, <2>5
<1>11. Len(Under(o, H, x)) \in Nat
  BY <1>6
<1>12. Len(Rows(o, H, x - 1)) \in Nat /\ Len(InsertedAt(H, x)) \in Nat
  BY <1>2 DEF PosTyped
<1>13. Pos(o, H, x) = Len(Rows(o, H, x - 1)) + Len(InsertedAt(H, x))
  BY DEF Pos
<1>14. Len(Rows(o, H, x)) >= Pos(o, H, x) + 1
  BY <1>8, <1>9, <1>10, <1>11, <1>12, <1>13
<1>15. QED
  BY <1>14 DEF UnderThere

\* What is lower in the original is lower in the composed text.
LEMMA PosIncreases ==
  ASSUME NEW L, NEW o \in Seq(L), NEW H \in SUBSET HunksOver(L), Filling(H),
         NEW x \in 1..Len(o), Clear(H, x), NEW y \in Nat, x < y
  PROVE  Pos(o, H, x) < Pos(o, H, y)
<1>1. x \in Nat \ {0} /\ y \in Nat \ {0} /\ x <= y - 1 /\ y - 1 \in Nat /\ x \in Nat
  OBVIOUS
<1>2. PosTyped(L, o, H, x) /\ PosTyped(L, o, H, y)
  BY <1>1, PosIsRow
<1>3. Len(Rows(o, H, x)) >= Pos(o, H, x) + 1
  BY LineStays DEF UnderThere
<1>4. Len(Rows(o, H, x)) <= Len(Rows(o, H, y - 1))
  BY <1>1, RowsGrow
<1>5. Len(Rows(o, H, x)) \in Nat
  BY <1>1, RowsSteps
<1>6. /\ Pos(o, H, y) = Len(Rows(o, H, y - 1)) + Len(InsertedAt(H, y))
      /\ Len(Rows(o, H, y - 1)) \in Nat /\ Len(InsertedAt(H, y)) \in Nat /\ Pos(o, H, x) \in Nat
  BY <1>2 DEF Pos, PosTyped
<1>7. QED
  BY <1>3, <1>4, <1>5, <1>6

\* A hunk that conflicts with none of the others starts and ends outside them.
LEMMA StartIsClear ==
  ASSUME NEW L, NEW H \in SUBSET HunksOver(L), NEW h \in HunksOver(L),
         \A a \in H : ~HunksConflict(h, a)
  PROVE  Clear(H, h.start) /\ Clear(H, h.start + h.count)
<1> SUFFICES ASSUME NEW a \in H
             PROVE  ~Inside(a, h.start) /\ ~Inside(a, h.start + h.count)
  BY DEF Clear
<1>1. /\ a.start \in Nat \ {0} /\ a.count \in Nat /\ h.start \in Nat \ {0} /\ h.count \in Nat
      /\ a \in HunksOver(L) /\ ~HunksConflict(h, a)
  BY DEF HunksOver
<1>2. CASE a.count = 0
  BY <1>2 DEF Inside
<1>3. CASE a.count > 0 /\ h.count = 0
  <2>1. h.start <= a.start \/ h.start >= a.start + a.count
    BY <1>1, <1>3, ApartMeans
  <2>2. QED
    BY <1>1, <1>3, <2>1 DEF Inside
<1>4. CASE a.count > 0 /\ h.count > 0
  <2>1. h.start + h.count <= a.start \/ a.start + a.count <= h.start
    BY <1>1, <1>4, ApartMeans
  <2>2. QED
    BY <1>1, <1>4, <2>1 DEF Inside
<1>5. QED
  BY <1>1, <1>2, <1>3, <1>4

\* The composed text goes on below what h takes out.
Room(o, H, h) == Pos(o, H, h.start) + h.count < Len(Compose(o, H))

\* It does, where h does not reach below the last line of the original.
LEMMA RoomBelow ==
  ASSUME NEW L, NEW o, NEW H, NEW h, Joins(L, o, H, h), Filling(H),
         h.start + h.count <= Len(o)
  PROVE  Room(o, H, h)
<1> DEFINE y == h.start + h.count
<1>1. /\ H \in SUBSET HunksOver(L) /\ h \in HunksOver(L) /\ o \in Seq(L)
      /\ h.start \in Nat \ {0} /\ h.count \in Nat /\ \A a \in H : ~HunksConflict(h, a)
  BY DEF Joins, HunksOver
<1>2. y \in 1..Len(o) /\ y \in Nat \ {0} /\ y \in Nat /\ Len(o) + 1 \in Nat /\ y <= Len(o) + 1
  BY <1>1
<1>3. Clear(H, y)
  BY <1>1, StartIsClear
<1>4. PosTyped(L, o, H, h.start) /\ PosTyped(L, o, H, y)
  BY <1>1, <1>2, PosIsRow
<1>5. Len(Rows(o, H, y)) >= Pos(o, H, y) + 1
  <2>1. UnderThere(o, H, y)
    BY <1>1, <1>2, <1>3, LineStays
  <2>2. QED
    BY <2>1 DEF UnderThere
<1>6. Len(Compose(o, H)) >= Len(Rows(o, H, y)) /\ Len(Compose(o, H)) \in Nat
  <2> HIDE DEF y
  <2>1. Len(Rows(o, H, y)) <= Len(Rows(o, H, Len(o) + 1))
    BY <1>1, <1>2, RowsGrow
  <2>2. Rows(o, H, Len(o) + 1) \in Seq(L) /\ Rows(o, H, y) \in Seq(L)
    BY <1>1, <1>2, RowsSteps
  <2>3. Len(Rows(o, H, Len(o) + 1)) \in Nat /\ Len(Rows(o, H, y)) \in Nat
    BY <2>2
  <2>4. QED
    BY <2>1, <2>3 DEF Compose
<1>7. Pos(o, H, y) >= Pos(o, H, h.start) + h.count
  <2>1. CASE h.count = 0
    <3>1. y = h.start
      BY <1>1, <2>1
    <3>2. QED
      BY <1>1, <1>4, <2>1, <3>1 DEF PosTyped
  <2>2. CASE h.count > 0
    <3>1. y - 1 = Foot(h) /\ y - 1 \in Nat /\ y - 1 >= Foot(h)
      BY <1>1, <2>2 DEF Foot
    <3>2. Swapped(L, o, H, h, y - 1)
      BY <3>1, SwappedBelow
    <3> DEFINE B == Before(o, H, h)
    <3>3. PICK old, rest \in Seq(L) :
            /\ Len(old) = h.count
            /\ Rows(o, H, y - 1) = (B \o old) \o rest
      BY <3>2 DEF Swapped
    <3>4. B \in Seq(L) /\ Len(B) = Pos(o, H, h.start)
      BY <1>4 DEF PosTyped, Before, Pos
    <3> HIDE DEF B, y
    <3>5. LenOfThree(B, old, rest)
      BY <3>4, ThreeLong
    <3>6. Len(rest) \in Nat
      OBVIOUS
    <3>7. Len(Rows(o, H, y - 1)) = Pos(o, H, h.start) + h.count + Len(rest)
      BY <3>3, <3>4, <3>5 DEF LenOfThree
    <3>8. Pos(o, H, h.start) \in Nat /\ Len(InsertedAt(H, y)) \in Nat
      BY <1>4 DEF PosTyped
    <3>9. Pos(o, H, y) = Len(Rows(o, H, y - 1)) + Len(InsertedAt(H, y))
      BY DEF Pos
    <3>10. QED
      BY <1>1, <3>6, <3>7, <3>8, <3>9
  <2>3. QED
    BY <1>1, <2>1, <2>2
<1>8. Pos(o, H, h.start) \in Nat /\ Pos(o, H, y) \in Nat
  BY <1>4 DEF PosTyped
<1>9. Len(Rows(o, H, y)) \in Nat
  BY <1>1, <1>2, RowsSteps
<1> HIDE DEF y
<1>10. QED
  BY <1>1, <1>5, <1>6, <1>7, <1>8, <1>9 DEF Room

-----------------------------------------------------------------------------
(***************************************************************************)
(* A list of hunks, put in one after another.                              *)
(***************************************************************************)
\* The hunks of a list can all be put in, each once.
Placed(L, o, hs) ==
  /\ o \in Seq(L) /\ hs \in Seq(HunksOver(L))
  /\ \A i \in 1..Len(hs) : hs[i].start + hs[i].count <= Len(o) + 1
  /\ \A i, j \in 1..Len(hs) : i # j => ~HunksConflict(hs[i], hs[j])

\* The first k hunks of a list.
First(hs, k) == {hs[i] : i \in 1..k}

\* No hunk can be put in twice.
LEMMA ConflictsWithItself ==
  ASSUME NEW L, NEW h \in HunksOver(L)
  PROVE  HunksConflict(h, h)
<1>1. h.start \in Nat \ {0} /\ h.count \in Nat
  BY DEF HunksOver
<1>2. CASE h.count = 0
  BY <1>2 DEF HunksConflict, RangesIntersect, HunkRange
<1>3. CASE h.count > 0
  BY <1>1, <1>3 DEF HunksConflict, RangesIntersect, HunkRange
<1>4. QED
  BY <1>1, <1>2, <1>3

\* The first hunks, one by one.
FirstSteps(hs) ==
  /\ First(hs, 0) = {} /\ First(hs, Len(hs)) = ToSet(hs)
  /\ \A k \in Nat : First(hs, k + 1) = First(hs, k) \cup {hs[k + 1]}

\* Every list is taken one by one.
LEMMA FirstGrows ==
  ASSUME NEW E, NEW hs \in Seq(E)
  PROVE  FirstSteps(hs)
<1>1. First(hs, 0) = {}
  BY DEF First
<1>2. First(hs, Len(hs)) = ToSet(hs)
  BY DEF First, ToSet
<1>3. ASSUME NEW k \in Nat PROVE First(hs, k + 1) = First(hs, k) \cup {hs[k + 1]}
  <2>1. 1..k + 1 = (1..k) \cup {k + 1}
    OBVIOUS
  <2>2. QED
    BY <2>1 DEF First
<1>4. QED
  BY <1>1, <1>2, <1>3 DEF FirstSteps

\* Each next hunk of such a list can be put in on top of the ones before it.
LEMMA NextJoins ==
  ASSUME NEW L, NEW o, NEW hs, Placed(L, o, hs), NEW k \in Nat, k < Len(hs)
  PROVE  Joins(L, o, First(hs, k), hs[k + 1])
<1>1. o \in Seq(L) /\ hs \in Seq(HunksOver(L)) /\ k + 1 \in 1..Len(hs)
  BY DEF Placed
<1>2. hs[k + 1] \in HunksOver(L) /\ hs[k + 1].start + hs[k + 1].count <= Len(o) + 1
  BY <1>1 DEF Placed
<1>3. \A i \in 1..k : i \in 1..Len(hs) /\ i # k + 1 /\ hs[i] \in HunksOver(L)
  BY <1>1
<1>4. \A i \in 1..k : ~HunksConflict(hs[k + 1], hs[i])
  BY <1>1, <1>3 DEF Placed
<1>5. First(hs, k) \in SUBSET HunksOver(L) /\ \A a \in First(hs, k) : ~HunksConflict(hs[k + 1], a)
  BY <1>3, <1>4 DEF First
<1>6. hs[k + 1] \notin First(hs, k)
  BY <1>2, <1>5, ConflictsWithItself
<1>7. QED
  BY <1>1, <1>2, <1>5, <1>6 DEF Joins

\* The shift by a hunk is a whole number.
LEMMA ShiftTyped ==
  ASSUME NEW L, NEW x \in Int
  PROVE  \A h \in HunksOver(L) : LineShift(h, x) \in Int
<1> SUFFICES ASSUME NEW h \in HunksOver(L) PROVE LineShift(h, x) \in Int
  OBVIOUS
<1>1. HunkLineDelta(h) \in Int
  BY NewLinesTyped
<1>2. QED
  BY <1>1 DEF LineShift

\* lineOffsetForStart: the offsets computed from the accepted hunks alone are what
\* the accepted hunks did to the line.
OffsetRight(o, acc, x) == (x - 1) + LineOffsetForStart(x, acc) = Pos(o, ToSet(acc), x)

\* They are, for every line that no accepted hunk has in its inside: the offsets
\* need no document, and no order of acceptance.
LEMMA OffsetIsPosition ==
  ASSUME NEW L, NEW o, NEW acc, Placed(L, o, acc), NEW x \in 1..Len(o) + 1,
         Clear(ToSet(acc), x)
  PROVE  OffsetRight(o, acc, x)
<1>1. o \in Seq(L) /\ acc \in Seq(HunksOver(L)) /\ x \in Nat \ {0} /\ x \in Int /\ Len(acc) \in Nat
  BY DEF Placed
<1>2. PICK f \in [0..Len(acc) -> Int] :
        /\ f[0] = 0
        /\ \A k \in 0..Len(acc)-1 : f[k + 1] = f[k] + LineShift(acc[k + 1], x)
        /\ LineOffsetForStart(x, acc) = f[Len(acc)]
  <2>1. OffsetRun(acc, x)
    BY <1>1, ShiftTyped, OffsetFold
  <2>2. QED
    BY <2>1 DEF OffsetRun
<1> DEFINE S == {k \in Nat : k <= Len(acc) => Pos(o, First(acc, k), x) = (x - 1) + f[k]}
<1>3. 0 \in S
  <2>1. First(acc, 0) = {}
    BY <1>1, FirstGrows DEF FirstSteps
  <2>2. Pos(o, {}, x) = x - 1
    BY <1>1, PosOfNone
  <2>3. x - 1 = (x - 1) + 0
    BY <1>1
  <2>4. Pos(o, First(acc, 0), x) = (x - 1) + f[0]
    BY <1>2, <2>1, <2>2, <2>3
  <2>5. QED
    BY <2>4
<1>4. ASSUME NEW k \in Nat, k \in S PROVE k + 1 \in S
  <2> SUFFICES ASSUME k + 1 <= Len(acc) PROVE Pos(o, First(acc, k + 1), x) = (x - 1) + f[k + 1]
    OBVIOUS
  <2> DEFINE h == acc[k + 1]
  <2>1. k < Len(acc) /\ k \in 0..Len(acc)-1 /\ k \in 0..Len(acc) /\ k + 1 \in 1..Len(acc)
    BY <1>1
  <2>2. Joins(L, o, First(acc, k), h)
    BY <2>1, NextJoins
  <2>3. ~Inside(h, x)
    <3>1. h \in ToSet(acc)
      BY <1>1, <2>1 DEF ToSet
    <3>2. QED
      BY <3>1 DEF Clear
  <2>4. First(acc, k + 1) = First(acc, k) \cup {h}
    BY <1>1, FirstGrows DEF FirstSteps
  <2>5. f[k + 1] = f[k] + LineShift(h, x) /\ f[k] \in Int
    BY <1>2, <2>1
  <2>6. Pos(o, First(acc, k), x) = (x - 1) + f[k]
    BY <1>4, <2>1
  <2>7. LineShift(h, x) \in Int
    BY <1>1, <2>1, ShiftTyped
  <2> HIDE DEF h, S
  <2>8. Moved(o, First(acc, k), h, x)
    BY <1>1, <2>2, <2>3, PosShift
  <2>9. Pos(o, First(acc, k + 1), x) = Pos(o, First(acc, k), x) + LineShift(h, x)
    BY <2>4, <2>8 DEF Moved
  <2>10. QED
    BY <1>1, <2>5, <2>6, <2>7, <2>9
<1>5. Nat \subseteq S
  <2> HIDE DEF S
  <2>1. QED
    BY <1>3, <1>4, Induction
<1>6. Pos(o, First(acc, Len(acc)), x) = (x - 1) + f[Len(acc)]
  BY <1>1, <1>5
<1>7. First(acc, Len(acc)) = ToSet(acc)
  BY <1>1, FirstGrows DEF FirstSteps
<1>8. QED
  BY <1>2, <1>6, <1>7 DEF OffsetRight

\* None of the hunks of P moves line x.
Still(P, x) == \A a \in P : ~LiesAbove(a, x) /\ ~Inside(a, x)

\* P is put in on top of A, and what it does not move is where it was.
SamePlaces(o, A, P) == \A x \in Nat \ {0} : Still(P, x) => Pos(o, A \cup P, x) = Pos(o, A, x)

\* One hunk more on top of A and P.
Grown(o, A, P, h) ==
  /\ SamePlaces(o, A, P \cup {h})
  /\ Compose(o, A \cup (P \cup {h}))
       = Splice(Compose(o, A \cup P), Pos(o, A, h.start), h.count, NewLines(h))

\* It is spliced in where A alone has its line.
LEMMA OneMore ==
  ASSUME NEW L, NEW o, NEW A, NEW P, NEW h, Joins(L, o, A \cup P, h),
         SamePlaces(o, A, P), Still(P, h.start)
  PROVE  Grown(o, A, P, h)
<1>1. A \cup (P \cup {h}) = (A \cup P) \cup {h}
  OBVIOUS
<1>2. ASSUME NEW x \in Nat \ {0}, Still(P \cup {h}, x)
      PROVE  Pos(o, A \cup (P \cup {h}), x) = Pos(o, A, x)
  <2>1. Still(P, x) /\ ~LiesAbove(h, x) /\ ~Inside(h, x)
    BY <1>2 DEF Still
  <2>2. Moved(o, A \cup P, h, x)
    BY <2>1, PosShift
  <2>3. LineShift(h, x) = 0
    BY <2>1 DEF LineShift
  <2>4. Pos(o, A \cup P, x) \in Nat
    <3>1. o \in Seq(L) /\ A \cup P \in SUBSET HunksOver(L)
      BY DEF Joins
    <3>2. PosTyped(L, o, A \cup P, x)
      BY <3>1, PosIsRow
    <3>3. QED
      BY <3>2 DEF PosTyped
  <2>5. Pos(o, (A \cup P) \cup {h}, x) = Pos(o, A \cup P, x)
    BY <2>2, <2>3, <2>4 DEF Moved
  <2>6. Pos(o, A \cup P, x) = Pos(o, A, x)
    BY <2>1 DEF SamePlaces
  <2>7. QED
    BY <1>1, <2>5, <2>6, Zenon
<1>3. Pos(o, A \cup P, h.start) = Pos(o, A, h.start)
  <2>1. h.start \in Nat \ {0}
    BY DEF Joins, HunksOver
  <2>2. QED
    BY <2>1 DEF SamePlaces
<1>4. Compose(o, (A \cup P) \cup {h})
        = Splice(Compose(o, A \cup P), Pos(o, A \cup P, h.start), h.count, NewLines(h))
  BY ComposeSplices
<1>5. QED
  BY <1>1, <1>2, <1>3, <1>4 DEF Grown, SamePlaces

\* No element of the list comes twice.
Distinct(s) == \A i, j \in 1..Len(s) : i # j => s[i] # s[j]

\* A rearrangement of a list without repetitions repeats nothing.
LEMMA RearrangedDistinct ==
  ASSUME NEW E, NEW s \in Seq(E), NEW r \in Seq(E), Len(r) = Len(s), ToSet(r) = ToSet(s), Distinct(s)
  PROVE  Distinct(r)
<1> DEFINE T == ToSet(s)
           D == 1..Len(s)
<1>1. IsFiniteSet(D)
  BY FS_Interval
<1>2. /\ s \in [D -> T] /\ \A t \in T : \E i \in D : s[i] = t
      /\ r \in [D -> T] /\ \A t \in T : \E i \in D : r[i] = t
  <2>1. \A i \in D : s[i] \in ToSet(s) /\ r[i] \in ToSet(r)
    BY DEF ToSet
  <2>2. /\ \A t \in ToSet(s) : \E i \in D : s[i] = t
        /\ \A t \in ToSet(r) : \E i \in D : r[i] = t
    BY DEF ToSet
  <2>3. s = [i \in D |-> s[i]] /\ r = [i \in D |-> r[i]]
    OBVIOUS
  <2> HIDE DEF D
  <2>4. s \in [D -> T] /\ r \in [D -> T]
    BY <2>1, <2>3
  <2>5. QED
    BY <2>2, <2>4
<1>3. s \in Injection(D, T)
  <2>1. \A i, j \in DOMAIN s : s[i] = s[j] => i = j
    BY DEF Distinct
  <2>2. QED
    BY <1>2, <2>1 DEF Injection, IsInjective
<1>4. s \in Surjection(D, T) /\ r \in Surjection(D, T)
  BY <1>2 DEF Surjection
<1> HIDE DEF T, D
<1>5. Cardinality(T) = Cardinality(D)
  BY <1>1, <1>3, <1>4, FS_Surjection
<1>6. r \in Injection(D, T)
  BY <1>1, <1>5, <1>4, FS_SurjSameCardinalityImpliesInj
<1>7. QED
  BY <1>6 DEF Injection, IsInjective, Distinct, D

\* The hunks of a list, the one with the highest start first.
DescendingHunks(L, hs) ==
  /\ DescendingByStart(hs) \in Seq(HunksOver(L))
  /\ Len(DescendingByStart(hs)) = Len(hs) /\ ToSet(DescendingByStart(hs)) = ToSet(hs)
  /\ Distinct(DescendingByStart(hs))
  /\ \A i, j \in 1..Len(hs) : i < j => DescendingByStart(hs)[i].start >= DescendingByStart(hs)[j].start

\* The sort of applyHunks puts them so.
LEMMA DescendingSorts ==
  ASSUME NEW L, NEW hs \in Seq(HunksOver(L)), Distinct(hs)
  PROVE  DescendingHunks(L, hs)
<1> DEFINE ahead == {p \in ToSet(hs) \X ToSet(hs) : p[1].start >= p[2].start}
           D == SortedBy(hs, ahead)
<1>1. \A h \in ToSet(hs) : h.start \in Nat
  <2>1. \A i \in DOMAIN hs : hs[i] \in HunksOver(L)
    OBVIOUS
  <2>2. \A h \in HunksOver(L) : h.start \in Nat
    BY DEF HunksOver
  <2>3. QED
    BY <2>1, <2>2 DEF ToSet
<1>2. \A i \in DOMAIN hs : hs[i] \in ToSet(hs)
  BY DEF ToSet
<1>3. \A a, b : <<a, b>> \in ahead <=> a \in ToSet(hs) /\ b \in ToSet(hs) /\ a.start >= b.start
  OBVIOUS
<1> HIDE DEF ahead
<1>4. Linear(hs, ahead)
  <2>1. \A i, j \in DOMAIN hs : <<hs[i], hs[j]>> \in ahead \/ <<hs[j], hs[i]>> \in ahead
    BY <1>1, <1>2, <1>3
  <2>2. \A x, y, z \in ToSet(hs) : <<x, y>> \in ahead /\ <<y, z>> \in ahead => <<x, z>> \in ahead
    BY <1>1, <1>3
  <2>3. QED
    BY <2>1, <2>2 DEF Linear
<1>5. /\ D \in Seq(HunksOver(L)) /\ Len(D) = Len(hs) /\ ToSet(D) = ToSet(hs)
      /\ Ordered(D, ahead)
  BY <1>4, SortedBySorts
<1>6. DescendingByStart(hs) = D
  BY DEF DescendingByStart, ahead
<1> HIDE DEF D
<1>7. Distinct(D)
  BY <1>5, RearrangedDistinct
<1>8. \A i, j \in 1..Len(hs) : i < j => D[i].start >= D[j].start
  BY <1>3, <1>5 DEF Ordered
<1>9. QED
  BY <1>5, <1>6, <1>7, <1>8 DEF DescendingHunks

-----------------------------------------------------------------------------
(***************************************************************************)
(* The export (applyHunks).                                                *)
(***************************************************************************)
\* A list of hunks that can all be put in has none twice.
LEMMA PlacedDistinct ==
  ASSUME NEW L, NEW o, NEW hs, Placed(L, o, hs)
  PROVE  Distinct(hs)
<1> SUFFICES ASSUME NEW i \in 1..Len(hs), NEW j \in 1..Len(hs), i # j PROVE hs[i] # hs[j]
  BY DEF Distinct
<1>1. ~HunksConflict(hs[i], hs[j])
  BY DEF Placed
<1>2. hs[i] \in HunksOver(L)
  BY DEF Placed
<1>3. HunksConflict(hs[i], hs[i])
  BY <1>2, ConflictsWithItself
<1>4. QED
  BY <1>1, <1>3

\* The elements of a rearranged list are those of the list.
LEMMA Rearranged ==
  ASSUME NEW E, NEW s \in Seq(E), NEW r \in Seq(E), ToSet(r) = ToSet(s)
  PROVE  \A i \in 1..Len(r) : \E m \in 1..Len(s) : r[i] = s[m]
<1> SUFFICES ASSUME NEW i \in 1..Len(r) PROVE \E m \in 1..Len(s) : r[i] = s[m]
  OBVIOUS
<1>1. r[i] \in ToSet(r)
  BY DEF ToSet
<1>2. r[i] \in ToSet(s)
  BY <1>1
<1>3. QED
  BY <1>2 DEF ToSet

\* Hunks that can be put in can be put in in any order.
LEMMA PlacedInAnyOrder ==
  ASSUME NEW L, NEW o, NEW hs, Placed(L, o, hs), NEW r \in Seq(HunksOver(L)),
         ToSet(r) = ToSet(hs), Distinct(r)
  PROVE  Placed(L, o, r)
<1>1. \A i \in 1..Len(r) : \E m \in 1..Len(hs) : r[i] = hs[m]
  <2>1. hs \in Seq(HunksOver(L))
    BY DEF Placed
  <2>2. QED
    BY <2>1, Rearranged
<1>2. ASSUME NEW i \in 1..Len(r) PROVE r[i].start + r[i].count <= Len(o) + 1
  BY <1>1 DEF Placed
<1>3. ASSUME NEW i \in 1..Len(r), NEW j \in 1..Len(r), i # j PROVE ~HunksConflict(r[i], r[j])
  <2>1. PICK m \in 1..Len(hs), n \in 1..Len(hs) : r[i] = hs[m] /\ r[j] = hs[n]
    BY <1>1
  <2>2. m # n
    BY <1>3, <2>1 DEF Distinct
  <2>3. ~HunksConflict(hs[m], hs[n])
    BY <2>2 DEF Placed
  <2>4. QED
    BY <2>1, <2>3, Zenon
<1>4. QED
  BY <1>2, <1>3 DEF Placed

\* A splice gives a sequence of lines.
LEMMA SpliceTyped ==
  ASSUME NEW L, NEW t \in Seq(L), NEW p \in Nat, NEW n \in Nat, NEW new \in Seq(L)
  PROVE  Splice(t, p, n, new) \in Seq(L)
<1> DEFINE a == SubSeq(t, 1, IF p < Len(t) THEN p ELSE Len(t))
           b == SubSeq(t, p + n + 1, Len(t))
<1>1. a \in Seq(L)
  OBVIOUS
<1>2. b \in Seq(L)
  OBVIOUS
<1> HIDE DEF a, b
<1>3. (a \o new) \o b \in Seq(L)
  BY <1>1, <1>2
<1>4. QED
  BY <1>3 DEF Splice, a, b

\* A hunk put in gives a sequence of lines.
LEMMA PutInTyped ==
  ASSUME NEW L
  PROVE  \A t \in Seq(L), h \in HunksOver(L) : PutIn(t, h) \in Seq(L)
<1> SUFFICES ASSUME NEW t \in Seq(L), NEW h \in HunksOver(L) PROVE PutIn(t, h) \in Seq(L)
  OBVIOUS
<1>1. h.start - 1 \in Nat /\ h.count \in Nat
  BY DEF HunksOver
<1>2. NewLines(h) \in Seq(L)
  BY NewLinesTyped
<1>3. QED
  BY <1>1, <1>2, SpliceTyped DEF PutIn

\* a is put in below h, or starts with it and h goes above it.
LowerDown(a, h) == a.start > h.start \/ (a.start = h.start /\ a.count > 0)

\* A hunk with a higher start is lower down.
LEMMA HigherStart ==
  ASSUME NEW L, NEW a \in HunksOver(L), NEW h \in HunksOver(L),
         a.start # h.start, a.start >= h.start
  PROVE  LowerDown(a, h)
<1>1. a.start \in Nat /\ h.start \in Nat
  BY DEF HunksOver
<1>2. QED
  BY <1>1 DEF LowerDown

\* What lies lower does not move the line.
LEMMA LowerMovesNothing ==
  ASSUME NEW L, NEW P \in SUBSET HunksOver(L), NEW h \in HunksOver(L),
         \A a \in P : LowerDown(a, h)
  PROVE  Still(P, h.start)
<1> SUFFICES ASSUME NEW a \in P PROVE ~LiesAbove(a, h.start) /\ ~Inside(a, h.start)
  BY DEF Still
<1>1. a.start \in Nat \ {0} /\ a.count \in Nat /\ h.start \in Nat \ {0} /\ LowerDown(a, h)
  BY DEF HunksOver
<1>2. QED
  BY <1>1 DEF LowerDown, LiesAbove, HunkRange, Inside

\* applyHunks: hunks that start at different lines need no offsets, lowest first.
LEMMA ExportComposes ==
  ASSUME NEW L, NEW o, NEW hs, Placed(L, o, hs),
         \A i, j \in 1..Len(hs) : i # j => hs[i].start # hs[j].start
  PROVE  ApplyHunks(o, hs) = Compose(o, ToSet(hs))
<1> DEFINE D == DescendingByStart(hs)
<1>1. o \in Seq(L) /\ hs \in Seq(HunksOver(L)) /\ Len(hs) \in Nat
  BY DEF Placed
<1>2. /\ D \in Seq(HunksOver(L)) /\ Len(D) = Len(hs) /\ ToSet(D) = ToSet(hs) /\ Distinct(D)
      /\ \A i, j \in 1..Len(hs) : i < j => D[i].start >= D[j].start
  <2>1. Distinct(hs)
    BY PlacedDistinct
  <2>2. DescendingHunks(L, hs)
    BY <1>1, <2>1, DescendingSorts
  <2>3. QED
    BY <2>2 DEF DescendingHunks
<1>3. PICK f \in [0..Len(D) -> Seq(L)] :
        /\ f[0] = o
        /\ \A k \in 0..Len(D)-1 : f[k + 1] = PutIn(f[k], D[k + 1])
        /\ ApplyHunks(o, hs) = f[Len(D)]
  <2>1. HunksRun(Seq(L), o, hs)
    BY <1>1, <1>2, PutInTyped, HunksFold
  <2>2. QED
    BY <2>1 DEF HunksRun
<1> HIDE DEF D
<1>4. Placed(L, o, D)
  BY <1>2, PlacedInAnyOrder
<1>5. ASSUME NEW i \in 1..Len(hs), NEW j \in 1..Len(hs), i < j PROVE LowerDown(D[i], D[j])
  <2>1. \A x \in 1..Len(D) : \E m \in 1..Len(hs) : D[x] = hs[m]
    <3>1. D \in Seq(HunksOver(L)) /\ hs \in Seq(HunksOver(L)) /\ ToSet(D) = ToSet(hs)
      BY <1>1, <1>2
    <3>2. QED
      BY <3>1, Rearranged
  <2>2. PICK m \in 1..Len(hs), n \in 1..Len(hs) : D[i] = hs[m] /\ D[j] = hs[n]
    BY <1>2, <2>1
  <2>3. D[i] # D[j]
    BY <1>2, <1>5 DEF Distinct
  <2>4. D[i].start # D[j].start
    BY <2>2, <2>3
  <2>5. D[i].start >= D[j].start
    BY <1>2, <1>5
  <2>6. D[i] \in HunksOver(L) /\ D[j] \in HunksOver(L)
    BY <1>2
  <2>7. QED
    BY <2>4, <2>5, <2>6, HigherStart
<1> DEFINE Done(k) == f[k] = Compose(o, First(D, k)) /\ SamePlaces(o, {}, First(D, k))
           S == {k \in Nat : k <= Len(D) => Done(k)}
<1>6. 0 \in S
  <2>1. First(D, 0) = {}
    BY <1>2, FirstGrows DEF FirstSteps
  <2>2. Compose(o, {}) = o
    BY <1>1, RowsOfNone
  <2>3. SamePlaces(o, {}, {})
    BY DEF SamePlaces
  <2>4. QED
    BY <1>3, <2>1, <2>2, <2>3
<1>7. ASSUME NEW k \in Nat, k \in S PROVE k + 1 \in S
  <2> SUFFICES ASSUME k + 1 <= Len(D) PROVE Done(k + 1)
    OBVIOUS
  <2> DEFINE P == First(D, k)
             h == D[k + 1]
  <2>1. k < Len(D) /\ k \in 0..Len(D)-1 /\ k \in 0..Len(D) /\ k + 1 \in 1..Len(hs)
    BY <1>1, <1>2
  <2>2. f[k] = Compose(o, P) /\ SamePlaces(o, {}, P)
    BY <1>7, <2>1
  <2>3. Joins(L, o, P, h)
    BY <1>4, <2>1, NextJoins
  <2>4. P \in SUBSET HunksOver(L) /\ h \in HunksOver(L)
    BY <2>3 DEF Joins
  <2>5. \A a \in P : LowerDown(a, h)
    <3>1. \A i \in 1..k : i \in 1..Len(hs) /\ i < k + 1
      BY <2>1
    <3>2. \A i \in 1..k : LowerDown(D[i], D[k + 1])
      BY <1>5, <2>1, <3>1
    <3>3. QED
      BY <3>2 DEF First
  <2>6. First(D, k + 1) = P \cup {h}
    BY <1>2, FirstGrows DEF FirstSteps
  <2>7. Pos(o, {}, h.start) = h.start - 1
    <3>1. h.start \in 1..Len(o) + 1
      BY <1>1, <2>3 DEF Joins, HunksOver
    <3>2. QED
      BY <1>1, <3>1, PosOfNone
  <2>8. f[k + 1] = Splice(f[k], h.start - 1, h.count, NewLines(h))
    BY <1>3, <2>1 DEF PutIn
  <2> HIDE DEF P, h
  <2>9. Still(P, h.start)
    BY <2>4, <2>5, LowerMovesNothing
  <2>10. {} \cup P = P /\ {} \cup (P \cup {h}) = P \cup {h}
    OBVIOUS
  <2>11. Grown(o, {}, P, h)
    <3>1. Joins(L, o, {} \cup P, h)
      BY <2>3, <2>10
    <3>2. QED
      BY <2>2, <2>9, <3>1, OneMore
  <2>12. SamePlaces(o, {}, First(D, k + 1))
    BY <2>6, <2>11 DEF Grown
  <2>13. Compose(o, P \cup {h}) = Splice(Compose(o, P), h.start - 1, h.count, NewLines(h))
    BY <2>7, <2>10, <2>11 DEF Grown
  <2>14. f[k + 1] = Compose(o, First(D, k + 1))
    BY <2>2, <2>6, <2>8, <2>13
  <2>15. QED
    BY <2>12, <2>14
<1>8. Nat \subseteq S
  <2> HIDE DEF S
  <2>1. QED
    BY <1>6, <1>7, Induction
<1>9. f[Len(D)] = Compose(o, First(D, Len(D)))
  BY <1>1, <1>2, <1>8
<1>10. First(D, Len(D)) = ToSet(hs)
  BY <1>2, FirstGrows DEF FirstSteps
<1>11. QED
  BY <1>3, <1>9, <1>10

-----------------------------------------------------------------------------
(***************************************************************************)
(* One edit (toTextEdit, and what VS Code does with it).                   *)
(***************************************************************************)
\* A line is a sequence of fragments.
Lines(F) == Seq(F)

\* Texts have a line.
Texts(F) == {t \in Seq(Lines(F)) : t # << >>}

\* What hunkToEditRange gives for hunks that write at least one line.
Edits(F) == [startLine : Nat, endLine : Nat, text : {t \in Seq(Lines(F)) : Len(t) >= 2},
             insert : BOOLEAN]

\* The four parts of an edited text are a text.
LEMMA FourTyped ==
  ASSUME NEW L, NEW a \in Seq(L), NEW x \in L, NEW b \in Seq(L), NEW c \in Seq(L)
  PROVE  /\ ((a \o <<x>>) \o b) \o c \in Seq(L)
         /\ ((a \o <<x>>) \o b) \o c # << >>
<1> DEFINE p == a \o <<x>>
           q == p \o b
<1>1. p \in Seq(L) /\ Len(p) = Len(a) + 1
  OBVIOUS
<1> HIDE DEF p
<1>2. q \in Seq(L) /\ Len(q) = Len(p) + Len(b)
  BY <1>1
<1> HIDE DEF q
<1>3. q \o c \in Seq(L) /\ Len(q \o c) = Len(q) + Len(c)
  BY <1>2
<1>4. Len(a) \in Nat /\ Len(b) \in Nat /\ Len(c) \in Nat /\ Len(<< >>) = 0
  OBVIOUS
<1>5. Len(q \o c) # 0
  BY <1>1, <1>2, <1>3, <1>4
<1>6. q \o c # << >>
  BY <1>4, <1>5
<1>7. QED
  BY <1>3, <1>6 DEF p, q

\* An edit of a text gives a text.
LEMMA EditTyped ==
  ASSUME NEW F
  PROVE  \A t \in Texts(F), e \in Edits(F) : ApplyTextEdit(t, e) \in Texts(F)
<1> SUFFICES ASSUME NEW t \in Texts(F), NEW e \in Edits(F)
             PROVE  ApplyTextEdit(t, e) \in Texts(F)
  OBVIOUS
<1> DEFINE L == Lines(F)
           n == Len(t)
           before == IF e.startLine < n THEN SubSeq(t, 1, e.startLine) ELSE SubSeq(t, 1, n - 1)
           head == IF e.startLine < n THEN Blank ELSE t[n]
           tail == IF e.endLine < n THEN SubSeq(t, e.endLine + 1, n) ELSE <<Blank>>
           mid == SubSeq(e.text, 2, Len(e.text) - 1)
           x == head \o Head(e.text)
<1>1. /\ t \in Seq(L) /\ n \in Nat /\ n > 0 /\ e.startLine \in Nat /\ e.endLine \in Nat
      /\ e.text \in Seq(L) /\ Len(e.text) >= 2
  BY DEF Texts, Edits
<1>2. Blank \in L /\ t[n] \in L /\ Head(e.text) \in L
  <2>1. Blank \in L
    BY DEF Blank, Lines
  <2>2. t[n] \in L
    BY <1>1
  <2>3. Head(e.text) \in L
    BY <1>1
  <2>4. QED
    BY <2>1, <2>2, <2>3
<1>3. head \in L
  BY <1>2
<1>4. x \in L
  <2> HIDE DEF head
  <2>1. QED
    BY <1>2, <1>3 DEF Lines
<1> HIDE DEF L
<1>5. before \in Seq(L)
  BY <1>1
<1>6. tail \in Seq(L)
  <2>1. CASE e.endLine < n
    <3>1. \A i \in e.endLine + 1..n : t[i] \in L
      BY <1>1
    <3>2. SubSeq(t, e.endLine + 1, n) \in Seq(L)
      BY <1>1, <3>1, SubSeqProperties
    <3>3. QED
      BY <2>1, <3>2
  <2>2. CASE ~(e.endLine < n)
    <3>1. <<Blank>> \in Seq(L)
      BY <1>2
    <3>2. QED
      BY <2>2, <3>1
  <2>3. QED
    BY <2>1, <2>2
<1>7. mid \in Seq(L)
  <2> DEFINE u == e.text
  <2>1. u \in Seq(L) /\ Len(u) >= 2 /\ Len(u) \in Nat
    BY <1>1
  <2> HIDE DEF u
  <2>2. \A i \in 2..Len(u) - 1 : u[i] \in L
    BY <2>1
  <2>3. SubSeq(u, 2, Len(u) - 1) \in Seq(L)
    BY <2>1, <2>2, SubSeqProperties
  <2>4. QED
    BY <2>3 DEF u
<1>8. ApplyTextEdit(t, e) = ((before \o <<x>>) \o mid) \o tail
  BY DEF ApplyTextEdit
<1> HIDE DEF before, mid, tail, x
<1>9. ((before \o <<x>>) \o mid) \o tail \in Seq(L) /\ ((before \o <<x>>) \o mid) \o tail # << >>
  BY <1>4, <1>5, <1>6, <1>7, FourTyped
<1>10. QED
  BY <1>8, <1>9 DEF Texts, L

\* toTextEdit: a text that ends in a newline, put in from the start of a row to the
\* start of a row, is its lines in place of the rows.
EditIs(t, e, new) ==
  ApplyTextEdit(t, e) = Splice(t, e.startLine, e.endLine - e.startLine, new)

\* The lines of an edit's text without the empty one behind its final newline.
HeadAndRest(new) ==
  LET text == new \o <<Blank>>
  IN <<Blank \o Head(text)>> \o SubSeq(text, 2, Len(text) - 1) = new

\* The length of the middle of a sequence.
LEMMA MiddleLength ==
  ASSUME NEW n \in Nat, n >= 1, NEW m, m = n + 1,
         NEW k, k = IF 2 <= m - 1 THEN (m - 1) - 2 + 1 ELSE 0
  PROVE  k = n - 1 /\ (m - 1) - 2 + 1 = n - 1
  OBVIOUS

\* They are the lines the hunk writes.
LEMMA NewTextIsLines ==
  ASSUME NEW F, NEW new \in Seq(Lines(F)), new # << >>
  PROVE  HeadAndRest(new)
<1> DEFINE L == Lines(F)
           text == new \o <<Blank>>
           mid == SubSeq(text, 2, Len(text) - 1)
<1>1. Blank \in L
  BY DEF Blank, Lines
<1>2. new[1] \in L /\ Blank \o new[1] = new[1]
  <2>1. new[1] \in L
    BY EmptySeq
  <2>2. new[1] \in Seq(F)
    BY <2>1 DEF Lines
  <2>3. Blank \o new[1] = new[1]
    BY <2>2, ConcatEmptySeq DEF Blank
  <2>4. QED
    BY <2>1, <2>3
<1> HIDE DEF L
<1>3. Len(new) \in Nat /\ Len(new) >= 1 /\ new \in Seq(L)
  BY DEF L
<1>4. /\ text \in Seq(L) /\ Len(text) = Len(new) + 1
      /\ \A i \in 1..Len(new) : text[i] = new[i]
  BY <1>1, <1>3
<1> HIDE DEF text
<1>5. Head(text) = new[1]
  <2>1. 1 \in 1..Len(new)
    BY <1>3
  <2>2. text[1] = new[1]
    BY <1>4, <2>1
  <2>3. QED
    BY <1>4, <2>2
<1>6. mid \in Seq(L) /\ Len(mid) = Len(new) - 1 /\ \A i \in 1..Len(new) - 1 : mid[i] = new[i + 1]
  <2>1. \A i \in 2..Len(text) - 1 : text[i] \in L
    BY <1>4
  <2>2. 2 \in Int /\ Len(text) - 1 \in Int
    BY <1>4
  <2>3. /\ mid \in Seq(L)
        /\ Len(mid) = IF 2 <= Len(text) - 1 THEN (Len(text) - 1) - 2 + 1 ELSE 0
        /\ \A i \in 1..(Len(text) - 1) - 2 + 1 : mid[i] = text[2 + i - 1]
    BY <2>1, <2>2, SubSeqProperties
  <2> HIDE DEF mid
  <2>4. Len(mid) = Len(new) - 1 /\ (Len(text) - 1) - 2 + 1 = Len(new) - 1
    <3>1. Len(mid) = IF 2 <= Len(text) - 1 THEN (Len(text) - 1) - 2 + 1 ELSE 0
      BY <2>3
    <3>2. Len(text) = Len(new) + 1
      BY <1>4
    <3>3. Len(new) \in Nat /\ Len(new) >= 1
      BY <1>3
    <3> HIDE DEF mid, text
    <3>4. QED
      BY <3>1, <3>2, <3>3, MiddleLength
  <2>5. \A i \in 1..Len(new) - 1 : 2 + i - 1 = i + 1 /\ i + 1 \in 1..Len(new)
    BY <1>3
  <2>6. mid \in Seq(L) /\ \A i \in 1..(Len(text) - 1) - 2 + 1 : mid[i] = text[2 + i - 1]
    BY <2>3
  <2>7. ASSUME NEW i \in 1..Len(new) - 1 PROVE mid[i] = new[i + 1]
    <3>1. 2 + i - 1 = i + 1 /\ i + 1 \in 1..Len(new) /\ i \in 1..(Len(text) - 1) - 2 + 1
      BY <2>4, <2>5
    <3>2. mid[i] = text[i + 1]
      BY <2>6, <3>1
    <3>3. text[i + 1] = new[i + 1]
      BY <1>4, <3>1
    <3>4. QED
      BY <3>2, <3>3
  <2>8. QED
    BY <2>4, <2>6, <2>7
<1> HIDE DEF mid
<1>7. <<new[1]>> \o mid = new
  <2> DEFINE q == <<new[1]>>
  <2>1. q \in Seq(L) /\ Len(q) = 1 /\ q[1] = new[1]
    BY <1>2
  <2> HIDE DEF q
  <2>2. Joined(L, q, mid, q \o mid)
    BY <1>6, <2>1, ConcatGives
  <2> DEFINE r == q \o mid
  <2> HIDE DEF r
  <2>3. /\ r \in Seq(L) /\ Len(r) = 1 + (Len(new) - 1)
        /\ r[1] = new[1] /\ \A i \in 1..Len(new) - 1 : r[1 + i] = new[i + 1]
    <3>1. /\ r \in Seq(L) /\ Len(r) = Len(q) + Len(mid)
          /\ \A i \in 1..Len(q) : r[i] = q[i]
          /\ \A i \in 1..Len(mid) : r[Len(q) + i] = mid[i]
      BY <2>2 DEF Joined, r
    <3>2. QED
      BY <1>6, <2>1, <3>1
  <2>4. Len(r) = Len(new)
    BY <1>3, <2>3
  <2>5. ASSUME NEW i \in 1..Len(new) PROVE r[i] = new[i]
    <3>1. CASE i = 1
      BY <2>3, <3>1
    <3>2. CASE i # 1
      <4>1. i - 1 \in 1..Len(new) - 1 /\ 1 + (i - 1) = i /\ (i - 1) + 1 = i
        BY <1>3, <3>2
      <4>2. QED
        BY <2>3, <4>1
    <3>3. QED
      BY <3>1, <3>2
  <2>6. r = new
    BY <1>3, <2>3, <2>4, <2>5
  <2>7. QED
    BY <2>6 DEF r, q
<1>8. QED
  BY <1>2, <1>5, <1>7 DEF HeadAndRest, text, mid

\* An edit that ends above the last line of the document is such a splice.
LEMMA EditIsSplice ==
  ASSUME NEW F, NEW t \in Seq(Lines(F)), NEW new \in Seq(Lines(F)), new # << >>,
         NEW e \in Edits(F), e.text = new \o <<Blank>>,
         e.startLine <= e.endLine, e.endLine < Len(t)
  PROVE  EditIs(t, e, new)
<1> DEFINE L == Lines(F)
           a == SubSeq(t, 1, e.startLine)
           b == SubSeq(t, e.endLine + 1, Len(t))
           x == Blank \o Head(e.text)
           mid == SubSeq(e.text, 2, Len(e.text) - 1)
<1>1. /\ e.startLine \in Nat /\ e.endLine \in Nat /\ Len(t) \in Nat /\ e.startLine < Len(t)
      /\ e.text \in Seq(L) /\ Len(e.text) >= 2 /\ t \in Seq(L)
  BY DEF Edits
<1>2. ApplyTextEdit(t, e) = ((a \o <<x>>) \o mid) \o b
  BY <1>1 DEF ApplyTextEdit
<1>3. <<x>> \o mid = new
  BY NewTextIsLines DEF HeadAndRest
<1>4. x \in L
  <2>1. Head(e.text) \in L
    BY <1>1
  <2>2. QED
    BY <2>1 DEF Lines, Blank
<1> HIDE DEF L
<1>5. a \in Seq(L)
  BY <1>1
<1>6. mid \in Seq(L)
  <2> DEFINE u == e.text
  <2>1. u \in Seq(L) /\ Len(u) >= 2 /\ Len(u) \in Nat
    BY <1>1
  <2> HIDE DEF u
  <2>2. \A i \in 2..Len(u) - 1 : u[i] \in L
    BY <2>1
  <2>3. SubSeq(u, 2, Len(u) - 1) \in Seq(L)
    BY <2>1, <2>2, SubSeqProperties
  <2>4. QED
    BY <2>3 DEF u
<1> HIDE DEF x, mid
<1>7. <<x>> \in Seq(L)
  BY <1>4
<1>8. Grouped(a, <<x>>, mid)
  BY <1>5, <1>6, <1>7, Regroup
<1>9. e.startLine + (e.endLine - e.startLine) + 1 = e.endLine + 1
  BY <1>1
<1>10. Splice(t, e.startLine, e.endLine - e.startLine, new) = (a \o new) \o b
  BY <1>1, <1>9 DEF Splice
<1> HIDE DEF a, b
<1>11. ((a \o <<x>>) \o mid) \o b = (a \o new) \o b
  BY <1>3, <1>8, Zenon DEF Grouped
<1>12. QED
  BY <1>2, <1>10, <1>11, Zenon DEF EditIs

-----------------------------------------------------------------------------
(***************************************************************************)
(* The edits of a candidate (hunkToEditRange, candidateToEditRanges).      *)
(***************************************************************************)
\* hs can be put in on top of acc, and no hunk only takes lines out.
Fresh(F, o, acc, hs) ==
  /\ Placed(Lines(F), o, acc) /\ Placed(Lines(F), o, hs)
  /\ \A h \in ToSet(hs) : h.start + h.count <= Len(o)
  /\ \A h \in ToSet(hs), a \in ToSet(acc) : ~HunksConflict(h, a)
  /\ Filling(ToSet(acc)) /\ Filling(ToSet(hs))

\* The edit hunkToEditRange computes from the accepted hunks.
EditOf(acc, h) == HunkToEditRange(h, LineOffsetForStart(h.start, acc))

\* The elements of a list over E are in E.
LEMMA ListElements ==
  ASSUME NEW E, NEW s \in Seq(E)
  PROVE  ToSet(s) \in SUBSET E
  BY DEF ToSet

\* h can be put in on top of acc.
HunkFits(F, o, acc, h) ==
  /\ h \in HunksOver(Lines(F)) /\ h.start \in 1..Len(o) /\ h.count \in Nat
  /\ Clear(ToSet(acc), h.start) /\ \A a \in ToSet(acc) : ~HunksConflict(h, a)
  /\ h.start + h.count <= Len(o) /\ NewLines(h) # << >>
  /\ ToSet(acc) \in SUBSET HunksOver(Lines(F)) /\ o \in Seq(Lines(F))

\* Each hunk of a list that can be put in can be put in.
LEMMA FreshFits ==
  ASSUME NEW F, NEW o, NEW acc, NEW hs, Fresh(F, o, acc, hs), NEW h \in ToSet(hs)
  PROVE  HunkFits(F, o, acc, h)
<1> DEFINE L == Lines(F)
<1>1. acc \in Seq(HunksOver(L)) /\ hs \in Seq(HunksOver(L)) /\ o \in Seq(L)
  BY DEF Fresh, Placed
<1> HIDE DEF L
<1>2. ToSet(acc) \in SUBSET HunksOver(L) /\ h \in HunksOver(L)
  <2>1. ToSet(hs) \in SUBSET HunksOver(L)
    BY <1>1, ListElements
  <2>2. ToSet(acc) \in SUBSET HunksOver(L)
    BY <1>1, ListElements
  <2>3. QED
    BY <2>1, <2>2
<1>3. h.start \in Nat \ {0} /\ h.count \in Nat /\ h.start + h.count <= Len(o) /\ Len(o) \in Nat
  <2>1. h.start + h.count <= Len(o)
    BY DEF Fresh
  <2>2. h.start \in Nat \ {0} /\ h.count \in Nat
    BY <1>2 DEF HunksOver
  <2>3. Len(o) \in Nat
    BY <1>1
  <2>4. QED
    BY <2>1, <2>2, <2>3
<1>4. h.start \in 1..Len(o)
  BY <1>3
<1>5. \A a \in ToSet(acc) : ~HunksConflict(h, a)
  BY DEF Fresh
<1>6. Clear(ToSet(acc), h.start)
  BY <1>2, <1>5, StartIsClear
<1>7. NewLines(h) # << >>
  BY DEF Fresh, Filling
<1>8. QED
  BY <1>1, <1>2, <1>3, <1>4, <1>5, <1>6, <1>7 DEF HunkFits, L

\* The edit of h goes to the position of its line.
EditOfHunk(F, o, acc, h) ==
  /\ EditOf(acc, h) \in Edits(F)
  /\ EditOf(acc, h).startLine = Pos(o, ToSet(acc), h.start)
  /\ EditOf(acc, h).endLine = Pos(o, ToSet(acc), h.start) + h.count
  /\ EditOf(acc, h).text = NewLines(h) \o <<Blank>>
  /\ EditOf(acc, h).insert = (h.count = 0)
  /\ Pos(o, ToSet(acc), h.start) \in Nat

\* hunkToEditRange: with the offset of the accepted hunks an edit starts where the
\* document has the line of the hunk.
LEMMA EditLands ==
  ASSUME NEW F, NEW o, NEW acc, Placed(Lines(F), o, acc), NEW h, HunkFits(F, o, acc, h)
  PROVE  EditOfHunk(F, o, acc, h)
<1> DEFINE L == Lines(F)
           p == Pos(o, ToSet(acc), h.start)
<1>1. /\ h \in HunksOver(L) /\ h.start \in 1..Len(o) /\ h.count \in Nat
      /\ Clear(ToSet(acc), h.start) /\ NewLines(h) # << >>
      /\ ToSet(acc) \in SUBSET HunksOver(L) /\ o \in Seq(L)
  BY DEF HunkFits
<1>2. h.start \in 1..Len(o) + 1 /\ h.start \in Nat \ {0} /\ Len(o) \in Nat
  BY <1>1
<1>3. OffsetRight(o, acc, h.start)
  BY <1>1, <1>2, OffsetIsPosition
<1>4. p \in Nat
  <2>1. PosTyped(L, o, ToSet(acc), h.start)
    BY <1>1, <1>2, PosIsRow
  <2>2. QED
    BY <2>1 DEF PosTyped
<1>5. NewLines(h) = h.repl /\ h.repl \in Seq(L)
  BY <1>1 DEF NewLines, HunksOver
<1>6. h.start - 1 + LineOffsetForStart(h.start, acc) = p
  BY <1>3 DEF OffsetRight
<1>7. EditOf(acc, h) = [startLine |-> p, endLine |-> p + h.count,
                        text |-> h.repl \o <<Blank>>, insert |-> h.count = 0]
  BY <1>6 DEF EditOf, HunkToEditRange
<1>8. h.repl \o <<Blank>> \in {t \in Seq(L) : Len(t) >= 2}
  <2>1. Blank \in L
    BY DEF Blank, Lines
  <2> HIDE DEF L
  <2>2. h.repl \in Seq(L) /\ h.repl # << >>
    BY <1>1, <1>5
  <2>3. Len(h.repl) >= 1 /\ Len(h.repl) \in Nat
    BY <2>2
  <2>4. h.repl \o <<Blank>> \in Seq(L) /\ Len(h.repl \o <<Blank>>) = Len(h.repl) + 1
    BY <2>1, <2>2
  <2>5. QED
    BY <2>3, <2>4
<1>9. (h.count = 0) \in BOOLEAN /\ p + h.count \in Nat
  BY <1>1, <1>4
<1> HIDE DEF p
<1>10. EditOf(acc, h) \in Edits(F)
  BY <1>4, <1>7, <1>8, <1>9 DEF Edits, L
<1>11. /\ EditOf(acc, h).startLine = p /\ EditOf(acc, h).endLine = p + h.count
       /\ EditOf(acc, h).text = h.repl \o <<Blank>>
       /\ EditOf(acc, h).insert = (h.count = 0)
  BY <1>7
<1>12. QED
  BY <1>4, <1>5, <1>10, <1>11 DEF EditOfHunk, p

\* d is applied before e.
EditBefore(d, e) ==
  \/ d.startLine > e.startLine
  \/ d.startLine = e.startLine /\ ~d.insert /\ e.insert

\* WorkspaceEdit: the order of the edits is the order of the hunks in Original C.
LEMMA EditOrder ==
  ASSUME NEW F, NEW o, NEW acc, Placed(Lines(F), o, acc), Filling(ToSet(acc)),
         NEW g, HunkFits(F, o, acc, g), NEW h, HunkFits(F, o, acc, h)
  PROVE  /\ EditBefore(EditOf(acc, g), EditOf(acc, h)) => LowerDown(g, h)
         /\ g.start > h.start => EditBefore(EditOf(acc, g), EditOf(acc, h))
         /\ g.start = h.start /\ g.count > 0 /\ h.count = 0
              => EditBefore(EditOf(acc, g), EditOf(acc, h))
<1> DEFINE A == ToSet(acc)
           L == Lines(F)
<1>1. /\ o \in Seq(L) /\ A \in SUBSET HunksOver(L)
      /\ g.start \in 1..Len(o) /\ g.count \in Nat /\ Clear(A, g.start)
      /\ h.start \in 1..Len(o) /\ h.count \in Nat /\ Clear(A, h.start)
  BY DEF HunkFits
<1>2. /\ EditOf(acc, g).startLine = Pos(o, A, g.start) /\ EditOf(acc, g).insert = (g.count = 0)
      /\ EditOf(acc, h).startLine = Pos(o, A, h.start) /\ EditOf(acc, h).insert = (h.count = 0)
      /\ Pos(o, A, g.start) \in Nat /\ Pos(o, A, h.start) \in Nat
  BY EditLands DEF EditOfHunk
<1>3. g.start \in Nat /\ h.start \in Nat
  BY <1>1
<1> HIDE DEF A, L
<1>4. g.start < h.start => Pos(o, A, g.start) < Pos(o, A, h.start)
  BY <1>1, <1>3, PosIncreases DEF A
<1>5. h.start < g.start => Pos(o, A, h.start) < Pos(o, A, g.start)
  BY <1>1, <1>3, PosIncreases DEF A
<1>6. ASSUME EditBefore(EditOf(acc, g), EditOf(acc, h)) PROVE LowerDown(g, h)
  <2>1. \/ Pos(o, A, g.start) > Pos(o, A, h.start)
        \/ Pos(o, A, g.start) = Pos(o, A, h.start) /\ g.count # 0
    BY <1>2, <1>6 DEF EditBefore
  <2>2. CASE g.start < h.start
    BY <1>2, <1>4, <2>1, <2>2
  <2>3. CASE g.start = h.start
    <3>1. Pos(o, A, g.start) = Pos(o, A, h.start)
      BY <2>3
    <3>2. g.count # 0
      BY <1>2, <2>1, <3>1
    <3>3. QED
      BY <1>1, <2>3, <3>2 DEF LowerDown
  <2>4. CASE g.start > h.start
    BY <2>4 DEF LowerDown
  <2>5. QED
    BY <1>3, <2>2, <2>3, <2>4
<1>7. ASSUME g.start > h.start PROVE EditBefore(EditOf(acc, g), EditOf(acc, h))
  <2>1. Pos(o, A, g.start) > Pos(o, A, h.start)
    BY <1>2, <1>3, <1>5, <1>7
  <2>2. QED
    BY <1>2, <2>1 DEF EditBefore
<1>8. ASSUME g.start = h.start, g.count > 0, h.count = 0
      PROVE  EditBefore(EditOf(acc, g), EditOf(acc, h))
  <2>1. EditOf(acc, g).startLine = EditOf(acc, h).startLine
    BY <1>2, <1>8
  <2>2. ~EditOf(acc, g).insert /\ EditOf(acc, h).insert
    <3>1. ~(g.count = 0)
      BY <1>1, <1>8
    <3>2. EditOf(acc, g).insert = (g.count = 0) /\ EditOf(acc, h).insert = (h.count = 0)
      BY <1>2
    <3>3. QED
      BY <1>8, <3>1, <3>2, Zenon
  <2>3. QED
    BY <2>1, <2>2 DEF EditBefore
<1>9. QED
  BY <1>6, <1>7, <1>8

\* Of the edits of two hunks that do not conflict one is applied first.
LEMMA EditsTotal ==
  ASSUME NEW F, NEW o, NEW acc, Placed(Lines(F), o, acc), Filling(ToSet(acc)),
         NEW g, HunkFits(F, o, acc, g), NEW h, HunkFits(F, o, acc, h), ~HunksConflict(g, h)
  PROVE  \/ EditBefore(EditOf(acc, g), EditOf(acc, h))
         \/ EditBefore(EditOf(acc, h), EditOf(acc, g))
<1> DEFINE L == Lines(F)
<1>1. g \in HunksOver(L) /\ h \in HunksOver(L)
  BY DEF HunkFits
<1>2. /\ g.start \in Nat /\ h.start \in Nat /\ g.count \in Nat /\ h.count \in Nat
  BY <1>1 DEF HunksOver
<1> HIDE DEF L
<1>3. CASE g.start > h.start
  BY <1>3, EditOrder
<1>4. CASE h.start > g.start
  BY <1>4, EditOrder
<1>5. CASE g.start = h.start
  <2>1. ~(g.count = 0 /\ h.count = 0) /\ ~(g.count > 0 /\ h.count > 0)
    BY <1>1, <1>2, <1>5, ApartMeans
  <2>2. \/ g.count > 0 /\ h.count = 0
        \/ h.count > 0 /\ g.count = 0
    BY <1>2, <2>1
  <2>3. CASE g.count > 0 /\ h.count = 0
    BY <1>5, <2>3, EditOrder
  <2>4. CASE h.count > 0 /\ g.count = 0
    BY <1>5, <2>4, EditOrder
  <2>5. QED
    BY <2>2, <2>3, <2>4
<1>6. QED
  BY <1>2, <1>3, <1>4, <1>5

-----------------------------------------------------------------------------
(***************************************************************************)
(* Their order (WorkspaceEdit).                                            *)
(***************************************************************************)
\* r is the list hs in the order in which its edits are applied.
EditRow(F, acc, hs, r) ==
  /\ r \in Seq(HunksOver(Lines(F))) /\ Len(r) = Len(hs) /\ ToSet(r) = ToSet(hs) /\ Distinct(r)
  /\ BottomUp(CandidateToEditRanges(hs, acc)) \in Seq(Edits(F))
  /\ Len(BottomUp(CandidateToEditRanges(hs, acc))) = Len(hs)
  /\ \A k \in 1..Len(hs) : BottomUp(CandidateToEditRanges(hs, acc))[k] = EditOf(acc, r[k])
  /\ \A i, j \in 1..Len(hs) : i < j => LowerDown(r[i], r[j])

\* The order of the edits is a strict order.
LEMMA EditBeforeOrders ==
  ASSUME NEW F
  PROVE  /\ \A x, y, z \in Edits(F) : EditBefore(x, y) /\ EditBefore(y, z) => EditBefore(x, z)
         /\ \A x \in Edits(F) : ~EditBefore(x, x)
<1>1. ASSUME NEW x \in Edits(F), NEW y \in Edits(F), NEW z \in Edits(F),
             EditBefore(x, y), EditBefore(y, z)
      PROVE  EditBefore(x, z)
  <2>1. x.startLine \in Nat /\ y.startLine \in Nat /\ z.startLine \in Nat
    BY DEF Edits
  <2>2. QED
    BY <1>1, <2>1 DEF EditBefore
<1>2. ASSUME NEW x \in Edits(F) PROVE ~EditBefore(x, x)
  <2>1. x.startLine \in Nat
    BY DEF Edits
  <2>2. QED
    BY <2>1 DEF EditBefore
<1>3. QED
  BY <1>1, <1>2

\* Each entry of a list is one of its elements.
LEMMA EachIsElement ==
  ASSUME NEW E, NEW s \in Seq(E)
  PROVE  \A k \in 1..Len(s) : s[k] \in ToSet(s)
  BY DEF ToSet

\* The edits in the order they are applied are the edits of the hunks, lowest first.
LEMMA EditsAreOrdered ==
  ASSUME NEW F, NEW o, NEW acc, NEW hs, Fresh(F, o, acc, hs)
  PROVE  \E r : EditRow(F, acc, hs, r)
<1> DEFINE L == Lines(F)
           X == CandidateToEditRanges(hs, acc)
           ahead == {p \in ToSet(X) \X ToSet(X) :
                       \/ p[1].startLine > p[2].startLine
                       \/ p[1].startLine = p[2].startLine /\ ~p[1].insert /\ p[2].insert}
           B == SortedBy(X, ahead)
<1>1. /\ Placed(L, o, acc) /\ Placed(L, o, hs) /\ hs \in Seq(HunksOver(L))
      /\ Len(hs) \in Nat /\ DOMAIN hs = 1..Len(hs) /\ Filling(ToSet(acc))
  BY DEF Fresh, Placed
<1>2. \A h \in ToSet(hs) : HunkFits(F, o, acc, h)
  BY FreshFits
<1>3. \A i \in 1..Len(hs) : hs[i] \in ToSet(hs)
  BY <1>1 DEF ToSet
<1>4. X = [i \in 1..Len(hs) |-> EditOf(acc, hs[i])]
  BY <1>1 DEF CandidateToEditRanges, EditOf
<1>5. \A h \in ToSet(hs) : EditOf(acc, h) \in Edits(F)
  BY <1>1, <1>2, EditLands DEF EditOfHunk
<1>6. \A a, b : <<a, b>> \in ahead <=> a \in ToSet(X) /\ b \in ToSet(X) /\ EditBefore(a, b)
  BY DEF EditBefore
<1>7. BottomUp(X) = B
  BY DEF BottomUp
<1> HIDE DEF X, ahead, L
<1>8. X \in Seq(Edits(F)) /\ Len(X) = Len(hs) /\ DOMAIN X = 1..Len(hs)
  BY <1>1, <1>3, <1>4, <1>5
<1>9. /\ \A i \in 1..Len(hs) : EditOf(acc, hs[i]) \in ToSet(X)
      /\ \A e \in ToSet(X) : \E h \in ToSet(hs) : e = EditOf(acc, h)
      /\ ToSet(X) \in SUBSET Edits(F)
  <2>1. ToSet(X) = {X[i] : i \in 1..Len(hs)}
    BY <1>8 DEF ToSet
  <2>2. QED
    BY <1>3, <1>4, <1>5, <2>1
<1>10. Linear(X, ahead)
  <2>1. ASSUME NEW i \in DOMAIN X, NEW j \in DOMAIN X, i # j
        PROVE  <<X[i], X[j]>> \in ahead \/ <<X[j], X[i]>> \in ahead
    <3>1. i \in 1..Len(hs) /\ j \in 1..Len(hs)
      BY <1>8
    <3>2. ~HunksConflict(hs[i], hs[j])
      BY <1>1, <2>1, <3>1 DEF Placed
    <3>3. HunkFits(F, o, acc, hs[i]) /\ HunkFits(F, o, acc, hs[j])
      BY <1>2, <1>3, <3>1
    <3>4. \/ EditBefore(EditOf(acc, hs[i]), EditOf(acc, hs[j]))
          \/ EditBefore(EditOf(acc, hs[j]), EditOf(acc, hs[i]))
      BY <1>1, <3>2, <3>3, EditsTotal DEF L
    <3>5. X[i] = EditOf(acc, hs[i]) /\ X[j] = EditOf(acc, hs[j])
      BY <1>4, <3>1
    <3>6. QED
      BY <1>6, <1>9, <3>1, <3>4, <3>5
  <2>2. \A x, y, z \in ToSet(X) : <<x, y>> \in ahead /\ <<y, z>> \in ahead => <<x, z>> \in ahead
    BY <1>6, <1>9, EditBeforeOrders
  <2>3. QED
    BY <2>1, <2>2 DEF Linear
<1>11. /\ B \in Seq(Edits(F)) /\ Len(B) = Len(hs) /\ ToSet(B) = ToSet(X)
       /\ \A i, j \in 1..Len(hs) : i < j => <<B[i], B[j]>> \in ahead
  <2>1. B \in Seq(Edits(F)) /\ Len(B) = Len(X) /\ ToSet(B) = ToSet(X) /\ Ordered(B, ahead)
    BY <1>8, <1>10, SortedBySorts
  <2>2. QED
    BY <1>8, <2>1 DEF Ordered
<1> HIDE DEF B
<1>12. \A k \in 1..Len(hs) : B[k] \in ToSet(X)
  <2>1. B \in Seq(Edits(F)) /\ Len(B) = Len(hs) /\ ToSet(B) = ToSet(X)
    BY <1>11
  <2>2. QED
    BY <2>1, EachIsElement
<1> DEFINE r == [k \in 1..Len(hs) |-> CHOOSE h \in ToSet(hs) : EditOf(acc, h) = B[k]]
<1>13. \A k \in 1..Len(hs) : r[k] \in ToSet(hs) /\ EditOf(acc, r[k]) = B[k]
  BY <1>9, <1>12
<1>14. Len(r) = Len(hs) /\ DOMAIN r = 1..Len(hs) /\ r \in Seq(HunksOver(L))
  <2>1. ToSet(hs) \in SUBSET HunksOver(L)
    BY <1>1, ListElements
  <2>2. \A k \in 1..Len(hs) : r[k] \in HunksOver(L)
    BY <1>13, <2>1
  <2>3. r = [k \in 1..Len(hs) |-> r[k]]
    OBVIOUS
  <2> HIDE DEF r
  <2>4. r \in [1..Len(hs) -> HunksOver(L)]
    BY <2>2, <2>3
  <2>5. QED
    BY <1>1, <2>4
<1> HIDE DEF r
<1>15. \A i, j \in 1..Len(hs) : i < j => EditBefore(EditOf(acc, r[i]), EditOf(acc, r[j]))
  BY <1>6, <1>11, <1>13
<1>16. Distinct(r)
  <2> SUFFICES ASSUME NEW i \in 1..Len(hs), NEW j \in 1..Len(hs), i # j, r[i] = r[j] PROVE FALSE
    BY <1>14 DEF Distinct
  <2>1. i < j \/ j < i
    OBVIOUS
  <2>2. EditBefore(EditOf(acc, r[i]), EditOf(acc, r[i]))
    BY <1>15, <2>1
  <2>3. EditOf(acc, r[i]) \in Edits(F)
    BY <1>5, <1>13
  <2>4. QED
    BY <2>2, <2>3, EditBeforeOrders
<1>17. ToSet(r) = ToSet(hs)
  <2>1. ToSet(r) = {r[k] : k \in 1..Len(hs)}
    BY <1>14 DEF ToSet
  <2>2. ASSUME NEW h \in ToSet(hs) PROVE h \in ToSet(r)
    <3>1. PICK m \in 1..Len(hs) : h = hs[m]
      BY <1>1 DEF ToSet
    <3>2. EditOf(acc, h) \in ToSet(B)
      BY <1>9, <1>11, <3>1
    <3>3. PICK k \in 1..Len(hs) : EditOf(acc, h) = B[k]
      <4>1. ToSet(B) = {B[i] : i \in 1..Len(hs)}
        BY <1>11 DEF ToSet
      <4>2. QED
        BY <3>2, <4>1
    <3>4. r[k] \in ToSet(hs) /\ EditOf(acc, r[k]) = EditOf(acc, h)
      BY <1>13, <3>3
    <3>5. PICK n \in 1..Len(hs) : r[k] = hs[n]
      BY <1>1, <3>4 DEF ToSet
    <3>6. n = m
      <4> SUFFICES ASSUME n # m PROVE FALSE
        OBVIOUS
      <4>1. ~HunksConflict(hs[n], hs[m])
        BY <1>1 DEF Placed
      <4>2. HunkFits(F, o, acc, hs[n]) /\ HunkFits(F, o, acc, hs[m])
        BY <1>2, <1>3
      <4>3. \/ EditBefore(EditOf(acc, hs[n]), EditOf(acc, hs[m]))
            \/ EditBefore(EditOf(acc, hs[m]), EditOf(acc, hs[n]))
        BY <1>1, <4>1, <4>2, EditsTotal DEF L
      <4>4. EditOf(acc, hs[n]) = EditOf(acc, h) /\ EditOf(acc, hs[m]) = EditOf(acc, h)
        BY <3>1, <3>4, <3>5
      <4>5. EditBefore(EditOf(acc, h), EditOf(acc, h))
        BY <4>3, <4>4
      <4>6. QED
        BY <1>5, <4>5, EditBeforeOrders
    <3>7. r[k] = h
      BY <3>1, <3>5, <3>6
    <3>8. QED
      BY <2>1, <3>7
  <2>3. ToSet(r) \subseteq ToSet(hs)
    BY <1>13, <2>1
  <2>4. QED
    BY <2>2, <2>3
<1>18. ASSUME NEW i \in 1..Len(hs), NEW j \in 1..Len(hs), i < j PROVE LowerDown(r[i], r[j])
  <2>1. EditBefore(EditOf(acc, r[i]), EditOf(acc, r[j]))
    BY <1>15, <1>18
  <2>2. HunkFits(F, o, acc, r[i]) /\ HunkFits(F, o, acc, r[j])
    BY <1>2, <1>13
  <2>3. QED
    BY <1>1, <2>1, <2>2, EditOrder DEF L
<1>19. BottomUp(X) \in Seq(Edits(F)) /\ Len(BottomUp(X)) = Len(hs)
       /\ \A k \in 1..Len(hs) : BottomUp(X)[k] = EditOf(acc, r[k])
  BY <1>7, <1>11, <1>13
<1>20. EditRow(F, acc, hs, r)
  BY <1>14, <1>16, <1>17, <1>18, <1>19 DEF EditRow, X, L
<1>21. QED
  BY <1>20

-----------------------------------------------------------------------------
(***************************************************************************)
(* All of them (applyCandidate).                                           *)
(***************************************************************************)
\* The composition is a sequence of lines.
LEMMA ComposeIsText ==
  ASSUME NEW F, NEW o \in Seq(Lines(F)), NEW H \in SUBSET HunksOver(Lines(F))
  PROVE  Compose(o, H) \in Seq(Lines(F))
<1>1. Len(o) + 1 \in Nat
  OBVIOUS
<1>2. QED
  BY <1>1, RowsSteps DEF Compose

\* hunkToEditRange, toTextEdit and applyEdit: the edits computed from the accepted
\* hunks, applied bottom-up, put the candidate's hunks in where Original C has them.
LEMMA EditsCompose ==
  ASSUME NEW F, NEW o, NEW acc, NEW hs, Fresh(F, o, acc, hs), Compose(o, ToSet(acc)) # << >>
  PROVE  ApplyWorkspaceEdit(Compose(o, ToSet(acc)), CandidateToEditRanges(hs, acc))
           = Compose(o, ToSet(acc) \cup ToSet(hs))
<1> DEFINE L == Lines(F)
           A == ToSet(acc)
           X == CandidateToEditRanges(hs, acc)
           B == BottomUp(X)
<1>1. /\ Placed(L, o, acc) /\ Placed(L, o, hs) /\ hs \in Seq(HunksOver(L)) /\ o \in Seq(L)
      /\ Len(hs) \in Nat /\ Filling(A) /\ Filling(ToSet(hs))
      /\ \A h \in ToSet(hs), a \in A : ~HunksConflict(h, a)
      /\ \A h \in ToSet(hs) : h.start + h.count <= Len(o)
  BY DEF Fresh, Placed
<1>2. A \in SUBSET HunksOver(L) /\ ToSet(hs) \in SUBSET HunksOver(L)
  <2>1. acc \in Seq(HunksOver(L))
    BY DEF Fresh, Placed
  <2> HIDE DEF L
  <2>2. QED
    BY <1>1, <2>1, ListElements
<1>3. PICK r : EditRow(F, acc, hs, r)
  BY EditsAreOrdered
<1>4. /\ r \in Seq(HunksOver(L)) /\ Len(r) = Len(hs) /\ ToSet(r) = ToSet(hs) /\ Distinct(r)
      /\ B \in Seq(Edits(F)) /\ Len(B) = Len(hs)
      /\ \A k \in 1..Len(hs) : B[k] = EditOf(acc, r[k])
      /\ \A i, j \in 1..Len(hs) : i < j => LowerDown(r[i], r[j])
  BY <1>3 DEF EditRow
<1>5. Compose(o, A) \in Texts(F)
  BY <1>1, <1>2, ComposeIsText DEF Texts
<1>6. PICK f \in [0..Len(B) -> Texts(F)] :
        /\ f[0] = Compose(o, A)
        /\ \A k \in 0..Len(B)-1 : f[k + 1] = ApplyTextEdit(f[k], B[k + 1])
        /\ ApplyWorkspaceEdit(Compose(o, A), X) = f[Len(B)]
  <2>1. EditsRun(Texts(F), Compose(o, A), X)
    BY <1>4, <1>5, EditTyped, EditsFold
  <2>2. QED
    BY <2>1 DEF EditsRun
<1>7. Placed(L, o, r)
  <2> HIDE DEF L
  <2>1. QED
    BY <1>1, <1>4, PlacedInAnyOrder
<1>8. \A k \in 1..Len(hs) : r[k] \in ToSet(hs)
  <2>1. r \in Seq(HunksOver(L)) /\ Len(r) = Len(hs) /\ ToSet(r) = ToSet(hs)
    BY <1>4
  <2> HIDE DEF L
  <2>2. QED
    BY <2>1, EachIsElement
<1> HIDE DEF B, X, L, A
<1> DEFINE Done(k) == f[k] = Compose(o, A \cup First(r, k)) /\ SamePlaces(o, A, First(r, k))
           S == {k \in Nat : k <= Len(hs) => Done(k)}
<1>9. FirstSteps(r)
  BY <1>4, FirstGrows
<1>10. 0 \in S
  <2>1. First(r, 0) = {}
    BY <1>9 DEF FirstSteps
  <2>2. A \cup {} = A
    OBVIOUS
  <2>3. SamePlaces(o, A, {})
    BY <2>2 DEF SamePlaces
  <2>4. QED
    BY <1>6, <2>1, <2>2, <2>3
<1>11. ASSUME NEW k \in Nat, k \in S PROVE k + 1 \in S
  <2> SUFFICES ASSUME k + 1 <= Len(hs) PROVE Done(k + 1)
    OBVIOUS
  <2> DEFINE P == First(r, k)
             h == r[k + 1]
             e == B[k + 1]
             p == Pos(o, A, h.start)
  <2>1. k < Len(r) /\ k \in 0..Len(B)-1 /\ k \in 0..Len(B) /\ k + 1 \in 1..Len(hs) /\ k < Len(hs)
    BY <1>1, <1>4
  <2>2. f[k] = Compose(o, A \cup P) /\ SamePlaces(o, A, P)
    BY <1>11, <2>1
  <2>3. Joins(L, o, P, h)
    BY <1>7, <2>1, NextJoins
  <2>4. h \in ToSet(hs) /\ P \in SUBSET ToSet(hs)
    <3>1. \A i \in 1..k : i \in 1..Len(hs)
      BY <2>1
    <3>2. \A i \in 1..k : r[i] \in ToSet(hs)
      BY <1>8, <3>1
    <3>3. QED
      BY <1>8, <2>1, <3>2 DEF First
  <2>5. \A a \in P : LowerDown(a, h)
    <3>1. \A i \in 1..k : i \in 1..Len(hs) /\ i < k + 1
      BY <2>1
    <3>2. \A i \in 1..k : LowerDown(r[i], r[k + 1])
      BY <1>4, <2>1, <3>1
    <3>3. QED
      BY <3>2 DEF First
  <2>6. First(r, k + 1) = P \cup {h}
    BY <1>9 DEF FirstSteps
  <2>7. f[k + 1] = ApplyTextEdit(f[k], e) /\ e = EditOf(acc, h) /\ f[k] \in Texts(F)
    BY <1>4, <1>6, <2>1
  <2> HIDE DEF P, h, e
  <2>8. h \in HunksOver(L) /\ P \in SUBSET HunksOver(L) /\ A \cup P \in SUBSET HunksOver(L)
    BY <1>2, <2>4
  <2>9. Joins(L, o, A \cup P, h)
    <3>1. \A a \in A : ~HunksConflict(h, a)
      BY <1>1, <2>4
    <3>2. h \notin A
      BY <2>8, <3>1, ConflictsWithItself
    <3>3. QED
      BY <2>3, <2>8, <3>1, <3>2 DEF Joins
  <2>10. Still(P, h.start)
    BY <2>5, <2>8, LowerMovesNothing
  <2>11. Grown(o, A, P, h)
    BY <2>2, <2>9, <2>10, OneMore
  <2>12. h.start \in Nat \ {0} /\ h.count \in Nat
    BY <2>8 DEF HunksOver
  <2>13. p + h.count < Len(f[k])
    <3>1. Filling(A \cup P)
      BY <1>1, <2>4 DEF Filling
    <3>2. h.start + h.count <= Len(o)
      BY <1>1, <2>4
    <3>3. Room(o, A \cup P, h)
      BY <2>9, <3>1, <3>2, RoomBelow
    <3>4. Pos(o, A \cup P, h.start) = p
      BY <2>2, <2>10, <2>12 DEF SamePlaces
    <3>5. QED
      BY <2>2, <3>3, <3>4 DEF Room
  <2>14. /\ e \in Edits(F) /\ e.startLine = p /\ e.endLine = p + h.count
         /\ e.text = NewLines(h) \o <<Blank>> /\ p \in Nat
    <3>1. HunkFits(F, o, acc, h)
      BY <2>4, FreshFits
    <3>2. EditOfHunk(F, o, acc, h)
      BY <1>1, <3>1, EditLands DEF L
    <3>3. QED
      BY <2>7, <3>2 DEF EditOfHunk, A
  <2>15. NewLines(h) \in Seq(L) /\ NewLines(h) # << >>
    <3>1. NewLines(h) # << >>
      BY <1>1, <2>4 DEF Filling
    <3>2. QED
      BY <2>8, <3>1, NewLinesTyped
  <2> HIDE DEF p
  <2>16. EditIs(f[k], e, NewLines(h))
    <3>1. f[k] \in Seq(Lines(F)) /\ NewLines(h) \in Seq(Lines(F))
      BY <2>7, <2>15 DEF Texts, L
    <3>2. e.startLine <= e.endLine /\ e.endLine < Len(f[k])
      BY <2>12, <2>13, <2>14
    <3>3. QED
      BY <2>14, <2>15, <3>1, <3>2, EditIsSplice
  <2>17. e.endLine - e.startLine = h.count
    BY <2>12, <2>14
  <2>18. f[k + 1] = Splice(f[k], p, h.count, NewLines(h))
    BY <2>7, <2>14, <2>16, <2>17, Zenon DEF EditIs
  <2>19. Compose(o, A \cup (P \cup {h})) = Splice(Compose(o, A \cup P), p, h.count, NewLines(h))
    BY <2>11 DEF Grown, p
  <2>20. f[k + 1] = Compose(o, A \cup First(r, k + 1))
    BY <2>2, <2>6, <2>18, <2>19, Zenon
  <2>21. SamePlaces(o, A, First(r, k + 1))
    BY <2>6, <2>11 DEF Grown
  <2>22. QED
    BY <2>20, <2>21
<1>12. Nat \subseteq S
  <2> HIDE DEF S
  <2>1. QED
    BY <1>10, <1>11, Induction
<1>13. f[Len(hs)] = Compose(o, A \cup First(r, Len(hs)))
  BY <1>1, <1>12
<1>14. First(r, Len(r)) = ToSet(r)
  BY <1>9 DEF FirstSteps
<1>15. First(r, Len(hs)) = ToSet(hs)
  BY <1>4, <1>14
<1>16. ApplyWorkspaceEdit(Compose(o, A), X) = Compose(o, A \cup ToSet(hs))
  BY <1>4, <1>6, <1>13, <1>15
<1>17. QED
  BY <1>16 DEF A, X

-----------------------------------------------------------------------------
(***************************************************************************)
(* The #include filter, and lists of hunks.                                *)
(***************************************************************************)
\* The elements of s that pass the test T.
Chosen(s, T) == FlattenSeq([i \in 1..Len(s) |-> IF T[i] THEN <<s[i]>> ELSE << >>])

\* A filter keeps elements and does not add any.
LEMMA ChosenShorter ==
  ASSUME NEW E, NEW s \in Seq(E), NEW T
  PROVE  Chosen(s, T) \in Seq(E) /\ Len(Chosen(s, T)) <= Len(s)
<1> DEFINE R == [i \in Nat \ {0} |-> IF i <= Len(s) /\ T[i] THEN <<s[i]>> ELSE << >>]
           C(n) == FlattenSeq([i \in 1..n |-> R[i]])
           S == {n \in Nat : Len(C(n)) <= n}
<1>1. ASSUME NEW i \in Nat \ {0} PROVE R[i] \in Seq(E) /\ Len(R[i]) <= 1
  <2>1. CASE i <= Len(s) /\ T[i]
    <3>1. R[i] = <<s[i]>> /\ s[i] \in E
      BY <2>1
    <3>2. <<s[i]>> \in Seq(E) /\ Len(<<s[i]>>) = 1
      BY <3>1
    <3>3. QED
      BY <3>1, <3>2
  <2>2. CASE ~(i <= Len(s) /\ T[i])
    <3>1. R[i] = << >>
      BY <2>2
    <3>2. << >> \in Seq(E) /\ Len(<< >>) = 0
      OBVIOUS
    <3>3. QED
      BY <3>1, <3>2
  <2>3. QED
    BY <2>1, <2>2
<1>2. [i \in 1..Len(s) |-> R[i]] = [i \in 1..Len(s) |-> IF T[i] THEN <<s[i]>> ELSE << >>]
  OBVIOUS
<1>3. Chosen(s, T) = C(Len(s))
  BY <1>2 DEF Chosen
<1> HIDE DEF R
<1>4. /\ FlattenSeq([i \in 1..0 |-> R[i]]) = << >>
      /\ \A n \in Nat :
           /\ FlattenSeq([i \in 1..n |-> R[i]]) \in Seq(E)
           /\ FlattenSeq([i \in 1..n + 1 |-> R[i]]) = FlattenSeq([i \in 1..n |-> R[i]]) \o R[n + 1]
  BY <1>1, FlattenSteps
<1>5. C(0) = << >> /\ \A n \in Nat : C(n) \in Seq(E) /\ C(n + 1) = C(n) \o R[n + 1]
  BY <1>4
<1> HIDE DEF C
<1>6. 0 \in S
  BY <1>5
<1>7. ASSUME NEW n \in Nat, n \in S PROVE n + 1 \in S
  <2>1. R[n + 1] \in Seq(E) /\ Len(R[n + 1]) <= 1 /\ Len(R[n + 1]) \in Nat
    BY <1>1
  <2>2. C(n) \in Seq(E) /\ C(n + 1) = C(n) \o R[n + 1]
    BY <1>5
  <2>3. Len(C(n + 1)) = Len(C(n)) + Len(R[n + 1]) /\ Len(C(n)) \in Nat
    <3> DEFINE x == C(n)
               y == R[n + 1]
    <3>1. x \in Seq(E) /\ y \in Seq(E) /\ C(n + 1) = x \o y
      BY <2>1, <2>2
    <3> HIDE DEF x, y
    <3>2. Len(C(n + 1)) = Len(x) + Len(y) /\ Len(x) \in Nat
      BY <3>1
    <3>3. QED
      BY <3>2 DEF x, y
  <2>4. Len(C(n)) <= n
    BY <1>7
  <2>5. QED
    BY <2>1, <2>2, <2>3, <2>4
<1>8. Nat \subseteq S
  <2> HIDE DEF S
  <2>1. QED
    BY <1>6, <1>7, Induction
<1>9. Len(s) \in Nat
  OBVIOUS
<1>10. QED
  BY <1>3, <1>5, <1>8, <1>9

\* dedupeIncludes leaves hunks, and never more than there were.
LEMMA DedupeShorter ==
  ASSUME NEW F, NEW hs \in Seq(HunksOver(Lines(F))), NEW text
  PROVE  /\ DedupeIncludes(hs, text) \in Seq(HunksOver(Lines(F)))
         /\ Len(DedupeIncludes(hs, text)) <= Len(hs)
<1> DEFINE L == Lines(F)
           Present(line) == IsInclude(line) /\ Contains(text, line)
           Kept(h) == IF h.count # 0 THEN h.repl ELSE Where(h.repl, LAMBDA line : ~Present(line))
           Dropped(h) == Kept(h) # h.repl /\ \A i \in DOMAIN Kept(h) : Kept(h)[i] = Blank
           left == Where(hs, LAMBDA h : ~Dropped(h))
           out == [i \in DOMAIN left |-> [left[i] EXCEPT !.repl = Kept(left[i])]]
<1>1. DedupeIncludes(hs, text) = out
  BY DEF DedupeIncludes
<1>2. DOMAIN hs = 1..Len(hs) /\ hs \in Seq(HunksOver(L))
  OBVIOUS
<1>3. left \in Seq(HunksOver(L)) /\ Len(left) <= Len(hs)
  <2> DEFINE T == [i \in 1..Len(hs) |-> ~Dropped(hs[i])]
  <2> HIDE DEF Dropped
  <2>1. [i \in DOMAIN hs |-> IF ~Dropped(hs[i]) THEN <<hs[i]>> ELSE << >>]
          = [i \in 1..Len(hs) |-> IF T[i] THEN <<hs[i]>> ELSE << >>]
    BY <1>2
  <2>2. left = Chosen(hs, T)
    BY <2>1 DEF Where, Chosen
  <2> HIDE DEF T, left, L
  <2>3. QED
    BY <1>2, <2>2, ChosenShorter
<1>4. ASSUME NEW h \in HunksOver(L) PROVE Kept(h) \in Seq(L)
  <2>1. h.repl \in Seq(L) /\ DOMAIN h.repl = 1..Len(h.repl)
    BY DEF HunksOver
  <2>2. CASE h.count # 0
    BY <2>1, <2>2
  <2>3. CASE h.count = 0
    <3> DEFINE s == h.repl
               T == [i \in 1..Len(s) |-> ~Present(s[i])]
    <3> HIDE DEF Present
    <3>1. [i \in DOMAIN s |-> IF ~Present(s[i]) THEN <<s[i]>> ELSE << >>]
            = [i \in 1..Len(s) |-> IF T[i] THEN <<s[i]>> ELSE << >>]
      BY <2>1
    <3>2. Kept(h) = Chosen(s, T)
      BY <2>3, <3>1 DEF Where, Chosen
    <3> HIDE DEF T, Kept, L
    <3>3. QED
      BY <2>1, <3>2, ChosenShorter
  <2>4. QED
    BY <2>2, <2>3
<1> HIDE DEF Kept, left, L
<1>5. DOMAIN left = 1..Len(left) /\ Len(left) \in Nat
  BY <1>3
<1>6. ASSUME NEW i \in 1..Len(left)
      PROVE  [left[i] EXCEPT !.repl = Kept(left[i])] \in HunksOver(L)
  <2>1. left[i] \in HunksOver(L)
    BY <1>3
  <2>2. Kept(left[i]) \in Seq(L)
    BY <1>4, <2>1
  <2>3. QED
    BY <2>1, <2>2 DEF HunksOver
<1>7. out \in Seq(HunksOver(L)) /\ Len(out) = Len(left)
  BY <1>5, <1>6
<1>8. QED
  BY <1>1, <1>3, <1>7 DEF L

\* Parts of equal concatenations, the first pair no longer than the second.
LEMMA EqualParts ==
  ASSUME NEW E, NEW a \in Seq(E), NEW b \in Seq(E), NEW c \in Seq(E), NEW d \in Seq(E),
         a \o c = b \o d, Len(a) <= Len(b), Len(c) <= Len(d)
  PROVE  a = b /\ c = d
<1>1. Joined(E, a, c, a \o c) /\ Joined(E, b, d, b \o d)
  BY ConcatGives
<1> DEFINE w == a \o c
<1>2. /\ Len(w) = Len(a) + Len(c) /\ Len(w) = Len(b) + Len(d)
      /\ \A i \in 1..Len(a) : w[i] = a[i]
      /\ \A i \in 1..Len(c) : w[Len(a) + i] = c[i]
      /\ \A i \in 1..Len(b) : w[i] = b[i]
      /\ \A i \in 1..Len(d) : w[Len(b) + i] = d[i]
  BY <1>1 DEF Joined
<1> HIDE DEF w
<1>3. Len(a) \in Nat /\ Len(b) \in Nat /\ Len(c) \in Nat /\ Len(d) \in Nat
  OBVIOUS
<1>4. Len(a) = Len(b) /\ Len(c) = Len(d)
  BY <1>2, <1>3
<1>5. a = b
  <2>1. \A i \in 1..Len(a) : a[i] = b[i]
    BY <1>2, <1>4
  <2>2. QED
    BY <1>4, <2>1
<1>6. c = d
  <2>1. ASSUME NEW i \in 1..Len(c) PROVE c[i] = d[i]
    <3>1. w[Len(a) + i] = c[i] /\ w[Len(b) + i] = d[i]
      BY <1>2, <1>4
    <3>2. QED
      BY <1>4, <3>1
  <2> HIDE DEF w
  <2>2. c \in Seq(E) /\ d \in Seq(E) /\ Len(c) = Len(d)
    BY <1>4
  <2>3. QED
    BY <2>1, <2>2
<1>7. QED
  BY <1>5, <1>6

\* The hunks of a list of candidates, one after another.
AllHunks(hk, list) == FlattenSeq([i \in DOMAIN list |-> hk[list[i]]])

\* Every candidate has a list of hunks.
Lists(C, E, hk) == \A c \in C : hk[c] \in Seq(E)

\* One candidate more adds its hunks behind the others.
OneListMore(E, hk, list, c) ==
  /\ AllHunks(hk, list) \in Seq(E)
  /\ AllHunks(hk, Append(list, c)) = AllHunks(hk, list) \o hk[c]

\* AcceptedHunks grows by the hunks of the accepted candidate.
LEMMA AllHunksGrow ==
  ASSUME NEW C, NEW E, NEW hk, Lists(C, E, hk), NEW list \in Seq(C), NEW c \in C
  PROVE  OneListMore(E, hk, list, c)
<1> DEFINE n == Len(list)
           longer == Append(list, c)
           R == [i \in Nat \ {0} |-> IF i <= n + 1 THEN hk[longer[i]] ELSE << >>]
<1>1. /\ n \in Nat /\ DOMAIN list = 1..n /\ DOMAIN longer = 1..n + 1
      /\ \A i \in 1..n : longer[i] = list[i]
      /\ longer[n + 1] = c /\ \A i \in 1..n + 1 : longer[i] \in C
  OBVIOUS
<1> HIDE DEF longer, n
<1>2. ASSUME NEW i \in Nat \ {0} PROVE R[i] \in Seq(E)
  <2>1. CASE i <= n + 1
    BY <1>1, <2>1 DEF Lists
  <2>2. CASE ~(i <= n + 1)
    <3>1. << >> \in Seq(E)
      OBVIOUS
    <3>2. QED
      BY <2>2, <3>1
  <2>3. QED
    BY <2>1, <2>2
<1>3. [i \in DOMAIN list |-> hk[list[i]]] = [i \in 1..n |-> R[i]]
  BY <1>1
<1>4. [i \in DOMAIN longer |-> hk[longer[i]]] = [i \in 1..n + 1 |-> R[i]]
  BY <1>1
<1>5. R[n + 1] = hk[c]
  BY <1>1
<1> HIDE DEF R
<1>6. /\ FlattenSeq([i \in 1..0 |-> R[i]]) = << >>
      /\ \A m \in Nat :
           /\ FlattenSeq([i \in 1..m |-> R[i]]) \in Seq(E)
           /\ FlattenSeq([i \in 1..m + 1 |-> R[i]]) = FlattenSeq([i \in 1..m |-> R[i]]) \o R[m + 1]
  BY <1>2, FlattenSteps
<1>7. /\ AllHunks(hk, list) \in Seq(E)
      /\ AllHunks(hk, longer) = AllHunks(hk, list) \o R[n + 1]
  BY <1>1, <1>3, <1>4, <1>6 DEF AllHunks
<1>8. QED
  BY <1>5, <1>7 DEF longer, OneListMore

\* Nothing accepted, no hunks.
LEMMA NoHunks ==
  ASSUME NEW hk
  PROVE  AllHunks(hk, << >>) = << >>
<1> DEFINE R == [i \in Nat \ {0} |-> << >>]
<1>1. \A i \in Nat \ {0} : R[i] \in Seq({})
  OBVIOUS
<1>2. [i \in DOMAIN << >> |-> hk[<< >>[i]]] = [i \in 1..0 |-> R[i]]
  OBVIOUS
<1> HIDE DEF R
<1>3. FlattenSeq([i \in 1..0 |-> R[i]]) = << >>
  BY <1>1, FlattenSteps
<1>4. QED
  BY <1>2, <1>3 DEF AllHunks

-----------------------------------------------------------------------------
(***************************************************************************)
(* Conflicts (rangesIntersect), and hunks of two lists.                    *)
(***************************************************************************)
\* A conflict does not depend on which of the two candidates is accepted first
\* (patches.js, rangesIntersect).
LEMMA ConflictSymmetric ==
  ASSUME NEW a, NEW b
  PROVE  HunksConflict(a, b) <=> HunksConflict(b, a)
<1>1. CASE a.count = 0 /\ b.count = 0
  BY <1>1 DEF HunksConflict, RangesIntersect, HunkRange
<1>2. CASE a.count = 0 /\ b.count # 0
  BY <1>2 DEF HunksConflict, RangesIntersect, HunkRange
<1>3. CASE a.count # 0 /\ b.count = 0
  BY <1>3 DEF HunksConflict, RangesIntersect, HunkRange
<1>4. CASE a.count # 0 /\ b.count # 0
  BY <1>4 DEF HunksConflict, RangesIntersect, HunkRange
<1>5. QED
  BY <1>1, <1>2, <1>3, <1>4

\* The numbers of a hunk.
Hunk(h) == h.start \in Nat \ {0} /\ h.count \in Nat

\* Of two hunks that do not conflict exactly one lies above the other, so exactly
\* one is moved by the other (model.ts, lineOffsetForStart).
LEMMA ExactlyOneAbove ==
  ASSUME NEW a, NEW b, Hunk(a), Hunk(b), ~HunksConflict(a, b)
  PROVE  LiesAbove(a, b.start) # LiesAbove(b, a.start)
<1>1. CASE a.count = 0 /\ b.count = 0
  BY <1>1 DEF Hunk, HunksConflict, RangesIntersect, HunkRange, LiesAbove
<1>2. CASE a.count = 0 /\ b.count # 0
  BY <1>2 DEF Hunk, HunksConflict, RangesIntersect, HunkRange, LiesAbove
<1>3. CASE a.count # 0 /\ b.count = 0
  BY <1>3 DEF Hunk, HunksConflict, RangesIntersect, HunkRange, LiesAbove
<1>4. CASE a.count # 0 /\ b.count # 0
  BY <1>4 DEF Hunk, HunksConflict, RangesIntersect, HunkRange, LiesAbove
<1>5. QED
  BY <1>1, <1>2, <1>3, <1>4

\* The elements of a list, by their places.
LEMMA ElementsAre ==
  ASSUME NEW E, NEW s \in Seq(E)
  PROVE  ToSet(s) = {s[i] : i \in 1..Len(s)}
  BY DEF ToSet

\* The elements of a concatenation are those of both parts.
LEMMA ToSetOfBoth ==
  ASSUME NEW E, NEW a \in Seq(E), NEW b \in Seq(E)
  PROVE  ToSet(a \o b) = ToSet(a) \cup ToSet(b)
<1>1. Joined(E, a, b, a \o b)
  BY ConcatGives
<1> DEFINE w == a \o b
<1>2. /\ w \in Seq(E) /\ Len(w) = Len(a) + Len(b)
      /\ \A i \in 1..Len(a) : w[i] = a[i]
      /\ \A i \in 1..Len(b) : w[Len(a) + i] = b[i]
  BY <1>1 DEF Joined
<1> HIDE DEF w
<1>3. /\ Len(a) \in Nat /\ Len(b) \in Nat
      /\ ToSet(a) = {a[i] : i \in 1..Len(a)} /\ ToSet(b) = {b[i] : i \in 1..Len(b)}
      /\ ToSet(w) = {w[i] : i \in 1..Len(w)}
  <2>1. ToSet(a) = {a[i] : i \in 1..Len(a)}
    BY ElementsAre
  <2>2. ToSet(b) = {b[i] : i \in 1..Len(b)}
    BY ElementsAre
  <2>3. ToSet(w) = {w[i] : i \in 1..Len(w)}
    BY <1>2, ElementsAre
  <2>4. Len(a) \in Nat /\ Len(b) \in Nat
    OBVIOUS
  <2>5. QED
    BY <2>1, <2>2, <2>3, <2>4
<1>4. ASSUME NEW x \in ToSet(w) PROVE x \in ToSet(a) \cup ToSet(b)
  <2>1. PICK i \in 1..Len(w) : x = w[i]
    BY <1>3
  <2>2. CASE i <= Len(a)
    <3>1. i \in 1..Len(a)
      BY <1>3, <2>2
    <3>2. QED
      BY <1>2, <1>3, <2>1, <3>1
  <2>3. CASE i > Len(a)
    <3>1. PICK j \in 1..Len(b) : i = Len(a) + j
      <4>1. i - Len(a) \in 1..Len(b) /\ i = Len(a) + (i - Len(a))
        BY <1>2, <1>3, <2>3
      <4>2. QED
        BY <4>1
    <3>2. QED
      BY <1>2, <1>3, <2>1, <3>1
  <2>4. QED
    BY <1>3, <2>2, <2>3
<1>5. ASSUME NEW x \in ToSet(a) PROVE x \in ToSet(w)
  <2>1. PICK i \in 1..Len(a) : x = a[i]
    BY <1>3
  <2>2. i \in 1..Len(w) /\ x = w[i]
    BY <1>2, <1>3, <2>1
  <2>3. QED
    BY <1>3, <2>2
<1>6. ASSUME NEW x \in ToSet(b) PROVE x \in ToSet(w)
  <2>1. PICK i \in 1..Len(b) : x = b[i]
    BY <1>3
  <2>2. Len(a) + i \in 1..Len(w) /\ x = w[Len(a) + i]
    BY <1>2, <1>3, <2>1
  <2>3. QED
    BY <1>3, <2>2
<1>7. QED
  BY <1>4, <1>5, <1>6 DEF w

\* Two lists of hunks that can be put in, and do not conflict, can be put in together.
LEMMA PlacedTogether ==
  ASSUME NEW L, NEW o, NEW a, NEW b, Placed(L, o, a), Placed(L, o, b),
         \A x \in ToSet(a), y \in ToSet(b) : ~HunksConflict(x, y)
  PROVE  Placed(L, o, a \o b)
<1>1. /\ o \in Seq(L) /\ a \in Seq(HunksOver(L)) /\ b \in Seq(HunksOver(L))
      /\ \A i \in 1..Len(a) : a[i].start + a[i].count <= Len(o) + 1
      /\ \A i \in 1..Len(b) : b[i].start + b[i].count <= Len(o) + 1
      /\ \A i, j \in 1..Len(a) : i # j => ~HunksConflict(a[i], a[j])
      /\ \A i, j \in 1..Len(b) : i # j => ~HunksConflict(b[i], b[j])
  BY DEF Placed
<1>2. /\ \A i \in 1..Len(a) : a[i] \in ToSet(a)
      /\ \A i \in 1..Len(b) : b[i] \in ToSet(b)
  <2>1. \A i \in 1..Len(a) : a[i] \in ToSet(a)
    BY <1>1, EachIsElement
  <2>2. \A i \in 1..Len(b) : b[i] \in ToSet(b)
    BY <1>1, EachIsElement
  <2>3. QED
    BY <2>1, <2>2
<1> DEFINE w == a \o b
<1>3. /\ w \in Seq(HunksOver(L)) /\ Len(w) = Len(a) + Len(b)
      /\ \A i \in 1..Len(a) : w[i] = a[i]
      /\ \A i \in 1..Len(b) : w[Len(a) + i] = b[i]
  <2>1. Joined(HunksOver(L), a, b, a \o b)
    BY <1>1, ConcatGives
  <2>2. QED
    BY <2>1 DEF Joined
<1> HIDE DEF w
<1>4. Len(a) \in Nat /\ Len(b) \in Nat
  BY <1>1
<1>5. \A i \in 1..Len(w) :
        \/ i \in 1..Len(a) /\ w[i] = a[i]
        \/ \E m \in 1..Len(b) : i = Len(a) + m /\ w[i] = b[m]
  <2> SUFFICES ASSUME NEW i \in 1..Len(w)
               PROVE  \/ i \in 1..Len(a) /\ w[i] = a[i]
                      \/ \E m \in 1..Len(b) : i = Len(a) + m /\ w[i] = b[m]
    OBVIOUS
  <2>1. CASE i <= Len(a)
    <3>1. i \in 1..Len(a)
      BY <1>4, <2>1
    <3>2. QED
      BY <1>3, <3>1
  <2>2. CASE i > Len(a)
    <3>1. i - Len(a) \in 1..Len(b) /\ i = Len(a) + (i - Len(a))
      BY <1>3, <1>4, <2>2
    <3>2. w[i] = b[i - Len(a)]
      BY <1>3, <3>1
    <3>3. QED
      BY <3>1, <3>2
  <2>3. QED
    BY <1>4, <2>1, <2>2
<1>6. \A i \in 1..Len(w) : w[i].start + w[i].count <= Len(o) + 1
  BY <1>1, <1>5
<1>7. ASSUME NEW i \in 1..Len(w), NEW j \in 1..Len(w), i # j
      PROVE  ~HunksConflict(w[i], w[j])
  <2>1. CASE i \in 1..Len(a) /\ w[i] = a[i] /\ j \in 1..Len(a) /\ w[j] = a[j]
    <3>1. ~HunksConflict(a[i], a[j])
      BY <1>1, <1>7, <2>1
    <3>2. QED
      BY <2>1, <3>1
  <2>2. ASSUME NEW m \in 1..Len(b), i = Len(a) + m, w[i] = b[m], j \in 1..Len(a), w[j] = a[j]
        PROVE  ~HunksConflict(w[i], w[j])
    <3>1. ~HunksConflict(a[j], b[m])
      BY <1>2, <2>2
    <3>2. ~HunksConflict(b[m], a[j])
      BY <3>1, ConflictSymmetric
    <3>3. QED
      BY <2>2, <3>2
  <2>3. ASSUME NEW m \in 1..Len(b), i \in 1..Len(a), w[i] = a[i], j = Len(a) + m, w[j] = b[m]
        PROVE  ~HunksConflict(w[i], w[j])
    <3>1. ~HunksConflict(a[i], b[m])
      BY <1>2, <2>3
    <3>2. QED
      BY <2>3, <3>1
  <2>4. ASSUME NEW m \in 1..Len(b), NEW n \in 1..Len(b),
               i = Len(a) + m, w[i] = b[m], j = Len(a) + n, w[j] = b[n]
        PROVE  ~HunksConflict(w[i], w[j])
    <3>1. m # n
      BY <1>7, <2>4
    <3>2. ~HunksConflict(b[m], b[n])
      BY <1>1, <3>1
    <3>3. QED
      BY <2>4, <3>2
  <2>5. QED
    BY <1>5, <2>1, <2>2, <2>3, <2>4
<1>8. QED
  BY <1>1, <1>3, <1>6, <1>7 DEF Placed, w

\* The lists of C can all be put into o, alone and together.
ListsFit(L, o, C, hk) ==
  /\ \A c \in C : Placed(L, o, hk[c])
  /\ \A c, d \in C : c # d =>
       \A a \in ToSet(hk[c]), b \in ToSet(hk[d]) : ~HunksConflict(a, b)

\* The hunks of the candidates of a list can all be put into o.
AllPlaced(L, o, hk, list) ==
  /\ Placed(L, o, AllHunks(hk, list))
  /\ ToSet(AllHunks(hk, list)) = UNION {ToSet(hk[c]) : c \in ToSet(list)}

\* They can be put in one after another, in any order.
LEMMA ListsPlaced ==
  ASSUME NEW L, NEW o \in Seq(L), NEW C, NEW hk, ListsFit(L, o, C, hk),
         NEW list \in Seq(C), Distinct(list)
  PROVE  AllPlaced(L, o, hk, list)
<1> DEFINE p(n) == SubSeq(list, 1, n)
           S == {n \in Nat : n <= Len(list) => AllPlaced(L, o, hk, p(n))}
<1>1. Lists(C, HunksOver(L), hk)
  BY DEF Lists, ListsFit, Placed
<1>2. 0 \in S
  <2>1. p(0) = << >> /\ ToSet(<< >>) = {}
    BY DEF ToSet
  <2>2. AllHunks(hk, << >>) = << >>
    BY NoHunks
  <2>3. Placed(L, o, << >>)
    BY DEF Placed
  <2>4. QED
    BY <2>1, <2>2, <2>3 DEF AllPlaced
<1>3. ASSUME NEW n \in Nat, n \in S PROVE n + 1 \in S
  <2> SUFFICES ASSUME n + 1 <= Len(list) PROVE AllPlaced(L, o, hk, p(n + 1))
    OBVIOUS
  <2> DEFINE q == p(n)
             c == list[n + 1]
             A == AllHunks(hk, q)
  <2>1. /\ q \in Seq(C) /\ c \in C /\ p(n + 1) = Append(q, c) /\ Len(q) = n
        /\ n + 1 \in 1..Len(list)
        /\ \A i \in 1..n : q[i] = list[i] /\ i \in 1..Len(list) /\ i # n + 1
    OBVIOUS
  <2>2. \A i \in 1..n : q[i] \in C /\ q[i] # c
    BY <2>1 DEF Distinct
  <2>3. AllPlaced(L, o, hk, q)
    <3> HIDE DEF p
    <3>1. n <= Len(list)
      OBVIOUS
    <3>2. QED
      BY <1>3, <3>1
  <2> HIDE DEF q, c, p
  <2>4. /\ A \in Seq(HunksOver(L)) /\ AllHunks(hk, p(n + 1)) = A \o hk[c]
    <3>1. /\ A \in Seq(HunksOver(L))
          /\ AllHunks(hk, Append(q, c)) = A \o hk[c]
      BY <1>1, <2>1, AllHunksGrow DEF OneListMore
    <3>2. QED
      BY <2>1, <3>1
  <2>5. Placed(L, o, A) /\ ToSet(A) = UNION {ToSet(hk[d]) : d \in ToSet(q)}
    BY <2>3 DEF AllPlaced
  <2>6. Placed(L, o, hk[c]) /\ hk[c] \in Seq(HunksOver(L))
    BY <2>1 DEF ListsFit, Placed
  <2>7. ToSet(q) = {q[i] : i \in 1..n}
    BY <2>1, ElementsAre
  <2>8. ASSUME NEW x \in ToSet(A), NEW y \in ToSet(hk[c]) PROVE ~HunksConflict(x, y)
    <3>1. PICK i \in 1..n : x \in ToSet(hk[q[i]])
      BY <2>5, <2>7
    <3>2. QED
      BY <2>1, <2>2, <3>1 DEF ListsFit
  <2>9. Placed(L, o, A \o hk[c])
    BY <2>5, <2>6, <2>8, PlacedTogether
  <2>10. ToSet(A \o hk[c]) = ToSet(A) \cup ToSet(hk[c])
    BY <2>4, <2>6, ToSetOfBoth
  <2>11. ToSet(Append(q, c)) = ToSet(q) \cup {c}
    <3> DEFINE e == <<c>>
    <3>1. Append(q, c) = q \o e /\ q \in Seq(C) /\ e \in Seq(C)
      BY <2>1
    <3>2. ToSet(e) = {c}
      BY DEF ToSet
    <3> HIDE DEF e
    <3>3. ToSet(q \o e) = ToSet(q) \cup ToSet(e)
      BY <3>1, ToSetOfBoth
    <3>4. QED
      BY <3>1, <3>2, <3>3
  <2>12. Placed(L, o, AllHunks(hk, p(n + 1)))
    BY <2>4, <2>9
  <2>13. ToSet(AllHunks(hk, p(n + 1))) = ToSet(A) \cup ToSet(hk[c])
    BY <2>4, <2>10
  <2>14. ToSet(p(n + 1)) = ToSet(q) \cup {c}
    BY <2>1, <2>11
  <2> HIDE DEF A
  <2>15. ToSet(AllHunks(hk, p(n + 1))) = UNION {ToSet(hk[d]) : d \in ToSet(p(n + 1))}
    BY <2>5, <2>13, <2>14
  <2>16. QED
    BY <2>12, <2>15 DEF AllPlaced
<1>4. Nat \subseteq S
  <2> HIDE DEF S
  <2>1. QED
    BY <1>2, <1>3, Induction
<1>5. Len(list) \in Nat /\ p(Len(list)) = list
  OBVIOUS
<1> HIDE DEF p
<1>6. QED
  BY <1>4, <1>5

-----------------------------------------------------------------------------
(***************************************************************************)
(* The inductive invariant: the lists.                                     *)
(***************************************************************************)
\* The lines of the texts of this scan.
Line == Lines(Fragments)

\* The candidates keep the hunks the contract allows on the scanned text.
ShapesKept == \A c \in Candidates : hunks[c] \in Shapes(c, original)

\* No two accepted candidates conflict.
AcceptedApart ==
  \A i, j \in DOMAIN accepted : i # j =>
    \A a \in ToSet(hunks[accepted[i]]), b \in ToSet(hunks[accepted[j]]) :
      ~HunksConflict(a, b)

\* The accepted hunks can all be put into Original C, and are those of the accepted
\* candidates.
AcceptedPlaced ==
  /\ Placed(Line, original, AcceptedHunks)
  /\ \A h \in ToSet(AcceptedHunks) : \E i \in DOMAIN accepted : h \in ToSet(hunks[accepted[i]])

\* The #include filter gives the editor hunks, and no more than were accepted.
LandedShorter == landed \in Seq(HunksOver(Line)) /\ Len(landed) <= Len(AcceptedHunks)

\* Inductive: the document is only known to be the composition together with what
\* makes the next accept land (the accepted hunks fit and keep apart), and with
\* what tells from the history that the filter took nothing (LandedShorter).
IInv ==
  /\ TypeOK /\ ShapesKept /\ AcceptedApart
  /\ AcceptedPlaced /\ LandedShorter /\ OutputIsCompositionElsewhere

\* What the contract says of a candidate's hunks, in the words of the lemmas.
CandidateFits(c) ==
  Placed(Line, original, hunks[c]) /\ \A h \in ToSet(hunks[c]) : h.repl # << >>

\* ShapesAssumption gives it.
LEMMA ShapesFit ==
  ASSUME TypeOK, ShapesKept, NEW c \in Candidates
  PROVE  CandidateFits(c)
<1> DEFINE hs == hunks[c]
<1>1. original \in Originals /\ hs \in Shapes(c, original)
  BY DEF TypeOK, ShapesKept
<1> HIDE DEF hs
<1>2. /\ original \in Seq(Seq(Fragments)) /\ hs \in Seq(HunkShape(Fragments))
      /\ \A i \in DOMAIN hs : hs[i].start + hs[i].count <= Len(original) + 1
      /\ \A i, j \in DOMAIN hs : i # j => ~HunksConflict(hs[i], hs[j])
  BY <1>1, ShapesAssumption
<1>3. DOMAIN hs = 1..Len(hs)
  BY <1>2
<1>4. HunkShape(Fragments) \in SUBSET HunksOver(Line) /\ \A h \in HunkShape(Fragments) : h.repl # << >>
  BY DEF HunkShape, HunksOver, Line, Lines
<1>5. hs \in Seq(HunksOver(Line))
  <2> DEFINE U == HunksOver(Line)
             V == HunkShape(Fragments)
  <2>1. V \in SUBSET U /\ hs \in Seq(V)
    BY <1>2, <1>4
  <2> HIDE DEF U, V
  <2>2. hs \in Seq(U)
    BY <2>1
  <2>3. QED
    BY <2>2 DEF U
<1>6. Placed(Line, original, hs)
  BY <1>2, <1>3, <1>5 DEF Placed, Line, Lines
<1>7. \A h \in ToSet(hs) : h.repl # << >>
  BY <1>2, <1>4, ListElements
<1>8. QED
  BY <1>6, <1>7 DEF CandidateFits, hs

\* It holds of the text as scanned.
LEMMA InitIInv == Init => IInv
<1> SUFFICES ASSUME Init PROVE IInv
  OBVIOUS
<1>1. TypeOK /\ ShapesKept /\ AcceptedApart
  BY DEF Init, TypeOK, ShapesKept, AcceptedApart
<1>2. AcceptedHunks = << >>
  <2>1. AcceptedHunks = AllHunks(hunks, << >>)
    BY DEF AcceptedHunks, AllHunks, Init
  <2>2. QED
    BY <2>1, NoHunks
<1>3. original \in Seq(Line)
  BY <1>1, ShapesAssumption DEF TypeOK, Line, Lines
<1>4. landed = << >> /\ doc = original
  BY DEF Init
<1>5. /\ << >> \in Seq(HunksOver(Line)) /\ Len(<< >>) = 0 /\ DOMAIN << >> = {}
      /\ ToSet(<< >>) = {}
  BY DEF ToSet
<1>6. AcceptedPlaced
  <2>1. \A i \in 1..Len(<< >>) : FALSE
    BY <1>5
  <2>2. Placed(Line, original, << >>)
    BY <1>3, <1>5, <2>1 DEF Placed
  <2>3. QED
    BY <1>2, <1>5, <2>2 DEF AcceptedPlaced
<1>7. LandedShorter
  BY <1>2, <1>4, <1>5 DEF LandedShorter
<1>8. OutputIsCompositionElsewhere
  <2>1. Compose(original, {}) = original
    BY <1>3, RowsOfNone
  <2>2. OutputIsComposition
    BY <1>4, <1>5, <2>1 DEF OutputIsComposition
  <2>3. QED
    BY <2>2 DEF OutputIsCompositionElsewhere
<1>9. QED
  BY <1>1, <1>6, <1>7, <1>8 DEF IInv

\* NoConflict, the guard, says that the accepted candidate's hunks keep clear of
\* all the hunks accepted before.
LEMMA GuardKeepsClear ==
  ASSUME IInv, NEW c \in Candidates, NoConflict(c), NEW i \in DOMAIN accepted,
         NEW a \in ToSet(hunks[c]), NEW b \in ToSet(hunks[accepted[i]])
  PROVE  ~HunksConflict(a, b) /\ ~HunksConflict(b, a)
<1>1. ~CandidatesConflict(hunks[c], hunks[accepted[i]])
  BY DEF NoConflict
<1>2. ~HunksConflict(a, b)
  BY <1>1 DEF CandidatesConflict, ToSet
<1>3. QED
  BY <1>2, ConflictSymmetric

\* The new candidate's hunks keep clear of all that was accepted.
LEMMA GuardKeepsAllClear ==
  ASSUME IInv, NEW c \in Candidates, NoConflict(c)
  PROVE  \A h \in ToSet(hunks[c]), a \in ToSet(AcceptedHunks) :
           ~HunksConflict(h, a) /\ ~HunksConflict(a, h)
<1> SUFFICES ASSUME NEW h \in ToSet(hunks[c]), NEW a \in ToSet(AcceptedHunks)
             PROVE  ~HunksConflict(h, a) /\ ~HunksConflict(a, h)
  OBVIOUS
<1>1. PICK i \in DOMAIN accepted : a \in ToSet(hunks[accepted[i]])
  BY DEF IInv, AcceptedPlaced
<1>2. QED
  BY <1>1, GuardKeepsClear

\* The accept of one candidate, as it changes the lists.
Accepting(c) ==
  /\ UNCHANGED <<original, hunks>>
  /\ accepted' = Append(accepted, c)
  /\ AcceptedHunks \in Seq(HunksOver(Line)) /\ hunks[c] \in Seq(HunksOver(Line))
  /\ AcceptedHunks' = AcceptedHunks \o hunks[c]
  /\ ToSet(AcceptedHunks') = ToSet(AcceptedHunks) \cup ToSet(hunks[c])

\* Every accept does so.
LEMMA AcceptGrowsLists ==
  ASSUME IInv, NEW c \in Candidates, Accept(c)
  PROVE  Accepting(c)
<1>1. UNCHANGED <<original, hunks>> /\ accepted' = Append(accepted, c)
  BY DEF Accept
<1>2. accepted \in Seq(Candidates)
  BY DEF IInv, TypeOK
<1>3. ASSUME NEW d \in Candidates PROVE hunks[d] \in Seq(HunksOver(Line))
  <2>1. TypeOK /\ ShapesKept
    BY DEF IInv
  <2>2. CandidateFits(d)
    BY <2>1, ShapesFit
  <2>3. QED
    BY <2>2 DEF CandidateFits, Placed
<1>4. AcceptedHunks = AllHunks(hunks, accepted)
  BY DEF AcceptedHunks, AllHunks
<1>5. AcceptedHunks' = AllHunks(hunks, Append(accepted, c))
  BY <1>1 DEF AcceptedHunks, AllHunks
<1>6. /\ AllHunks(hunks, accepted) \in Seq(HunksOver(Line))
      /\ AllHunks(hunks, Append(accepted, c)) = AllHunks(hunks, accepted) \o hunks[c]
  <2>1. Lists(Candidates, HunksOver(Line), hunks)
    BY <1>3 DEF Lists
  <2>2. OneListMore(HunksOver(Line), hunks, accepted, c)
    BY <1>2, <2>1, AllHunksGrow
  <2>3. QED
    BY <2>2 DEF OneListMore
<1>7. AcceptedHunks \in Seq(HunksOver(Line)) /\ AcceptedHunks' = AcceptedHunks \o hunks[c]
  BY <1>4, <1>5, <1>6
<1>8. ToSet(AcceptedHunks \o hunks[c]) = ToSet(AcceptedHunks) \cup ToSet(hunks[c])
  BY <1>3, <1>7, ToSetOfBoth
<1>9. QED
  BY <1>1, <1>3, <1>7, <1>8 DEF Accepting

\* By its guard an accept adds no conflict.
LEMMA AcceptKeepsApart ==
  ASSUME IInv, NEW c \in Candidates, Accept(c)
  PROVE  TypeOK' /\ ShapesKept' /\ AcceptedApart'
<1>1. /\ accepted' = Append(accepted, c)
      /\ UNCHANGED <<original, hunks>>
      /\ NoConflict(c)
      /\ accepted \in Seq(Candidates)
      /\ TypeOK /\ ShapesKept /\ AcceptedApart
  BY DEF Accept, IInv, TypeOK
<1>2. TypeOK'
  BY <1>1 DEF TypeOK
<1>3. ShapesKept'
  BY <1>1 DEF ShapesKept
<1>4. AcceptedApart'
  <2> SUFFICES ASSUME NEW i \in DOMAIN accepted', NEW j \in DOMAIN accepted', i # j,
                      NEW a \in ToSet(hunks[accepted'[i]]),
                      NEW b \in ToSet(hunks[accepted'[j]])
               PROVE  ~HunksConflict(a, b)
    BY <1>1 DEF AcceptedApart
  <2>1. CASE i \in DOMAIN accepted /\ j \in DOMAIN accepted
    BY <1>1, <2>1 DEF AcceptedApart
  <2>2. CASE i \notin DOMAIN accepted
    <3>1. accepted'[i] = c /\ j \in DOMAIN accepted /\ accepted'[j] = accepted[j]
      BY <1>1, <2>2
    <3>2. QED
      BY <1>1, <3>1, GuardKeepsClear
  <2>3. CASE j \notin DOMAIN accepted
    <3>1. accepted'[j] = c /\ i \in DOMAIN accepted /\ accepted'[i] = accepted[i]
      BY <1>1, <2>3
    <3>2. QED
      BY <1>1, <3>1, GuardKeepsClear
  <2>4. QED
    BY <2>1, <2>2, <2>3
<1>5. QED
  BY <1>2, <1>3, <1>4

\* After an accept the accepted hunks still fit.
LEMMA AcceptKeepsPlaced ==
  ASSUME IInv, NEW c \in Candidates, Accept(c)
  PROVE  AcceptedPlaced'
<1>1. Accepting(c) /\ NoConflict(c)
  BY AcceptGrowsLists DEF Accept
<1>2. /\ UNCHANGED <<original, hunks>> /\ accepted' = Append(accepted, c)
      /\ AcceptedHunks' = AcceptedHunks \o hunks[c]
      /\ ToSet(AcceptedHunks') = ToSet(AcceptedHunks) \cup ToSet(hunks[c])
      /\ accepted \in Seq(Candidates)
  BY <1>1 DEF Accepting, IInv, TypeOK
<1>3. Placed(Line, original, AcceptedHunks \o hunks[c])
  <2>1. Placed(Line, original, AcceptedHunks)
    BY DEF IInv, AcceptedPlaced
  <2>2. Placed(Line, original, hunks[c])
    BY ShapesFit DEF IInv, CandidateFits
  <2>3. \A a \in ToSet(AcceptedHunks), h \in ToSet(hunks[c]) : ~HunksConflict(a, h)
    BY <1>1, GuardKeepsAllClear
  <2>4. QED
    BY <2>1, <2>2, <2>3, PlacedTogether
<1>4. ASSUME NEW h \in ToSet(AcceptedHunks')
      PROVE  \E i \in DOMAIN accepted' : h \in ToSet(hunks'[accepted'[i]])
  <2>1. CASE h \in ToSet(hunks[c])
    <3>1. Len(accepted) + 1 \in DOMAIN accepted' /\ accepted'[Len(accepted) + 1] = c
      BY <1>2
    <3>2. QED
      BY <1>2, <2>1, <3>1
  <2>2. CASE h \in ToSet(AcceptedHunks)
    <3>1. PICK i \in DOMAIN accepted : h \in ToSet(hunks[accepted[i]])
      BY <2>2 DEF IInv, AcceptedPlaced
    <3>2. i \in DOMAIN accepted' /\ accepted'[i] = accepted[i]
      BY <1>2
    <3>3. QED
      BY <1>2, <3>1, <3>2
  <2>3. QED
    BY <1>2, <1>4, <2>1, <2>2
<1>5. Placed(Line, original', AcceptedHunks')
  BY <1>2, <1>3
<1>6. QED
  BY <1>4, <1>5 DEF AcceptedPlaced

-----------------------------------------------------------------------------
(***************************************************************************)
(* The inductive invariant: the document.                                  *)
(***************************************************************************)
\* What one accept gives to the editor.
Kept(c) == DedupeIncludes(hunks[c], doc)

\* The accept of one candidate, as it changes the document.
Landing(c) ==
  /\ Kept(c) \in Seq(HunksOver(Line)) /\ Len(Kept(c)) <= Len(hunks[c])
  /\ landed' = landed \o Kept(c)
  /\ doc' = IF Kept(c) = << >> THEN doc
            ELSE ApplyWorkspaceEdit(doc, CandidateToEditRanges(Kept(c), AcceptedHunks))

\* Every accept does so (applyCandidate).
LEMMA AcceptLands ==
  ASSUME IInv, NEW c \in Candidates, Accept(c)
  PROVE  Landing(c)
<1>1. /\ landed' = landed \o Kept(c)
      /\ doc' = IF Kept(c) = << >> THEN doc
                ELSE ApplyWorkspaceEdit(doc, CandidateToEditRanges(Kept(c), AcceptedHunks))
  BY DEF Accept, Kept
<1>2. hunks[c] \in Seq(HunksOver(Lines(Fragments)))
  BY AcceptGrowsLists DEF Accepting, Line
<1>3. /\ Kept(c) \in Seq(HunksOver(Lines(Fragments))) /\ Len(Kept(c)) <= Len(hunks[c])
  BY <1>2, DedupeShorter DEF Kept
<1>4. QED
  BY <1>1, <1>3 DEF Landing, Line

\* Lengths of two concatenations, part by part.
LEMMA ShorterTogether ==
  ASSUME NEW E, NEW a \in Seq(E), NEW b \in Seq(E), NEW c \in Seq(E), NEW d \in Seq(E),
         Len(a) <= Len(b), Len(c) <= Len(d)
  PROVE  a \o c \in Seq(E) /\ Len(a \o c) <= Len(b \o d)
<1>1. Len(a) \in Nat /\ Len(b) \in Nat /\ Len(c) \in Nat /\ Len(d) \in Nat
  OBVIOUS
<1>2. Len(a \o c) = Len(a) + Len(c) /\ Len(b \o d) = Len(b) + Len(d) /\ a \o c \in Seq(E)
  OBVIOUS
<1>3. QED
  BY <1>1, <1>2

\* The filter only ever takes hunks away.
LEMMA AcceptKeepsLanded ==
  ASSUME IInv, NEW c \in Candidates, Accept(c)
  PROVE  LandedShorter'
<1>1. /\ landed \in Seq(HunksOver(Line)) /\ AcceptedHunks \in Seq(HunksOver(Line))
      /\ Len(landed) <= Len(AcceptedHunks)
  BY DEF IInv, LandedShorter, AcceptedPlaced, Placed
<1>2. hunks[c] \in Seq(HunksOver(Line)) /\ AcceptedHunks' = AcceptedHunks \o hunks[c]
  BY AcceptGrowsLists DEF Accepting
<1>3. Landing(c)
  BY AcceptLands
<1>4. /\ Kept(c) \in Seq(HunksOver(Line)) /\ Len(Kept(c)) <= Len(hunks[c])
      /\ landed' = landed \o Kept(c)
  BY <1>3 DEF Landing
<1>5. /\ landed \o Kept(c) \in Seq(HunksOver(Line))
      /\ Len(landed \o Kept(c)) <= Len(AcceptedHunks \o hunks[c])
  BY <1>1, <1>2, <1>4, ShorterTogether
<1>6. landed' \in Seq(HunksOver(Line)) /\ Len(landed') <= Len(AcceptedHunks')
  BY <1>2, <1>4, <1>5
<1>7. QED
  BY <1>6 DEF LandedShorter, Line, HunksOver

\* When nothing was dropped after an accept, nothing was dropped before it or by it.
NothingDropped(c) ==
  /\ landed = AcceptedHunks /\ Kept(c) = hunks[c]
  /\ ToSet(landed') = ToSet(AcceptedHunks) \cup ToSet(hunks[c])

\* The history only grows, and by no more than the candidate's hunks: what is
\* missing from it stays missing.
LEMMA DroppedBefore ==
  ASSUME IInv, NEW c \in Candidates, Accept(c), ~SomeDropped'
  PROVE  NothingDropped(c)
<1>1. /\ landed \in Seq(HunksOver(Line)) /\ AcceptedHunks \in Seq(HunksOver(Line))
      /\ Len(landed) <= Len(AcceptedHunks)
  BY DEF IInv, LandedShorter, AcceptedPlaced, Placed
<1>2. Accepting(c) /\ Landing(c)
  BY AcceptGrowsLists, AcceptLands
<1>3. /\ hunks[c] \in Seq(HunksOver(Line)) /\ AcceptedHunks' = AcceptedHunks \o hunks[c]
      /\ ToSet(AcceptedHunks') = ToSet(AcceptedHunks) \cup ToSet(hunks[c])
  BY <1>2 DEF Accepting
<1>4. /\ Kept(c) \in Seq(HunksOver(Line)) /\ Len(Kept(c)) <= Len(hunks[c])
      /\ landed' = landed \o Kept(c)
  BY <1>2 DEF Landing
<1>5. landed' = AcceptedHunks'
  BY DEF SomeDropped
<1>6. landed \o Kept(c) = AcceptedHunks \o hunks[c]
  BY <1>3, <1>4, <1>5
<1>7. landed = AcceptedHunks /\ Kept(c) = hunks[c]
  BY <1>1, <1>3, <1>4, <1>6, EqualParts
<1>8. QED
  BY <1>3, <1>5, <1>7 DEF NothingDropped

\* A list of landed hunks without the cases the output theorem leaves out.
Ordinary(list) ==
  \A h \in ToSet(list) : ~IsDeletion(h) /\ h.start + h.count <= Len(original)

\* What the state says of the landed hunks by their places holds of each of them.
LEMMA LandedOrdinary == ~SomeDeletion /\ ~EndReached /\ LandedShorter => Ordinary(landed)
<1> SUFFICES ASSUME ~SomeDeletion, ~EndReached, LandedShorter, NEW h \in ToSet(landed)
             PROVE  ~IsDeletion(h) /\ h.start + h.count <= Len(original)
  BY DEF Ordinary
<1>1. PICK i \in DOMAIN landed : h = landed[i]
  BY DEF ToSet
<1>2. landed \in Seq(HunksOver(Line)) /\ landed[i] \in HunksOver(Line)
  BY DEF LandedShorter
<1>3. ~IsDeletion(landed[i]) /\ ~(landed[i].start + landed[i].count > Len(original))
  BY DEF SomeDeletion, EndReached
<1>4. landed[i].start \in Nat /\ landed[i].count \in Nat
  BY <1>2 DEF HunksOver
<1>5. QED
  BY <1>1, <1>3, <1>4

\* And back.
LEMMA OrdinaryLanded == Ordinary(landed) /\ LandedShorter => ~SomeDeletion /\ ~EndReached
<1> SUFFICES ASSUME Ordinary(landed), LandedShorter PROVE ~SomeDeletion /\ ~EndReached
  OBVIOUS
<1>1. ASSUME NEW i \in DOMAIN landed
      PROVE  ~IsDeletion(landed[i]) /\ ~(landed[i].start + landed[i].count > Len(original))
  <2>1. landed[i] \in ToSet(landed)
    BY DEF ToSet
  <2>2. ~IsDeletion(landed[i]) /\ landed[i].start + landed[i].count <= Len(original)
    BY <2>1 DEF Ordinary
  <2>3. landed \in Seq(HunksOver(Line)) /\ landed[i] \in HunksOver(Line)
    BY DEF LandedShorter
  <2>4. landed[i].start \in Nat /\ landed[i].count \in Nat
    BY <2>3 DEF HunksOver
  <2>5. QED
    BY <2>2, <2>4
<1>2. QED
  BY <1>1 DEF SomeDeletion, EndReached

\* A hunk of an accepted candidate that deletes nothing puts lines in.
LEMMA AcceptedFilling ==
  ASSUME IInv, NEW h, h \in ToSet(AcceptedHunks), ~IsDeletion(h)
  PROVE  NewLines(h) # << >>
<1>1. PICK i \in DOMAIN accepted : h \in ToSet(hunks[accepted[i]])
  BY DEF IInv, AcceptedPlaced
<1>2. TypeOK /\ ShapesKept /\ accepted[i] \in Candidates
  BY <1>1 DEF IInv, TypeOK
<1>3. CandidateFits(accepted[i])
  BY <1>2, ShapesFit
<1>4. h.repl # << >>
  BY <1>1, <1>3 DEF CandidateFits
<1>5. QED
  BY <1>4 DEF NewLines

\* A hunk that does not reach below the last line finds a line to go before.
LEMMA SomethingThere ==
  ASSUME NEW F, NEW o, NEW acc, NEW hs, Fresh(F, o, acc, hs), hs # << >>
  PROVE  Compose(o, ToSet(acc)) # << >>
<1> DEFINE L == Lines(F)
           A == ToSet(acc)
           h == hs[1]
<1>1. /\ acc \in Seq(HunksOver(L)) /\ hs \in Seq(HunksOver(L)) /\ o \in Seq(L)
      /\ \A x \in ToSet(hs) : x.start + x.count <= Len(o)
      /\ \A x \in ToSet(hs), a \in A : ~HunksConflict(x, a)
      /\ Filling(A)
  BY DEF Fresh, Placed
<1>2. h \in HunksOver(L) /\ h \in ToSet(hs)
  <2>1. 1 \in 1..Len(hs)
    BY <1>1
  <2>2. QED
    BY <1>1, <2>1, EachIsElement
<1>3. A \in SUBSET HunksOver(L)
  BY <1>1, ListElements
<1>4. \A a \in A : ~HunksConflict(h, a)
  BY <1>1, <1>2
<1>5. h \notin A
  BY <1>2, <1>4, ConflictsWithItself
<1>6. h.start + h.count <= Len(o) /\ Len(o) \in Nat
  BY <1>1, <1>2
<1>7. h.start \in Nat \ {0} /\ h.count \in Nat
  BY <1>2 DEF HunksOver
<1>8. Joins(L, o, A, h)
  <2>1. h.start + h.count <= Len(o) + 1
    BY <1>6, <1>7
  <2>2. QED
    BY <1>1, <1>2, <1>3, <1>4, <1>5, <2>1 DEF Joins
<1>9. Pos(o, A, h.start) + h.count < Len(Compose(o, A))
  BY <1>1, <1>6, <1>8, RoomBelow DEF Room
<1>10. Pos(o, A, h.start) \in Nat
  BY <1>1, <1>3, <1>7, PosIsRow DEF PosTyped
<1>11. Len(Compose(o, A)) # 0
  BY <1>7, <1>9, <1>10
<1>12. QED
  BY <1>11

\* One accept more, with no deletion, no drop and nothing below the last line: the
\* edits, computed from the accepted hunks alone, turn one composition into the next.
LEMMA AcceptKeepsOutput ==
  ASSUME IInv, NEW c \in Candidates, Accept(c)
  PROVE  OutputIsCompositionElsewhere'
<1> SUFFICES ASSUME ~SomeDeletion', ~SomeDropped', ~EndReached' PROVE OutputIsComposition'
  BY DEF OutputIsCompositionElsewhere
<1> DEFINE A == ToSet(AcceptedHunks)
           hs == hunks[c]
<1>1. NothingDropped(c) /\ Accepting(c) /\ Landing(c)
  BY DroppedBefore, AcceptGrowsLists, AcceptLands
<1>2. original' = original /\ landed = AcceptedHunks /\ ToSet(landed') = A \cup ToSet(hs)
  BY <1>1 DEF NothingDropped, Accepting
<1>3. doc' = IF hs = << >> THEN doc
             ELSE ApplyWorkspaceEdit(doc, CandidateToEditRanges(hs, AcceptedHunks))
  BY <1>1 DEF NothingDropped, Landing
<1>4. \A h \in A \cup ToSet(hs) : ~IsDeletion(h) /\ h.start + h.count <= Len(original)
  <2>1. LandedShorter'
    BY AcceptKeepsLanded
  <2>2. (~SomeDeletion /\ ~EndReached /\ LandedShorter => Ordinary(landed))'
    BY LandedOrdinary, PTL
  <2>3. Ordinary(landed)'
    BY <2>1, <2>2
  <2>4. QED
    BY <1>2, <2>3 DEF Ordinary
<1>5. doc = Compose(original, A)
  <2>1. Ordinary(landed)
    BY <1>2, <1>4 DEF Ordinary
  <2>2. ~SomeDeletion /\ ~EndReached
    BY <2>1, OrdinaryLanded DEF IInv
  <2>3. OutputIsComposition
    BY <1>2, <2>2 DEF IInv, OutputIsCompositionElsewhere, SomeDropped
  <2>4. QED
    BY <1>2, <2>3 DEF OutputIsComposition
<1>6. CandidateFits(c)
  BY ShapesFit DEF IInv
<1>7. Filling(A) /\ Filling(ToSet(hs))
  <2>1. ASSUME NEW h \in A PROVE NewLines(h) # << >>
    BY <1>4, AcceptedFilling
  <2>2. ASSUME NEW h \in ToSet(hs) PROVE NewLines(h) # << >>
    BY <1>4, <1>6 DEF CandidateFits, NewLines
  <2>3. QED
    BY <2>1, <2>2 DEF Filling
<1>8. Fresh(Fragments, original, AcceptedHunks, hs)
  <2>1. Placed(Line, original, AcceptedHunks) /\ Placed(Line, original, hs)
    BY <1>6 DEF IInv, AcceptedPlaced, CandidateFits
  <2>2. NoConflict(c)
    BY DEF Accept
  <2>3. \A h \in ToSet(hs), a \in A : ~HunksConflict(h, a)
    BY <2>2, GuardKeepsAllClear
  <2>4. \A h \in ToSet(hs) : h.start + h.count <= Len(original)
    BY <1>4
  <2>5. QED
    BY <1>7, <2>1, <2>3, <2>4 DEF Fresh, Line
<1>9. CASE hs = << >>
  <2>1. ToSet(hs) = {}
    BY <1>9 DEF ToSet
  <2>2. QED
    BY <1>2, <1>3, <1>5, <1>9, <2>1 DEF OutputIsComposition
<1>10. CASE hs # << >>
  <2>1. Compose(original, A) # << >>
    BY <1>8, <1>10, SomethingThere
  <2>2. ApplyWorkspaceEdit(Compose(original, A), CandidateToEditRanges(hs, AcceptedHunks))
          = Compose(original, A \cup ToSet(hs))
    BY <1>8, <2>1, EditsCompose
  <2>3. QED
    BY <1>2, <1>3, <1>5, <1>10, <2>2 DEF OutputIsComposition
<1>11. QED
  BY <1>9, <1>10

-----------------------------------------------------------------------------
(***************************************************************************)
(* The theorems.                                                           *)
(***************************************************************************)
\* Every step keeps the inductive invariant.
LEMMA NextKeepsIInv == IInv /\ [Next]_vars => IInv'
<1> SUFFICES ASSUME IInv, [Next]_vars PROVE IInv'
  OBVIOUS
<1>1. CASE Next
  <2>1. PICK c \in Candidates : Accept(c)
    BY <1>1 DEF Next
  <2>2. TypeOK' /\ ShapesKept' /\ AcceptedApart'
    BY <2>1, AcceptKeepsApart
  <2>3. AcceptedPlaced' /\ LandedShorter' /\ OutputIsCompositionElsewhere'
    BY <2>1, AcceptKeepsPlaced, AcceptKeepsLanded, AcceptKeepsOutput
  <2>4. QED
    BY <2>2, <2>3 DEF IInv
<1>2. CASE UNCHANGED vars
  <2>1. original' = original /\ hunks' = hunks /\ accepted' = accepted /\ landed' = landed /\ doc' = doc
    BY <1>2 DEF vars
  <2>2. AcceptedHunks' = AcceptedHunks
    BY <2>1 DEF AcceptedHunks
  <2>3. TypeOK' /\ ShapesKept' /\ AcceptedApart'
    BY <2>1 DEF IInv, TypeOK, ShapesKept, AcceptedApart
  <2>4. AcceptedPlaced' /\ LandedShorter'
    BY <2>1, <2>2 DEF IInv, AcceptedPlaced, LandedShorter
  <2>5. OutputIsCompositionElsewhere'
    BY <2>1, <2>2 DEF IInv, OutputIsCompositionElsewhere, OutputIsComposition, SomeDeletion,
                      SomeDropped, EndReached
  <2>6. QED
    BY <2>3, <2>4, <2>5 DEF IInv
<1>3. QED
  BY <1>1, <1>2

\* So it holds in every reachable state.
LEMMA AlwaysIInv == Spec => []IInv
  BY InitIInv, NextKeepsIInv, PTL DEF Spec

\* The accepted list only ever holds candidates of the scan.
THEOREM TypeCorrect == Spec => []TypeOK
<1>1. IInv => TypeOK
  BY DEF IInv
<1>2. QED
  BY <1>1, AlwaysIInv, PTL

\* D-004 for every number of candidates: accepted hunks are totally ordered by the
\* relation the offsets are computed from.
THEOREM AcceptedAlwaysOrdered == Spec => []AcceptedOrdered
<1>1. IInv => AcceptedOrdered
  <2> SUFFICES ASSUME IInv, NEW i \in DOMAIN accepted, NEW j \in DOMAIN accepted, i # j,
                      NEW a \in ToSet(hunks[accepted[i]]),
                      NEW b \in ToSet(hunks[accepted[j]])
               PROVE  LiesAbove(a, b.start) # LiesAbove(b, a.start)
    BY DEF AcceptedOrdered
  <2>1. TypeOK /\ ShapesKept /\ accepted[i] \in Candidates /\ accepted[j] \in Candidates
    BY DEF IInv, TypeOK
  <2>2. CandidateFits(accepted[i]) /\ CandidateFits(accepted[j])
    BY <2>1, ShapesFit
  <2>3. a \in HunksOver(Line)
    BY <2>2, ListElements DEF CandidateFits, Placed
  <2>4. b \in HunksOver(Line)
    BY <2>2, ListElements DEF CandidateFits, Placed
  <2>5. Hunk(a) /\ Hunk(b)
    BY <2>3, <2>4 DEF Hunk, HunksOver
  <2>6. ~HunksConflict(a, b)
    BY DEF IInv, AcceptedApart
  <2>7. QED
    BY <2>5, <2>6, ExactlyOneAbove
<1>2. QED
  BY <1>1, AlwaysIInv, PTL

\* README:5 for every number of candidates, every text and every order of the
\* accepts: where no hunk deletes, none was dropped and none reaches below the last
\* line, the document is Original C with the accepted hunks put in.
THEOREM OutputAlwaysComposition == Spec => []OutputIsCompositionElsewhere
<1>1. IInv => OutputIsCompositionElsewhere
  BY DEF IInv
<1>2. QED
  BY <1>1, AlwaysIInv, PTL

\* STATE_MODEL §6 for every number of candidates and every text: unless two accepted
\* hunks start together, applyHunks on the snapshot gives Original C with the
\* accepted hunks put in, whatever the order of the accepts.
THEOREM ExportAlwaysComposition == Spec => []ExportIsCompositionElsewhere
<1>1. IInv => ExportIsCompositionElsewhere
  <2> SUFFICES ASSUME IInv, ~SharedStart
               PROVE  ApplyHunks(original, AcceptedHunks) = Compose(original, ToSet(AcceptedHunks))
    BY DEF ExportIsCompositionElsewhere
  <2>1. Placed(Line, original, AcceptedHunks)
    BY DEF IInv, AcceptedPlaced
  <2>2. AcceptedHunks \in Seq(HunksOver(Line))
    BY <2>1 DEF Placed
  <2>3. DOMAIN AcceptedHunks = 1..Len(AcceptedHunks)
    BY <2>2
  <2>4. \A i, j \in 1..Len(AcceptedHunks) :
          i # j => AcceptedHunks[i].start # AcceptedHunks[j].start
    BY <2>3 DEF SharedStart
  <2>5. QED
    BY <2>1, <2>4, ExportComposes
<1>2. QED
  BY <1>1, AlwaysIInv, PTL

-----------------------------------------------------------------------------
(***************************************************************************)
(* No #include comes twice: texts and their parts.                         *)
(***************************************************************************)
\* The #include lines of a text.
Includes(t) == {t[i] : i \in {k \in 1..Len(t) : IsInclude(t[k])}}

\* No #include line comes twice in the text.
Once(t) == \A i, j \in 1..Len(t) : IsInclude(t[i]) /\ t[i] = t[j] => i = j

\* The #include lines of a text are those of its lines that are one.
LEMMA IncludesAre ==
  ASSUME NEW t
  PROVE  \A x : x \in Includes(t) <=> IsInclude(x) /\ \E i \in 1..Len(t) : x = t[i]
<1>1. ASSUME NEW x, x \in Includes(t)
      PROVE  IsInclude(x) /\ \E i \in 1..Len(t) : x = t[i]
  <2>1. PICK i \in {k \in 1..Len(t) : IsInclude(t[k])} : x = t[i]
    BY <1>1 DEF Includes
  <2>2. i \in 1..Len(t) /\ IsInclude(t[i])
    BY <2>1
  <2>3. QED
    BY <2>1, <2>2
<1>2. ASSUME NEW x, IsInclude(x), NEW i \in 1..Len(t), x = t[i]
      PROVE  x \in Includes(t)
  <2>1. i \in {k \in 1..Len(t) : IsInclude(t[k])}
    BY <1>2
  <2>2. QED
    BY <1>2, <2>1 DEF Includes
<1>3. QED
  BY <1>1, <1>2

\* A text with no #include twice, and none but those of A.
OnceOver(c, A) == Once(c) /\ Includes(c) \subseteq A

\* Two texts that share no #include have none twice when put one behind the other.
LEMMA OnceJoined ==
  ASSUME NEW L, NEW a \in Seq(L), NEW b \in Seq(L), Once(a), Once(b),
         Includes(a) \cap Includes(b) = {}
  PROVE  OnceOver(a \o b, Includes(a) \cup Includes(b))
<1> DEFINE c == a \o b
<1>1. /\ c \in Seq(L) /\ Len(c) = Len(a) + Len(b)
      /\ \A i \in 1..Len(a) : c[i] = a[i]
      /\ \A i \in 1..Len(b) : c[Len(a) + i] = b[i]
  BY ConcatGives DEF Joined
<1>2. Len(a) \in Nat /\ Len(b) \in Nat
  OBVIOUS
<1> HIDE DEF c
<1>3. ASSUME NEW i \in 1..Len(c)
      PROVE  \/ i \in 1..Len(a) /\ c[i] = a[i]
             \/ i - Len(a) \in 1..Len(b) /\ c[i] = b[i - Len(a)]
  <2>1. CASE i <= Len(a)
    BY <1>1, <1>2, <2>1
  <2>2. CASE i > Len(a)
    <3>1. i - Len(a) \in 1..Len(b) /\ Len(a) + (i - Len(a)) = i
      BY <1>1, <1>2, <2>2
    <3>2. QED
      BY <1>1, <3>1
  <2>3. QED
    BY <1>2, <2>1, <2>2
<1>4. ASSUME NEW i \in 1..Len(c), NEW j \in 1..Len(c), IsInclude(c[i]), c[i] = c[j]
      PROVE  i = j
  <2>1. CASE i \in 1..Len(a) /\ c[i] = a[i] /\ j \in 1..Len(a) /\ c[j] = a[j]
    BY <1>4, <2>1 DEF Once
  <2>2. CASE i \in 1..Len(a) /\ c[i] = a[i] /\ j - Len(a) \in 1..Len(b) /\ c[j] = b[j - Len(a)]
    <3>1. c[i] \in Includes(a) /\ c[i] \in Includes(b)
      BY <1>4, <2>2, IncludesAre
    <3>2. QED
      BY <3>1
  <2>3. CASE j \in 1..Len(a) /\ c[j] = a[j] /\ i - Len(a) \in 1..Len(b) /\ c[i] = b[i - Len(a)]
    <3>1. c[i] \in Includes(a) /\ c[i] \in Includes(b)
      BY <1>4, <2>3, IncludesAre
    <3>2. QED
      BY <3>1
  <2>4. CASE i - Len(a) \in 1..Len(b) /\ c[i] = b[i - Len(a)] /\ j - Len(a) \in 1..Len(b) /\ c[j] = b[j - Len(a)]
    <3>1. i - Len(a) = j - Len(a)
      BY <1>4, <2>4 DEF Once
    <3>2. QED
      BY <1>2, <3>1
  <2>5. QED
    BY <1>3, <2>1, <2>2, <2>3, <2>4
<1>5. ASSUME NEW x \in Includes(c) PROVE x \in Includes(a) \cup Includes(b)
  <2>1. PICK i \in 1..Len(c) : x = c[i] /\ IsInclude(x)
    BY IncludesAre
  <2>2. CASE i \in 1..Len(a) /\ c[i] = a[i]
    BY <2>1, <2>2, IncludesAre
  <2>3. CASE i - Len(a) \in 1..Len(b) /\ c[i] = b[i - Len(a)]
    BY <2>1, <2>3, IncludesAre
  <2>4. QED
    BY <1>3, <2>2, <2>3
<1>6. Once(c)
  BY <1>4 DEF Once
<1>7. QED
  BY <1>5, <1>6 DEF OnceOver, c

\* s is lines m..n of t.
PartOf(L, t, m, n, s) ==
  /\ s \in Seq(L) /\ Len(s) = IF m <= n THEN n - m + 1 ELSE 0
  /\ \A i \in 1..Len(s) : m + i - 1 \in 1..Len(t) /\ m + i - 1 <= n /\ s[i] = t[m + i - 1]

\* SubSeq takes lines m..n.
LEMMA SubSeqIsPart ==
  ASSUME NEW L, NEW t \in Seq(L), NEW m \in Nat \ {0}, NEW n \in 0..Len(t)
  PROVE  PartOf(L, t, m, n, SubSeq(t, m, n))
<1> DEFINE s == SubSeq(t, m, n)
<1>1. m \in Int /\ n \in Int /\ \A i \in m..n : i \in 1..Len(t) /\ t[i] \in L
  OBVIOUS
<1>2. /\ s \in Seq(L)
      /\ Len(s) = IF m <= n THEN n - m + 1 ELSE 0
      /\ \A i \in 1..n - m + 1 : s[i] = t[m + i - 1]
  BY <1>1, SubSeqProperties
<1> HIDE DEF s
<1>3. ASSUME NEW i \in 1..Len(s)
      PROVE  m + i - 1 \in 1..Len(t) /\ m + i - 1 <= n /\ s[i] = t[m + i - 1]
  <2>1. i \in 1..n - m + 1 /\ m + i - 1 \in m..n
    BY <1>1, <1>2
  <2>2. QED
    BY <1>1, <1>2, <2>1
<1>4. QED
  BY <1>2, <1>3 DEF PartOf, s

\* A part of a text has no #include twice when the text has none.
LEMMA OnceInPart ==
  ASSUME NEW L, NEW t \in Seq(L), NEW m \in Nat \ {0}, NEW n \in 0..Len(t), Once(t)
  PROVE  OnceOver(SubSeq(t, m, n), Includes(t))
<1> DEFINE s == SubSeq(t, m, n)
<1>1. \A i \in 1..Len(s) : m + i - 1 \in 1..Len(t) /\ s[i] = t[m + i - 1]
  BY SubSeqIsPart DEF PartOf
<1> HIDE DEF s
<1>2. ASSUME NEW i \in 1..Len(s), NEW j \in 1..Len(s), IsInclude(s[i]), s[i] = s[j]
      PROVE  i = j
  <2>1. m + i - 1 = m + j - 1
    BY <1>1, <1>2 DEF Once
  <2>2. QED
    BY <2>1
<1>3. ASSUME NEW x \in Includes(s) PROVE x \in Includes(t)
  <2>1. PICK i \in 1..Len(s) : x = s[i] /\ IsInclude(x)
    BY IncludesAre
  <2>2. QED
    BY <1>1, <2>1, IncludesAre
<1>4. QED
  BY <1>2, <1>3 DEF OnceOver, Once, s

\* Two parts of such a text, one behind the other, share no #include.
LEMMA PartsShareNone ==
  ASSUME NEW L, NEW t \in Seq(L), Once(t), NEW m \in Nat \ {0}, NEW n \in 0..Len(t),
         NEW k \in Nat \ {0}, NEW l \in 0..Len(t), n < k
  PROVE  Includes(SubSeq(t, m, n)) \cap Includes(SubSeq(t, k, l)) = {}
<1> DEFINE a == SubSeq(t, m, n)
           b == SubSeq(t, k, l)
<1>1. \A i \in 1..Len(a) : m + i - 1 \in 1..Len(t) /\ m + i - 1 <= n /\ a[i] = t[m + i - 1]
  BY SubSeqIsPart DEF PartOf
<1>2. \A i \in 1..Len(b) : k + i - 1 \in 1..Len(t) /\ b[i] = t[k + i - 1]
  BY SubSeqIsPart DEF PartOf
<1> HIDE DEF a, b
<1>3. ASSUME NEW x, x \in Includes(a), x \in Includes(b) PROVE FALSE
  <2>1. PICK i \in 1..Len(a) : x = a[i] /\ IsInclude(x)
    BY <1>3, IncludesAre
  <2>2. PICK j \in 1..Len(b) : x = b[j]
    BY <1>3, IncludesAre
  <2>3. m + i - 1 = k + j - 1
    BY <1>1, <1>2, <2>1, <2>2 DEF Once
  <2>4. m + i - 1 <= n
    BY <1>1
  <2>5. QED
    BY <2>3, <2>4
<1>4. QED
  BY <1>3 DEF a, b

-----------------------------------------------------------------------------
(***************************************************************************)
(* No #include comes twice: one text edit.  Its text stands between the    *)
(* lines above and below it, its last line glued to what is left of the    *)
(* line it ends in.                                                        *)
(***************************************************************************)
\* A document no #include comes twice in, its last line not one of them.
OnceText(t) == t # << >> /\ Once(t) /\ ~IsInclude(t[Len(t)])

\* The #include of a text of one line is that line.
LEMMA OneLine ==
  ASSUME NEW x
  PROVE  Once(<<x>>) /\ \A y : y \in Includes(<<x>>) <=> y = x /\ IsInclude(x)
<1> DEFINE s == <<x>>
<1>1. Len(s) = 1 /\ \A i \in 1..Len(s) : i = 1 /\ s[i] = x
  OBVIOUS
<1>2. 1 \in 1..Len(s) /\ s[1] = x
  OBVIOUS
<1> HIDE DEF s
<1>3. Once(s)
  BY <1>1 DEF Once
<1>4. \A y : y \in Includes(s) <=> y = x /\ IsInclude(x)
  BY <1>1, <1>2, IncludesAre
<1>5. QED
  BY <1>3, <1>4 DEF s

\* A line glued to a beginning that is no #include is one only if that beginning is empty.
LEMMA Glued ==
  ASSUME NEW F, NEW a \in Lines(F), NEW b \in Lines(F), ~IsInclude(a), IsInclude(a \o b)
  PROVE  a \o b = b
<1>1. a \in Seq(F) /\ b \in Seq(F)
  BY DEF Lines
<1>2. CASE a = << >>
  BY <1>1, <1>2, ConcatEmptySeq
<1>3. CASE a # << >>
  <2>1. Len(a) \in Nat /\ 1 \in 1..Len(a) /\ Head(a) = a[1]
    BY <1>1, <1>3
  <2>2. Joined(F, a, b, a \o b)
    BY <1>1, ConcatGives
  <2>3. (a \o b)[1] = a[1] /\ a \o b \in Seq(F) /\ Len(a \o b) = Len(a) + Len(b)
    BY <2>1, <2>2 DEF Joined
  <2>4. Head(a \o b) = Head(a)
    <3> DEFINE c == a \o b
    <3>1. c \in Seq(F) /\ Len(c) = Len(a) + Len(b) /\ c[1] = a[1] /\ Len(b) \in Nat
      BY <1>1, <2>3
    <3> HIDE DEF c
    <3>2. Head(c) = c[1]
      BY <2>1, <3>1
    <3>3. QED
      BY <2>1, <3>1, <3>2 DEF c
  <2>5. IsInclude(a)
    BY <1>3, <2>4 DEF IsInclude, Blank
  <2>6. QED
    BY <2>5
<1>4. QED
  BY <1>2, <1>3

\* What an edit leaves, in four pieces: the lines above, the text of the edit,
\* its glued last line and the lines below.
LEMMA FourOnce ==
  ASSUME NEW L, NEW a \in Seq(L), NEW y \in Seq(L), NEW b \in Seq(L), NEW c \in Seq(L),
         NEW A, NEW U, A \cap U = {},
         OnceOver(a, A), OnceOver(y, U), OnceOver(b, U), OnceOver(c, A),
         Includes(a) \cap Includes(c) = {}, Includes(y) \cap Includes(b) = {}
  PROVE  OnceOver(((a \o y) \o b) \o c, A \cup U)
<1> DEFINE p == a \o y
           q == p \o b
           r == q \o c
<1>1. p \in Seq(L) /\ OnceOver(p, Includes(a) \cup Includes(y))
  BY OnceJoined DEF OnceOver
<1> HIDE DEF p
<1>2. Includes(p) \cap Includes(b) = {}
  BY <1>1 DEF OnceOver
<1>3. q \in Seq(L) /\ OnceOver(q, Includes(p) \cup Includes(b))
  BY <1>1, <1>2, OnceJoined DEF OnceOver
<1> HIDE DEF q
<1>4. Includes(q) \cap Includes(c) = {}
  BY <1>1, <1>3 DEF OnceOver
<1>5. OnceOver(r, Includes(q) \cup Includes(c))
  BY <1>3, <1>4, OnceJoined DEF OnceOver
<1>6. Includes(q) \cup Includes(c) \subseteq A \cup U
  BY <1>1, <1>3 DEF OnceOver
<1>7. QED
  BY <1>5, <1>6 DEF OnceOver, r, q, p

\* An edit leaves a document with no #include twice and brings none but its own.
EditedOnce(t, e) ==
  /\ OnceText(ApplyTextEdit(t, e))
  /\ Includes(ApplyTextEdit(t, e)) \subseteq Includes(t) \cup Includes(e.text)

\* A text edit whose #includes are new to the document leaves none twice.
LEMMA EditKeepsOnce ==
  ASSUME NEW F, NEW t \in Texts(F), NEW e \in Edits(F), e.startLine <= e.endLine,
         OnceText(t), Once(e.text), Includes(t) \cap Includes(e.text) = {}
  PROVE  EditedOnce(t, e)
<1> DEFINE L == Lines(F)
           n == Len(t)
           u == e.text
           s == IF e.startLine < n THEN e.startLine ELSE n - 1
           before == SubSeq(t, 1, s)
           head == IF e.startLine < n THEN Blank ELSE t[n]
           tail == IF e.endLine < n THEN SubSeq(t, e.endLine + 1, n) ELSE <<Blank>>
           mid == SubSeq(u, 2, Len(u) - 1)
           y == <<head \o Head(u)>>
<1>1. /\ t \in Seq(L) /\ n \in Nat /\ n > 0 /\ e.startLine \in Nat /\ e.endLine \in Nat
      /\ u \in Seq(L) /\ Len(u) >= 2 /\ Len(u) \in Nat
  BY DEF Texts, Edits
<1>2. ApplyTextEdit(t, e) = ((before \o y) \o mid) \o tail
  BY DEF ApplyTextEdit
<1>3. Once(t) /\ ~IsInclude(t[n])
  BY DEF OnceText
<1>4. Blank \in L /\ ~IsInclude(Blank) /\ t[n] \in L /\ u[1] \in L /\ Head(u) = u[1]
  <2>1. Blank \in L
    BY DEF Blank, Lines
  <2>2. ~IsInclude(Blank)
    BY DEF IsInclude
  <2>3. t[n] \in L /\ u[1] \in L
    BY <1>1
  <2>4. Head(u) = u[1]
    BY <1>1
  <2>5. QED
    BY <2>1, <2>2, <2>3, <2>4
<1>5. head \in L /\ ~IsInclude(head)
  BY <1>3, <1>4
<1>6. s \in 0..n /\ s < e.endLine + 1 /\ e.endLine + 1 \in Nat \ {0}
  BY <1>1
<1> HIDE DEF head, s, L
<1>7. before \in Seq(L) /\ OnceOver(before, Includes(t))
  <2>1. 1 \in Nat \ {0}
    OBVIOUS
  <2>2. PartOf(L, t, 1, s, before)
    BY <1>1, <1>6, <2>1, SubSeqIsPart
  <2>3. QED
    BY <1>1, <1>3, <1>6, <2>1, <2>2, OnceInPart DEF PartOf
<1>8. mid \in Seq(L) /\ OnceOver(mid, Includes(u))
  <2>1. 2 \in Nat \ {0} /\ Len(u) - 1 \in 0..Len(u)
    BY <1>1
  <2> HIDE DEF u
  <2>2. PartOf(L, u, 2, Len(u) - 1, mid)
    BY <1>1, <2>1, SubSeqIsPart
  <2>3. Once(u)
    BY DEF u
  <2>4. QED
    BY <1>1, <2>1, <2>2, <2>3, OnceInPart DEF PartOf
<1>9. y \in Seq(L) /\ OnceOver(y, Includes(u)) /\ Includes(y) \subseteq {u[1]}
  <2> DEFINE x == head \o Head(u)
  <2>1. IsInclude(x) => x = u[1]
    BY <1>4, <1>5, Glued DEF L
  <2>2. x \in L
    BY <1>4, <1>5 DEF L, Lines
  <2>3. u[1] \in Includes(u) \/ ~IsInclude(u[1])
    <3>1. 1 \in 1..Len(u)
      BY <1>1
    <3>2. QED
      BY <3>1, IncludesAre
  <2> HIDE DEF x, u
  <2>4. Once(<<x>>) /\ Includes(<<x>>) \subseteq {u[1]} /\ Includes(<<x>>) \subseteq Includes(u)
    BY <2>1, <2>3, OneLine
  <2>5. <<x>> \in Seq(L)
    BY <2>2
  <2>6. QED
    BY <2>4, <2>5 DEF OnceOver, x
<1>10. Includes(y) \cap Includes(mid) = {}
  <2>1. ASSUME u[1] \in Includes(mid) PROVE FALSE
    <3>1. 2 \in Nat \ {0} /\ Len(u) - 1 \in 0..Len(u) /\ 1 \in 1..Len(u)
      BY <1>1
    <3> HIDE DEF u
    <3>2. PartOf(L, u, 2, Len(u) - 1, mid)
      BY <1>1, <3>1, SubSeqIsPart
    <3> HIDE DEF mid
    <3>3. PICK i \in 1..Len(mid) : u[1] = mid[i] /\ IsInclude(u[1])
      BY <2>1, IncludesAre
    <3>4. 2 + i - 1 \in 1..Len(u) /\ u[1] = u[2 + i - 1]
      BY <3>2, <3>3 DEF PartOf
    <3>5. 1 = 2 + i - 1
      BY <3>1, <3>3, <3>4 DEF Once, u
    <3>6. QED
      BY <3>5
  <2>2. QED
    BY <1>9, <2>1
<1>11. /\ tail \in Seq(L) /\ tail # << >> /\ ~IsInclude(tail[Len(tail)])
       /\ OnceOver(tail, Includes(t)) /\ Includes(before) \cap Includes(tail) = {}
  <2>1. CASE e.endLine < n
    <3> DEFINE k == e.endLine + 1
               w == SubSeq(t, k, n)
    <3>1. k \in Nat \ {0} /\ n \in 0..Len(t) /\ k <= n /\ s < k
      BY <1>1, <1>6, <2>1
    <3> HIDE DEF k
    <3>2. PartOf(L, t, k, n, w)
      BY <1>1, <3>1, SubSeqIsPart
    <3>3. OnceOver(w, Includes(t))
      BY <1>1, <1>3, <3>1, OnceInPart
    <3>4. Includes(before) \cap Includes(w) = {}
      BY <1>1, <1>3, <1>6, <3>1, PartsShareNone
    <3> HIDE DEF w
    <3>5. w \in Seq(L) /\ Len(w) = n - k + 1 /\ Len(w) \in 1..Len(w)
      BY <1>1, <3>1, <3>2 DEF PartOf
    <3>6. w[Len(w)] = t[n]
      <4>1. k + Len(w) - 1 = n
        BY <1>1, <3>1, <3>5
      <4>2. w[Len(w)] = t[k + Len(w) - 1]
        BY <3>2, <3>5 DEF PartOf
      <4>3. QED
        BY <4>1, <4>2
    <3>7. w # << >>
      BY <3>5
    <3>8. tail = w
      BY <2>1 DEF w, k
    <3> HIDE DEF tail
    <3>9. QED
      BY <1>3, <3>3, <3>4, <3>5, <3>6, <3>7, <3>8
  <2>2. CASE ~(e.endLine < n)
    <3> DEFINE w == <<Blank>>
    <3>1. w \in Seq(L) /\ w # << >> /\ w[Len(w)] = Blank
      BY <1>4
    <3>2. Once(w) /\ Includes(w) = {}
      BY <1>4, OneLine
    <3>3. tail = w
      BY <2>2
    <3> HIDE DEF tail, w
    <3>4. QED
      BY <1>4, <3>1, <3>2, <3>3 DEF OnceOver
  <2>3. QED
    BY <2>1, <2>2
<1>12. Includes(t) \cap Includes(u) = {}
  OBVIOUS
<1> HIDE DEF before, mid, y, tail, u, n
<1> DEFINE q == (before \o y) \o mid
           r == q \o tail
<1>13. OnceOver(r, Includes(t) \cup Includes(u))
  BY <1>7, <1>8, <1>9, <1>10, <1>11, <1>12, FourOnce
<1>14. q \in Seq(L)
  <2>1. before \o y \in Seq(L)
    BY <1>7, <1>9
  <2>2. QED
    BY <1>8, <2>1
<1> HIDE DEF q
<1>15. r # << >> /\ r[Len(r)] = tail[Len(tail)]
  <2>1. Joined(L, q, tail, q \o tail)
    BY <1>11, <1>14, ConcatGives
  <2>2. Len(tail) \in Nat /\ Len(tail) \in 1..Len(tail) /\ Len(q) \in Nat
    BY <1>11, <1>14
  <2> HIDE DEF r
  <2>3. /\ r \in Seq(L) /\ Len(r) = Len(q) + Len(tail)
        /\ \A i \in 1..Len(tail) : r[Len(q) + i] = tail[i]
    BY <2>1 DEF Joined, r
  <2>4. r[Len(q) + Len(tail)] = tail[Len(tail)]
    BY <2>2, <2>3
  <2>5. r # << >>
    BY <2>2, <2>3
  <2>6. QED
    BY <2>3, <2>4, <2>5
<1>16. ApplyTextEdit(t, e) = r
  BY <1>2 DEF q
<1> HIDE DEF r
<1>17. OnceText(r)
  BY <1>11, <1>13, <1>15 DEF OnceText, OnceOver
<1>18. QED
  BY <1>13, <1>16, <1>17 DEF EditedOnce, OnceOver, u

-----------------------------------------------------------------------------
(***************************************************************************)
(* No #include comes twice: all edits of an accept, sorted lowest first.   *)
(***************************************************************************)
\* Any two elements of s, in either order, are related.
EachTwo(s, R) == \A i, j \in 1..Len(s) : i # j => <<s[i], s[j]>> \in R

\* r is made of elements of s, any two of them related.
SortedTwo(E, s, r, R) ==
  /\ r \in Seq(E) /\ EachTwo(r, R)
  /\ \A i \in 1..Len(r) : \E m \in 1..Len(s) : r[i] = s[m]

\* Sorting keeps what holds of any two elements.
LEMMA SortKeepsPairs ==
  ASSUME NEW E, NEW s \in Seq(E), NEW ahead, NEW R, EachTwo(s, R)
  PROVE  SortedTwo(E, s, SortedBy(s, ahead), R)
<1>1. PICK f \in [0..Len(s) -> Seq(E)] :
           /\ f[0] = << >>
           /\ \A k \in 0..Len(s)-1 : f[k + 1] = PutBehind(f[k], s[k + 1], ahead)
           /\ SortedBy(s, ahead) = f[Len(s)]
  <2>1. SortRun(E, s, ahead)
    BY SortFold
  <2>2. QED
    BY <2>1 DEF SortRun
<1> DEFINE From(r, k) == \A i \in 1..Len(r) : \E m \in 1..k : r[i] = s[m]
           S == {k \in Nat : k <= Len(s) => EachTwo(f[k], R) /\ From(f[k], k)}
<1>2. Len(s) \in Nat
  OBVIOUS
<1>3. 0 \in S
  <2>1. f[0] = << >> /\ Len(<< >>) = 0
    BY <1>1
  <2>2. EachTwo(f[0], R) /\ From(f[0], 0)
    BY <2>1 DEF EachTwo
  <2>3. QED
    BY <2>2
<1>4. ASSUME NEW k \in Nat, k \in S PROVE k + 1 \in S
  <2> SUFFICES ASSUME k + 1 <= Len(s) PROVE EachTwo(f[k + 1], R) /\ From(f[k + 1], k + 1)
    OBVIOUS
  <2> DEFINE old == f[k]
             e == s[k + 1]
             new == f[k + 1]
  <2>1. k \in 0..Len(s)-1 /\ k \in 0..Len(s) /\ k + 1 \in 1..Len(s)
    BY <1>2
  <2>2. old \in Seq(E) /\ e \in E /\ new = PutBehind(old, e, ahead)
    BY <1>1, <2>1
  <2>3. EachTwo(old, R) /\ From(old, k)
    BY <1>2, <1>4
  <2> HIDE DEF old, new, e
  <2>4. PICK m \in 1..Len(old) + 1 : PutBehind(old, e, ahead) = InsertAt(old, m, e)
    BY <2>2, PutBehindGives
  <2>5. /\ Len(new) = Len(old) + 1 /\ new \in Seq(E)
        /\ \A i \in 1..Len(old) + 1 :
             new[i] = IF i < m THEN old[i] ELSE IF i = m THEN e ELSE old[i - 1]
    <3>1. new = InsertAt(old, m, e)
      BY <2>2, <2>4
    <3>2. /\ Len(InsertAt(old, m, e)) = Len(old) + 1 /\ InsertAt(old, m, e) \in Seq(E)
          /\ \A i \in 1..Len(old) + 1 :
               InsertAt(old, m, e)[i] = IF i < m THEN old[i] ELSE IF i = m THEN e ELSE old[i - 1]
      BY <2>2, InsertAtGives
    <3>3. QED
      BY <3>1, <3>2
  <2>6. Len(old) \in Nat
    BY <2>2
  <2> DEFINE at(i) == IF i < m THEN i ELSE i - 1
  <2>7. ASSUME NEW i \in 1..Len(new), i # m PROVE at(i) \in 1..Len(old) /\ new[i] = old[at(i)]
    BY <2>5, <2>6, <2>7
  <2>8. new[m] = e /\ m \in 1..Len(new)
    BY <2>5, <2>6
  <2>9. ASSUME NEW i \in 1..Len(old) PROVE <<old[i], e>> \in R /\ <<e, old[i]>> \in R
    <3>1. PICK l \in 1..k : old[i] = s[l]
      BY <2>3
    <3>2. l \in 1..Len(s) /\ l # k + 1
      BY <2>1, <3>1
    <3>3. QED
      BY <2>1, <3>1, <3>2 DEF EachTwo, e
  <2>10. ASSUME NEW i \in 1..Len(new), NEW j \in 1..Len(new), i # j PROVE <<new[i], new[j]>> \in R
    <3>1. CASE i = m
      <4>1. j # m
        BY <2>10, <3>1
      <4>2. QED
        BY <2>7, <2>8, <2>9, <3>1, <4>1
    <3>2. CASE j = m
      <4>1. i # m
        BY <2>10, <3>2
      <4>2. QED
        BY <2>7, <2>8, <2>9, <3>2, <4>1
    <3>3. CASE i # m /\ j # m
      <4>1. at(i) # at(j)
        BY <2>10, <3>3
      <4> HIDE DEF at
      <4>2. /\ at(i) \in 1..Len(old) /\ at(j) \in 1..Len(old)
            /\ new[i] = old[at(i)] /\ new[j] = old[at(j)]
        BY <2>7, <3>3
      <4>3. QED
        BY <2>3, <4>1, <4>2 DEF EachTwo
    <3>4. QED
      BY <3>1, <3>2, <3>3
  <2>11. ASSUME NEW i \in 1..Len(new) PROVE \E l \in 1..k + 1 : new[i] = s[l]
    <3>1. CASE i = m
      <4>1. k + 1 \in 1..k + 1 /\ new[i] = s[k + 1]
        BY <2>8, <3>1 DEF e
      <4>2. QED
        BY <4>1
    <3>2. CASE i # m
      <4>1. PICK l \in 1..k : new[i] = s[l]
        <5> HIDE DEF at
        <5>1. QED
          BY <2>3, <2>7, <3>2
      <4>2. l \in 1..k + 1
        OBVIOUS
      <4>3. QED
        BY <4>1, <4>2
    <3>3. QED
      BY <3>1, <3>2
  <2>12. QED
    BY <2>10, <2>11 DEF EachTwo, new
<1>5. Nat \subseteq S
  <2> HIDE DEF S
  <2>1. QED
    BY <1>3, <1>4, Induction
<1>6. EachTwo(f[Len(s)], R) /\ From(f[Len(s)], Len(s))
  BY <1>2, <1>5
<1>7. f[Len(s)] \in Seq(E)
  BY <1>1, <1>2
<1>8. QED
  BY <1>1, <1>6, <1>7 DEF SortedTwo

\* Pairs of edits that bring no #include in common.
Unshared(F) == {p \in Edits(F) \X Edits(F) : Includes(p[1].text) \cap Includes(p[2].text) = {}}

\* The edits X bring each #include once, and none the document t has.
EditsFit(F, t, X) ==
  /\ X \in Seq(Edits(F)) /\ EachTwo(X, Unshared(F))
  /\ \A i \in 1..Len(X) :
       /\ X[i].startLine <= X[i].endLine
       /\ Once(X[i].text) /\ Includes(t) \cap Includes(X[i].text) = {}

\* WorkspaceEdit: applied one after another, lowest first, such edits leave no
\* #include twice.
LEMMA EditsKeepOnce ==
  ASSUME NEW F, NEW t \in Texts(F), OnceText(t), NEW X, EditsFit(F, t, X)
  PROVE  ApplyWorkspaceEdit(t, X) \in Texts(F) /\ OnceText(ApplyWorkspaceEdit(t, X))
<1> DEFINE A == Texts(F)
           E == Edits(F)
           R == Unshared(F)
           b == BottomUp(X)
<1>1. SortedTwo(E, X, b, R)
  BY SortKeepsPairs DEF EditsFit, BottomUp
<1>2. /\ b \in Seq(E) /\ EachTwo(b, R)
      /\ \A i \in 1..Len(b) : /\ b[i].startLine <= b[i].endLine
                              /\ Once(b[i].text) /\ Includes(t) \cap Includes(b[i].text) = {}
  BY <1>1 DEF SortedTwo, EditsFit
<1>3. PICK f \in [0..Len(b) -> A] :
        /\ f[0] = t
        /\ \A k \in 0..Len(b)-1 : f[k + 1] = ApplyTextEdit(f[k], b[k + 1])
        /\ ApplyWorkspaceEdit(t, X) = f[Len(b)]
  <2>1. EditsRun(A, t, X)
    BY <1>2, EditTyped, EditsFold
  <2>2. QED
    BY <2>1 DEF EditsRun
<1> HIDE DEF b
<1> DEFINE Old(k) == \A x \in Includes(f[k]) :
                       x \in Includes(t) \/ \E i \in 1..k : x \in Includes(b[i].text)
           S == {k \in Nat : k <= Len(b) => OnceText(f[k]) /\ Old(k)}
<1>4. Len(b) \in Nat
  BY <1>2
<1>5. 0 \in S
  BY <1>3
<1>6. ASSUME NEW k \in Nat, k \in S PROVE k + 1 \in S
  <2> SUFFICES ASSUME k + 1 <= Len(b) PROVE OnceText(f[k + 1]) /\ Old(k + 1)
    OBVIOUS
  <2> DEFINE e == b[k + 1]
  <2>1. k \in 0..Len(b)-1 /\ k \in 0..Len(b) /\ k + 1 \in 1..Len(b)
    BY <1>4
  <2>2. f[k] \in A /\ e \in E /\ f[k + 1] = ApplyTextEdit(f[k], e)
    BY <1>2, <1>3, <2>1
  <2>3. OnceText(f[k]) /\ Old(k)
    BY <1>4, <1>6
  <2>4. e.startLine <= e.endLine /\ Once(e.text) /\ Includes(t) \cap Includes(e.text) = {}
    BY <1>2, <2>1
  <2>5. \A i \in 1..k : Includes(b[i].text) \cap Includes(e.text) = {}
    <3> SUFFICES ASSUME NEW i \in 1..k PROVE Includes(b[i].text) \cap Includes(e.text) = {}
      OBVIOUS
    <3>1. i \in 1..Len(b) /\ i # k + 1
      BY <2>1
    <3>2. <<b[i], b[k + 1]>> \in R
      BY <1>2, <2>1, <3>1 DEF EachTwo
    <3>3. QED
      BY <3>2 DEF Unshared
  <2> HIDE DEF e, A, E, R
  <2>6. Includes(f[k]) \cap Includes(e.text) = {}
    BY <2>3, <2>4, <2>5
  <2>7. EditedOnce(f[k], e)
    BY <2>2, <2>3, <2>4, <2>6, EditKeepsOnce DEF A, E
  <2>8. OnceText(f[k + 1]) /\ Includes(f[k + 1]) \subseteq Includes(f[k]) \cup Includes(e.text)
    BY <2>2, <2>7 DEF EditedOnce
  <2>9. Old(k + 1)
    <3> SUFFICES ASSUME NEW x \in Includes(f[k + 1]), x \notin Includes(t)
                 PROVE  \E i \in 1..k + 1 : x \in Includes(b[i].text)
      OBVIOUS
    <3>1. CASE x \in Includes(f[k])
      <4>1. PICK i \in 1..k : x \in Includes(b[i].text)
        BY <2>3, <3>1
      <4>2. i \in 1..k + 1
        OBVIOUS
      <4>3. QED
        BY <4>1, <4>2
    <3>2. CASE x \in Includes(e.text)
      <4>1. k + 1 \in 1..k + 1
        OBVIOUS
      <4>2. QED
        BY <3>2, <4>1 DEF e
    <3>3. QED
      BY <2>8, <3>1, <3>2
  <2>10. QED
    BY <2>8, <2>9
<1>7. Nat \subseteq S
  <2> HIDE DEF S
  <2>1. QED
    BY <1>5, <1>6, Induction
<1>8. OnceText(f[Len(b)]) /\ f[Len(b)] \in A
  BY <1>3, <1>4, <1>7
<1>9. QED
  BY <1>3, <1>8

-----------------------------------------------------------------------------
(***************************************************************************)
(* No #include comes twice: the filter (apply/dedupeIncludes.ts) takes     *)
(* lines out and adds none.                                                *)
(***************************************************************************)
\* c is made of elements of s that T chose, no place of s taken twice.
Picked(c, s, T) ==
  \E p \in [1..Len(c) -> 1..Len(s)] :
    /\ \A i, j \in 1..Len(c) : i # j => p[i] # p[j]
    /\ \A i \in 1..Len(c) : T[p[i]] /\ c[i] = s[p[i]]

\* Chosen takes the chosen elements, each place once.
LEMMA ChosenPicks ==
  ASSUME NEW E, NEW s \in Seq(E), NEW T
  PROVE  Picked(Chosen(s, T), s, T)
<1> DEFINE R == [i \in Nat \ {0} |-> IF i <= Len(s) /\ T[i] THEN <<s[i]>> ELSE << >>]
           C(n) == FlattenSeq([i \in 1..n |-> R[i]])
           Good(c, n) == \E p \in [1..Len(c) -> 1..n] :
                           /\ \A i, j \in 1..Len(c) : i # j => p[i] # p[j]
                           /\ \A i \in 1..Len(c) : T[p[i]] /\ c[i] = s[p[i]]
           S == {n \in Nat : n <= Len(s) => Good(C(n), n)}
<1>1. ASSUME NEW i \in Nat \ {0} PROVE R[i] \in Seq(E)
  <2>1. CASE i <= Len(s) /\ T[i]
    <3>1. R[i] = <<s[i]>> /\ s[i] \in E
      BY <2>1
    <3>2. <<s[i]>> \in Seq(E)
      BY <3>1
    <3>3. QED
      BY <3>1, <3>2
  <2>2. CASE ~(i <= Len(s) /\ T[i])
    <3>1. R[i] = << >>
      BY <2>2
    <3>2. << >> \in Seq(E)
      OBVIOUS
    <3>3. QED
      BY <3>1, <3>2
  <2>3. QED
    BY <2>1, <2>2
<1>2. [i \in 1..Len(s) |-> R[i]] = [i \in 1..Len(s) |-> IF T[i] THEN <<s[i]>> ELSE << >>]
  OBVIOUS
<1>3. Chosen(s, T) = C(Len(s))
  BY <1>2 DEF Chosen
<1>4. ASSUME NEW n \in Nat, n < Len(s)
      PROVE  R[n + 1] = IF T[n + 1] THEN <<s[n + 1]>> ELSE << >>
  BY <1>4
<1> HIDE DEF R
<1>5. /\ FlattenSeq([i \in 1..0 |-> R[i]]) = << >>
      /\ \A n \in Nat :
           /\ FlattenSeq([i \in 1..n |-> R[i]]) \in Seq(E)
           /\ FlattenSeq([i \in 1..n + 1 |-> R[i]]) = FlattenSeq([i \in 1..n |-> R[i]]) \o R[n + 1]
  BY <1>1, FlattenSteps
<1>6. C(0) = << >> /\ \A n \in Nat : C(n) \in Seq(E) /\ C(n + 1) = C(n) \o R[n + 1]
  BY <1>5
<1> HIDE DEF C
<1>7. 0 \in S
  <2>1. Len(C(0)) = 0 /\ 1..0 = {}
    BY <1>6
  <2>2. Good(C(0), 0)
    <3> DEFINE p == [i \in 1..0 |-> 0]
    <3>1. p \in [1..Len(C(0)) -> 1..0] /\ \A i \in 1..Len(C(0)) : FALSE
      BY <2>1
    <3>2. QED
      BY <3>1
  <2>3. QED
    BY <2>2
<1>8. ASSUME NEW n \in Nat, n \in S PROVE n + 1 \in S
  <2> SUFFICES ASSUME n + 1 <= Len(s) PROVE Good(C(n + 1), n + 1)
    OBVIOUS
  <2> DEFINE c == C(n)
             d == C(n + 1)
  <2>1. c \in Seq(E) /\ d = c \o R[n + 1] /\ n < Len(s) /\ n <= Len(s) /\ Len(s) \in Nat
    <3>1. c \in Seq(E) /\ d = c \o R[n + 1]
      BY <1>6
    <3>2. Len(s) \in Nat
      OBVIOUS
    <3> HIDE DEF c, d
    <3>3. QED
      BY <3>1, <3>2
  <2>2. PICK p \in [1..Len(c) -> 1..n] :
               /\ \A i, j \in 1..Len(c) : i # j => p[i] # p[j]
               /\ \A i \in 1..Len(c) : T[p[i]] /\ c[i] = s[p[i]]
    BY <1>8, <2>1
  <2> HIDE DEF c, d
  <2>3. CASE ~T[n + 1]
    <3>1. d = c
      <4>1. R[n + 1] = << >>
        BY <1>4, <2>1, <2>3
      <4>2. QED
        BY <2>1, <4>1, ConcatEmptySeq
    <3>2. p \in [1..Len(c) -> 1..n + 1]
      <4>1. 1..n \in SUBSET (1..n + 1)
        OBVIOUS
      <4>2. QED
        BY <4>1
    <3>3. Good(c, n + 1)
      BY <2>2, <3>2
    <3>4. QED
      BY <3>1, <3>3 DEF d
  <2>4. CASE T[n + 1]
    <3> DEFINE e == s[n + 1]
               q == [i \in 1..Len(c) + 1 |-> IF i <= Len(c) THEN p[i] ELSE n + 1]
    <3>1. d = c \o <<e>> /\ e \in E /\ Len(c) \in Nat
      <4>1. R[n + 1] = <<e>>
        BY <1>4, <2>1, <2>4
      <4>2. e \in E
        BY <2>1
      <4>3. QED
        BY <2>1, <4>1, <4>2
    <3>2. Len(d) = Len(c) + 1 /\ d[Len(c) + 1] = e /\ \A i \in 1..Len(c) : d[i] = c[i]
      <4> HIDE DEF e
      <4>1. QED
        BY <2>1, <3>1
    <3>3. ASSUME NEW i \in 1..Len(c) + 1
          PROVE  \/ i \in 1..Len(c) /\ q[i] = p[i] /\ p[i] \in 1..n
                 \/ i = Len(c) + 1 /\ q[i] = n + 1
      BY <3>1
    <3>4. q \in [1..Len(c) + 1 -> 1..n + 1]
      <4>1. \A i \in 1..Len(c) + 1 : q[i] \in 1..n + 1
        BY <3>3
      <4>2. q = [i \in 1..Len(c) + 1 |-> q[i]]
        OBVIOUS
      <4> HIDE DEF q
      <4>3. QED
        BY <4>1, <4>2
    <3> HIDE DEF q
    <3>5. ASSUME NEW i \in 1..Len(d), NEW j \in 1..Len(d), i # j PROVE q[i] # q[j]
      <4>1. i \in 1..Len(c) + 1 /\ j \in 1..Len(c) + 1
        BY <3>2
      <4>2. n + 1 \notin 1..n
        OBVIOUS
      <4>3. CASE i \in 1..Len(c) /\ j \in 1..Len(c)
        <5>1. i # Len(c) + 1 /\ j # Len(c) + 1
          BY <3>1, <4>3
        <5>2. q[i] = p[i] /\ q[j] = p[j]
          BY <3>3, <4>1, <5>1
        <5>3. QED
          BY <2>2, <3>5, <4>3, <5>2
      <4>4. CASE ~(i \in 1..Len(c) /\ j \in 1..Len(c))
        BY <3>3, <3>5, <4>1, <4>2, <4>4
      <4>5. QED
        BY <4>3, <4>4
    <3>6. ASSUME NEW i \in 1..Len(d) PROVE T[q[i]] /\ d[i] = s[q[i]]
      <4>1. i \in 1..Len(c) + 1
        BY <3>2
      <4>2. CASE i \in 1..Len(c) /\ q[i] = p[i]
        BY <2>2, <3>2, <4>2
      <4>3. CASE i = Len(c) + 1 /\ q[i] = n + 1
        BY <2>4, <3>2, <4>3
      <4>4. QED
        BY <3>3, <4>1, <4>2, <4>3
    <3>7. q \in [1..Len(d) -> 1..n + 1]
      BY <3>2, <3>4
    <3>8. Good(d, n + 1)
      BY <3>5, <3>6, <3>7
    <3>9. QED
      BY <3>8 DEF d
  <2>5. QED
    BY <2>3, <2>4
<1>9. Nat \subseteq S
  <2> HIDE DEF S
  <2>1. QED
    BY <1>7, <1>8, Induction
<1>10. Len(s) \in Nat /\ Len(s) <= Len(s)
  OBVIOUS
<1>11. Good(C(Len(s)), Len(s))
  BY <1>9, <1>10
<1>12. QED
  BY <1>3, <1>11 DEF Picked


\* dedupeIncludes drops this line: the document has the #include already.
IsThere(text, line) == IsInclude(line) /\ Contains(text, line)

\* The lines dedupeIncludes leaves of a hunk.
LeftOf(h, text) ==
  IF h.count # 0 THEN h.repl
  ELSE Chosen(h.repl, [i \in 1..Len(h.repl) |-> ~IsThere(text, h.repl[i])])

\* An #include line that is left is not one of the document.
LEMMA NotThere ==
  ASSUME NEW text, NEW x, IsInclude(x), ~IsThere(text, x)
  PROVE  x \notin Includes(text)
<1>1. ~Contains(text, x)
  BY DEF IsThere
<1>2. \A i \in 1..Len(text) : text[i] # x
  BY <1>1 DEF Contains
<1>3. QED
  BY <1>2, IncludesAre

\* What is left of h has no #include twice and none the document has.
LeftOnce(h, text) ==
  OnceOver(LeftOf(h, text), Includes(h.repl)) /\ Includes(text) \cap Includes(LeftOf(h, text)) = {}

\* The filter leaves of every hunk of a candidate #includes new to the document.
LEMMA LeftIsOnce ==
  ASSUME NEW L, NEW hs \in Seq(HunksOver(L)), BringsOnce(hs), NEW m \in 1..Len(hs), NEW text
  PROVE  LeftOnce(hs[m], text)
<1> DEFINE h == hs[m]
           s == h.repl
           K == LeftOf(h, text)
<1>1. h \in HunksOver(L) /\ m \in DOMAIN hs
  OBVIOUS
<1>2. s \in Seq(L) /\ DOMAIN s = 1..Len(s)
  BY <1>1 DEF HunksOver
<1>3. \A k \in 1..Len(s) : IsInclude(s[k]) =>
        h.count = 0 /\ \A l \in 1..Len(s) : s[l] = s[k] => l = k
  BY <1>1, <1>2 DEF BringsOnce
<1> HIDE DEF s, h, K
<1>4. CASE h.count # 0
  <2>1. K = s
    BY <1>4 DEF K, LeftOf, s
  <2>2. \A k \in 1..Len(s) : ~IsInclude(s[k])
    BY <1>3, <1>4
  <2>3. Once(s)
    BY <2>2 DEF Once
  <2>4. Includes(s) = {}
    BY <2>2, IncludesAre
  <2>5. QED
    BY <2>1, <2>3, <2>4 DEF LeftOnce, OnceOver, K, s, h
<1>5. CASE h.count = 0
  <2> DEFINE T == [i \in 1..Len(s) |-> ~IsThere(text, s[i])]
  <2>1. K = Chosen(s, T)
    BY <1>5 DEF K, LeftOf, s
  <2>2. Picked(K, s, T)
    <3> HIDE DEF T
    <3>1. QED
      BY <1>2, <2>1, ChosenPicks
  <2>3. PICK p \in [1..Len(K) -> 1..Len(s)] :
          /\ \A i, j \in 1..Len(K) : i # j => p[i] # p[j]
          /\ \A i \in 1..Len(K) : T[p[i]] /\ K[i] = s[p[i]]
    BY <2>2 DEF Picked
  <2>4. ASSUME NEW i \in 1..Len(K) PROVE ~IsThere(text, K[i]) /\ K[i] = s[p[i]] /\ p[i] \in 1..Len(s)
    BY <2>3
  <2>5. ASSUME NEW i \in 1..Len(K), NEW j \in 1..Len(K), IsInclude(K[i]), K[i] = K[j] PROVE i = j
    <3>1. p[i] \in 1..Len(s) /\ p[j] \in 1..Len(s) /\ IsInclude(s[p[i]]) /\ s[p[j]] = s[p[i]]
      BY <2>4, <2>5
    <3>2. p[j] = p[i]
      BY <1>3, <3>1
    <3>3. QED
      BY <2>3, <3>2
  <2>6. ASSUME NEW x \in Includes(K) PROVE x \in Includes(s) /\ x \notin Includes(text)
    <3>1. PICK i \in 1..Len(K) : x = K[i] /\ IsInclude(x)
      BY IncludesAre
    <3>2. x = s[p[i]] /\ p[i] \in 1..Len(s) /\ ~IsThere(text, x)
      BY <2>4, <3>1
    <3>3. QED
      BY <3>1, <3>2, IncludesAre, NotThere
  <2>7. Once(K)
    BY <2>5 DEF Once
  <2>8. QED
    BY <2>6, <2>7 DEF LeftOnce, OnceOver, K, s, h
<1>6. QED
  BY <1>4, <1>5

\* Two hunks of a candidate bring no #include in common.
LEMMA HunksShareNone ==
  ASSUME NEW L, NEW hs \in Seq(HunksOver(L)), BringsOnce(hs),
         NEW i \in 1..Len(hs), NEW j \in 1..Len(hs), i # j
  PROVE  Includes(hs[i].repl) \cap Includes(hs[j].repl) = {}
<1>1. /\ hs[i].repl \in Seq(L) /\ DOMAIN hs[i].repl = 1..Len(hs[i].repl)
      /\ hs[j].repl \in Seq(L) /\ DOMAIN hs[j].repl = 1..Len(hs[j].repl)
      /\ i \in DOMAIN hs /\ j \in DOMAIN hs
  <2>1. ASSUME NEW h \in HunksOver(L) PROVE h.repl \in Seq(L) /\ DOMAIN h.repl = 1..Len(h.repl)
    <3>1. h.repl \in Seq(L)
      BY DEF HunksOver
    <3>2. QED
      BY <3>1
  <2>2. hs[i] \in HunksOver(L) /\ hs[j] \in HunksOver(L) /\ i \in DOMAIN hs /\ j \in DOMAIN hs
    OBVIOUS
  <2>3. QED
    BY <2>1, <2>2
<1>2. ASSUME NEW x, x \in Includes(hs[i].repl), x \in Includes(hs[j].repl) PROVE FALSE
  <2>1. PICK k \in 1..Len(hs[i].repl) : x = hs[i].repl[k] /\ IsInclude(x)
    BY <1>2, IncludesAre
  <2>2. PICK l \in 1..Len(hs[j].repl) : x = hs[j].repl[l]
    BY <1>2, IncludesAre
  <2>3. j = i
    <3> DEFINE a == hs[i].repl
               b == hs[j].repl
    <3>1. /\ k \in DOMAIN a /\ l \in DOMAIN b /\ i \in DOMAIN hs /\ j \in DOMAIN hs
          /\ IsInclude(a[k]) /\ b[l] = a[k]
      BY <1>1, <2>1, <2>2
    <3>2. \A n \in DOMAIN hs : \A m \in DOMAIN hs[n].repl :
            hs[n].repl[m] = hs[i].repl[k] => n = i /\ m = k
      BY <3>1 DEF BringsOnce
    <3>3. QED
      BY <3>1, <3>2
  <2>4. QED
    BY <2>3
<1>3. QED
  BY <1>2

\* What the filter leaves of a candidate: hunks where the candidate has hunks, with
\* #includes new to the document and none in common.
LeftTogether(L, hs, text, kept) ==
  /\ kept \in Seq(HunksOver(L))
  /\ \A i \in 1..Len(kept) :
       /\ \E m \in 1..Len(hs) : kept[i].start = hs[m].start /\ kept[i].count = hs[m].count
       /\ kept[i].repl # << >> /\ Once(kept[i].repl)
       /\ Includes(text) \cap Includes(kept[i].repl) = {}
  /\ \A i, j \in 1..Len(kept) : i # j => Includes(kept[i].repl) \cap Includes(kept[j].repl) = {}

\* dedupeIncludes leaves that of any candidate that brings its #includes once.
LEMMA DedupeLeaves ==
  ASSUME NEW F, NEW hs \in Seq(HunksOver(Lines(F))), BringsOnce(hs), NEW text,
         \A h \in ToSet(hs) : h.repl # << >>
  PROVE  LeftTogether(Lines(F), hs, text, DedupeIncludes(hs, text))
<1> DEFINE L == Lines(F)
           Present(line) == IsInclude(line) /\ Contains(text, line)
           Staying(h) == IF h.count # 0 THEN h.repl ELSE Where(h.repl, LAMBDA line : ~Present(line))
           Dropped(h) == Staying(h) # h.repl /\ \A i \in DOMAIN Staying(h) : Staying(h)[i] = Blank
           left == Where(hs, LAMBDA h : ~Dropped(h))
           out == [i \in DOMAIN left |-> [left[i] EXCEPT !.repl = Staying(left[i])]]
           T == [i \in 1..Len(hs) |-> ~Dropped(hs[i])]
<1>1. DedupeIncludes(hs, text) = out
  BY DEF DedupeIncludes
<1>2. DOMAIN hs = 1..Len(hs) /\ hs \in Seq(HunksOver(L))
  OBVIOUS
<1>3. out \in Seq(HunksOver(L))
  <2> HIDE DEF out
  <2>1. DedupeIncludes(hs, text) \in Seq(HunksOver(Lines(F)))
    BY DedupeShorter
  <2>2. QED
    BY <1>1, <2>1 DEF L
<1>4. ASSUME NEW h \in HunksOver(L) PROVE Staying(h) = LeftOf(h, text)
  <2>1. h.repl \in Seq(L) /\ DOMAIN h.repl = 1..Len(h.repl)
    BY DEF HunksOver
  <2>2. CASE h.count # 0
    BY <2>2 DEF LeftOf
  <2>3. CASE h.count = 0
    <3> DEFINE s == h.repl
    <3>1. [i \in DOMAIN s |-> IF ~Present(s[i]) THEN <<s[i]>> ELSE << >>]
            = [i \in 1..Len(s) |-> IF [k \in 1..Len(s) |-> ~IsThere(text, s[k])][i]
                                   THEN <<s[i]>> ELSE << >>]
      BY <2>1 DEF IsThere
    <3>2. QED
      BY <2>3, <3>1 DEF Where, Chosen, LeftOf
  <2>4. QED
    BY <2>2, <2>3
<1>5. left = Chosen(hs, T)
  <2> HIDE DEF Dropped
  <2>1. [i \in DOMAIN hs |-> IF ~Dropped(hs[i]) THEN <<hs[i]>> ELSE << >>]
          = [i \in 1..Len(hs) |-> IF T[i] THEN <<hs[i]>> ELSE << >>]
    BY <1>2
  <2>2. QED
    BY <2>1 DEF Where, Chosen
<1>6. ASSUME NEW i \in 1..Len(hs), T[i] PROVE Staying(hs[i]) # << >>
  <2>1. hs[i].repl # << >>
    BY <1>2 DEF ToSet
  <2> HIDE DEF Staying
  <2>2. ~(Staying(hs[i]) # hs[i].repl /\ \A k \in DOMAIN Staying(hs[i]) : Staying(hs[i])[k] = Blank)
    BY <1>6
  <2>3. QED
    BY <2>1, <2>2
<1> HIDE DEF T, Staying, Dropped
<1>7. Picked(left, hs, T)
  <2> HIDE DEF left, L
  <2>1. QED
    BY <1>2, <1>5, ChosenPicks
<1>8. PICK p \in [1..Len(left) -> 1..Len(hs)] :
        /\ \A i, j \in 1..Len(left) : i # j => p[i] # p[j]
        /\ \A i \in 1..Len(left) : T[p[i]] /\ left[i] = hs[p[i]]
  BY <1>7 DEF Picked
<1>9. left \in Seq(HunksOver(L))
  <2> HIDE DEF left, L
  <2>1. QED
    BY <1>2, <1>5, ChosenShorter
<1> HIDE DEF left
<1>10. DOMAIN left = 1..Len(left) /\ Len(out) = Len(left)
  <2>1. DOMAIN left = 1..Len(left) /\ Len(left) \in Nat
    BY <1>9
  <2>2. QED
    BY <2>1
<1>11. ASSUME NEW i \in 1..Len(out)
       PROVE  /\ p[i] \in 1..Len(hs) /\ out[i].start = hs[p[i]].start /\ out[i].count = hs[p[i]].count
              /\ out[i].repl = LeftOf(hs[p[i]], text) /\ out[i].repl # << >>
  <2>1. i \in 1..Len(left) /\ p[i] \in 1..Len(hs) /\ left[i] = hs[p[i]] /\ T[p[i]]
    BY <1>8, <1>10
  <2> DEFINE h == hs[p[i]]
  <2>2. h \in HunksOver(L)
    BY <1>2, <2>1
  <2>3. out[i] = [h EXCEPT !.repl = Staying(h)]
    BY <1>10, <2>1
  <2>4. Staying(h) = LeftOf(h, text) /\ Staying(h) # << >>
    BY <1>4, <1>6, <2>1, <2>2
  <2> HIDE DEF h, out
  <2>5. out[i].start = h.start /\ out[i].count = h.count /\ out[i].repl = Staying(h)
    BY <2>2, <2>3 DEF HunksOver
  <2>6. QED
    BY <2>1, <2>4, <2>5 DEF h
<1> HIDE DEF out
<1>12. ASSUME NEW i \in 1..Len(out)
       PROVE  OnceOver(out[i].repl, Includes(hs[p[i]].repl)) /\ Includes(text) \cap Includes(out[i].repl) = {}
  <2>1. LeftOnce(hs[p[i]], text)
    BY <1>2, <1>11, LeftIsOnce
  <2>2. QED
    BY <1>11, <2>1 DEF LeftOnce
<1>13. ASSUME NEW i \in 1..Len(out), NEW j \in 1..Len(out), i # j
       PROVE  Includes(out[i].repl) \cap Includes(out[j].repl) = {}
  <2>1. p[i] # p[j] /\ p[i] \in 1..Len(hs) /\ p[j] \in 1..Len(hs)
    BY <1>8, <1>10, <1>11, <1>13
  <2>2. Includes(hs[p[i]].repl) \cap Includes(hs[p[j]].repl) = {}
    BY <1>2, <2>1, HunksShareNone
  <2>3. QED
    BY <1>12, <2>2 DEF OnceOver
<1>14. LeftTogether(L, hs, text, out)
  <2>1. ASSUME NEW i \in 1..Len(out)
        PROVE  /\ \E m \in 1..Len(hs) : out[i].start = hs[m].start /\ out[i].count = hs[m].count
               /\ out[i].repl # << >> /\ Once(out[i].repl)
               /\ Includes(text) \cap Includes(out[i].repl) = {}
    BY <1>11, <1>12 DEF OnceOver
  <2> HIDE DEF L
  <2>2. QED
    BY <1>3, <1>13, <2>1 DEF LeftTogether
<1>15. QED
  BY <1>1, <1>14 DEF L

-----------------------------------------------------------------------------
(***************************************************************************)
(* No #include comes twice: every accept keeps it.                         *)
(***************************************************************************)
\* The final newline of an edit brings no #include.
LEMMA NewTextOnce ==
  ASSUME NEW F, NEW s \in Seq(Lines(F)), s # << >>, Once(s)
  PROVE  /\ s \o <<Blank>> \in {t \in Seq(Lines(F)) : Len(t) >= 2}
         /\ OnceOver(s \o <<Blank>>, Includes(s))
<1> DEFINE L == Lines(F)
           b == <<Blank>>
<1>1. b \in Seq(L) /\ Len(b) = 1
  <2>1. Blank \in L
    BY DEF Blank, Lines
  <2>2. QED
    BY <2>1
<1>2. Once(b) /\ Includes(b) = {}
  <2>1. ~IsInclude(Blank)
    BY DEF IsInclude
  <2>2. QED
    BY <2>1, OneLine
<1> HIDE DEF b, L
<1>3. s \in Seq(L)
  BY DEF L
<1>4. OnceOver(s \o b, Includes(s))
  BY <1>1, <1>2, <1>3, OnceJoined DEF OnceOver
<1>5. s \o b \in Seq(L) /\ Len(s \o b) >= 2
  <2>1. Len(s) \in Nat /\ Len(s) # 0
    BY <1>3
  <2>2. s \o b \in Seq(L) /\ Len(s \o b) = Len(s) + Len(b)
    BY <1>1, <1>3, ConcatGives DEF Joined
  <2>3. QED
    BY <1>1, <2>1, <2>2
<1>6. QED
  BY <1>4, <1>5 DEF b, L

\* candidateToEditRanges makes of the hunks left edits that bring each #include once
\* and none the document has.
LEMMA EditsOfLeft ==
  ASSUME NEW F, NEW o, NEW acc, Placed(Lines(F), o, acc),
         NEW hs, Placed(Lines(F), o, hs),
         \A h \in ToSet(hs), a \in ToSet(acc) : ~HunksConflict(h, a),
         NEW t, NEW kept, LeftTogether(Lines(F), hs, t, kept)
  PROVE  EditsFit(F, t, CandidateToEditRanges(kept, acc))
<1> DEFINE L == Lines(F)
           X == CandidateToEditRanges(kept, acc)
<1>1. /\ o \in Seq(L) /\ acc \in Seq(HunksOver(L)) /\ hs \in Seq(HunksOver(L))
      /\ kept \in Seq(HunksOver(L)) /\ DOMAIN kept = 1..Len(kept) /\ Len(kept) \in Nat
      /\ \A i \in 1..Len(hs) : hs[i].start + hs[i].count <= Len(o) + 1
  <2>1. kept \in Seq(HunksOver(L))
    BY DEF LeftTogether
  <2>2. QED
    BY <2>1 DEF Placed
<1>2. X = [i \in 1..Len(kept) |-> EditOf(acc, kept[i])]
  BY <1>1 DEF CandidateToEditRanges, EditOf
<1> HIDE DEF X, L
<1>3. ASSUME NEW i \in 1..Len(kept)
      PROVE  /\ X[i] \in Edits(F) /\ X[i].startLine <= X[i].endLine
             /\ Once(X[i].text) /\ Includes(X[i].text) \subseteq Includes(kept[i].repl)
  <2> DEFINE k == kept[i]
             off == LineOffsetForStart(k.start, acc)
  <2>1. k \in HunksOver(L)
    BY <1>1
  <2>2. PICK m \in 1..Len(hs) : k.start = hs[m].start /\ k.count = hs[m].count
    BY DEF LeftTogether
  <2>3. hs[m] \in HunksOver(L) /\ hs[m] \in ToSet(hs)
    BY <1>1 DEF ToSet
  <2>4. ToSet(acc) \in SUBSET HunksOver(L)
    BY <1>1, ListElements
  <2>5. Clear(ToSet(acc), k.start)
    <3>1. Clear(ToSet(acc), hs[m].start)
      BY <2>3, <2>4, StartIsClear
    <3>2. QED
      BY <2>2, <3>1
  <2>6. k.start \in Nat \ {0} /\ k.count \in Nat /\ k.repl \in Seq(L)
    BY <2>1 DEF HunksOver
  <2>7. k.start \in 1..Len(o) + 1
    <3>1. k.start + k.count <= Len(o) + 1 /\ Len(o) \in Nat
      BY <1>1, <2>2
    <3>2. QED
      BY <2>6, <3>1
  <2> HIDE DEF k
  <2>8. k.start - 1 + off \in Nat
    <3>1. OffsetRight(o, acc, k.start)
      BY <2>5, <2>7, OffsetIsPosition
    <3>2. PosTyped(L, o, ToSet(acc), k.start)
      BY <1>1, <2>4, <2>6, PosIsRow
    <3>3. QED
      BY <3>1, <3>2 DEF OffsetRight, PosTyped
  <2> HIDE DEF off
  <2>9. EditOf(acc, k) = [startLine |-> k.start - 1 + off, endLine |-> k.start - 1 + off + k.count,
                          text |-> k.repl \o <<Blank>>, insert |-> k.count = 0]
    BY DEF EditOf, HunkToEditRange, off
  <2>10. k.repl # << >> /\ Once(k.repl)
    BY DEF LeftTogether, k
  <2>11. /\ k.repl \o <<Blank>> \in {s \in Seq(Lines(F)) : Len(s) >= 2}
         /\ OnceOver(k.repl \o <<Blank>>, Includes(k.repl))
    BY <2>6, <2>10, NewTextOnce DEF L
  <2> DEFINE row == k.start - 1 + off
             text == k.repl \o <<Blank>>
  <2>12. row \in Nat /\ row + k.count \in Nat /\ (k.count = 0) \in BOOLEAN /\ row <= row + k.count
    BY <2>6, <2>8
  <2>13. /\ EditOf(acc, k).startLine = row /\ EditOf(acc, k).endLine = row + k.count
         /\ EditOf(acc, k).text = text
    BY <2>9
  <2> HIDE DEF text, row
  <2>14. EditOf(acc, k) \in Edits(F)
    BY <2>9, <2>11, <2>12 DEF Edits, text, row
  <2>15. X[i] = EditOf(acc, k)
    BY <1>2 DEF k
  <2>16. OnceOver(text, Includes(k.repl))
    BY <2>11 DEF text
  <2>17. QED
    BY <2>12, <2>13, <2>14, <2>15, <2>16 DEF OnceOver, k
<1>4. X \in Seq(Edits(F)) /\ Len(X) = Len(kept)
  BY <1>1, <1>2, <1>3
<1>5. ASSUME NEW i \in 1..Len(X), NEW j \in 1..Len(X), i # j PROVE <<X[i], X[j]>> \in Unshared(F)
  <2>1. i \in 1..Len(kept) /\ j \in 1..Len(kept)
    BY <1>4
  <2>2. Includes(kept[i].repl) \cap Includes(kept[j].repl) = {}
    BY <1>5, <2>1 DEF LeftTogether
  <2>3. Includes(X[i].text) \cap Includes(X[j].text) = {}
    BY <1>3, <2>1, <2>2
  <2>4. X[i] \in Edits(F) /\ X[j] \in Edits(F)
    BY <1>3, <2>1
  <2>5. QED
    BY <2>3, <2>4 DEF Unshared
<1>6. ASSUME NEW i \in 1..Len(X) PROVE Includes(t) \cap Includes(X[i].text) = {}
  <2>1. i \in 1..Len(kept)
    BY <1>4
  <2>2. Includes(t) \cap Includes(kept[i].repl) = {}
    BY <2>1 DEF LeftTogether
  <2>3. QED
    BY <1>3, <2>1, <2>2
<1>7. \A i \in 1..Len(X) : X[i].startLine <= X[i].endLine /\ Once(X[i].text)
  BY <1>3, <1>4
<1>8. EditsFit(F, t, X)
  BY <1>4, <1>5, <1>6, <1>7 DEF EditsFit, EachTwo
<1>9. QED
  BY <1>8 DEF X

\* The invariant of the proof: no #include twice, and none glued to by an append.
DocumentOnce == doc \in Texts(Fragments) /\ OnceText(doc)

\* The candidates of a state bring their #includes once.
LEMMA ShapesBringOnce ==
  ASSUME IncludesOnce, IInv
  PROVE  \A c \in Candidates : BringsOnce(hunks[c])
<1> SUFFICES ASSUME NEW c \in Candidates PROVE BringsOnce(hunks[c])
  OBVIOUS
<1>1. original \in Originals /\ hunks[c] \in Shapes(c, original)
  BY DEF IInv, TypeOK, ShapesKept
<1>2. QED
  BY <1>1 DEF IncludesOnce

\* The scanned text satisfies it.
LEMMA InitOnce ==
  ASSUME IncludesOnce, Init
  PROVE  DocumentOnce
<1>1. original \in Originals /\ doc = original
  BY DEF Init
<1>2. original \in Seq(Line) /\ original # << >>
  BY <1>1, ShapesAssumption DEF Line, Lines
<1>3. OnceEach(original) /\ ~IsInclude(original[Len(original)])
  BY <1>1 DEF IncludesOnce
<1>4. DOMAIN original = 1..Len(original)
  BY <1>2
<1>5. Once(original)
  BY <1>3, <1>4 DEF OnceEach, Once
<1>6. QED
  BY <1>1, <1>2, <1>3, <1>5 DEF DocumentOnce, OnceText, Texts, Line

\* Every accept keeps it.
LEMMA NextKeepsOnce ==
  ASSUME IncludesOnce, IInv, DocumentOnce, [Next]_vars
  PROVE  DocumentOnce'
<1>1. CASE Next
  <2>1. PICK c \in Candidates : Accept(c)
    BY <1>1 DEF Next
  <2> DEFINE hs == hunks[c]
             X == CandidateToEditRanges(Kept(c), AcceptedHunks)
  <2>2. doc' = IF Kept(c) = << >> THEN doc ELSE ApplyWorkspaceEdit(doc, X)
    BY <2>1, AcceptLands DEF Landing
  <2>3. Placed(Lines(Fragments), original, AcceptedHunks)
    BY DEF IInv, AcceptedPlaced, Line
  <2>4. Placed(Lines(Fragments), original, hs) /\ \A h \in ToSet(hs) : h.repl # << >>
    BY ShapesFit DEF IInv, CandidateFits, Line
  <2>5. \A h \in ToSet(hs), a \in ToSet(AcceptedHunks) : ~HunksConflict(h, a)
    BY <2>1, GuardKeepsAllClear DEF Accept
  <2>6. LeftTogether(Lines(Fragments), hs, doc, Kept(c))
    <3>1. hs \in Seq(HunksOver(Lines(Fragments)))
      BY <2>4 DEF Placed
    <3>2. BringsOnce(hs)
      BY ShapesBringOnce
    <3> HIDE DEF hs
    <3>3. LeftTogether(Lines(Fragments), hs, doc, DedupeIncludes(hs, doc))
      BY <2>4, <3>1, <3>2, DedupeLeaves
    <3>4. QED
      BY <3>3 DEF Kept, hs
  <2> HIDE DEF hs
  <2>7. EditsFit(Fragments, doc, X)
    BY <2>3, <2>4, <2>5, <2>6, EditsOfLeft
  <2> HIDE DEF X
  <2>8. ApplyWorkspaceEdit(doc, X) \in Texts(Fragments) /\ OnceText(ApplyWorkspaceEdit(doc, X))
    BY <2>7, EditsKeepOnce DEF DocumentOnce
  <2>9. doc' \in Texts(Fragments) /\ OnceText(doc')
    BY <2>2, <2>8 DEF DocumentOnce
  <2>10. QED
    BY <2>9 DEF DocumentOnce, OnceText, Once, IsInclude
<1>2. CASE UNCHANGED vars
  BY <1>2 DEF vars, DocumentOnce, OnceText, Once, IsInclude
<1>3. QED
  BY <1>1, <1>2

\* D-026 for every number of candidates, every text and all hunks: accepting candidates
\* that bring the same #include one after another, in any order, leaves one copy of
\* it - as long as the scanned text has no #include twice and none on an unfinished
\* last line, and a candidate inserts each of its #includes once.
THEOREM NoDuplicateIncludeAlways ==
  ASSUME IncludesOnce
  PROVE  Spec => []NoDuplicateInclude
<1>1. Init => DocumentOnce
  BY InitOnce
<1>2. IInv /\ DocumentOnce /\ [Next]_vars => DocumentOnce'
  BY NextKeepsOnce
<1>3. DocumentOnce => NoDuplicateInclude
  <2> SUFFICES ASSUME DocumentOnce PROVE NoDuplicateInclude
    OBVIOUS
  <2>1. doc \in Seq(Lines(Fragments)) /\ Once(doc)
    BY DEF DocumentOnce, OnceText, Texts
  <2>2. DOMAIN doc = 1..Len(doc)
    BY <2>1
  <2>3. QED
    BY <2>1, <2>2 DEF Once, NoDuplicateInclude, OnceEach
<1>4. QED
  BY <1>1, <1>2, <1>3, AlwaysIInv, PTL DEF Spec
=============================================================================
