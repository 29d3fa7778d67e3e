----------------------------- MODULE ListLemmas -----------------------------
(***************************************************************************)
(* Facts about the list operations that the models of the Qt item models   *)
(* are built from: QList::insert, QList::takeAt, and the scans for the     *)
(* first or last position with some property.                              *)
(***************************************************************************)
EXTENDS Integers, Sequences, FiniteSetsExt, SequencesExt, SequenceTheorems,
        FiniteSetTheorems, WellFoundedInduction, TLAPS

(***************************************************************************)
(* A scan upwards stops: a nonempty set of positions has a least one, and  *)
(* Min is that position.                                                   *)
(***************************************************************************)
LEMMA MinOfPositions ==
    ASSUME NEW T, T \subseteq Nat, T # {}
    PROVE  Min(T) \in T /\ \A y \in T : Min(T) <= y
<1>1. PICK x \in T : \A y \in T : ~(<<y, x>> \in OpToRel(<, Nat))
  BY NatLessThanWellFounded, WFMin
<1>2. ASSUME NEW y \in T
      PROVE  x <= y
  <2>1. x \in Nat /\ y \in Nat
    OBVIOUS
  <2>2. y < x => <<y, x>> \in OpToRel(<, Nat)
    BY <2>1 DEF OpToRel
  <2>3. ~(y < x)
    BY <1>1, <2>2, Zenon
  <2> QED
    BY <2>1, <2>3
<1> QED
  BY <1>2 DEF Min

(***************************************************************************)
(* A scan downwards stops: a nonempty set of positions with an upper bound *)
(* has a greatest one, and Max is that position.                           *)
(***************************************************************************)
LEMMA MaxOfPositions ==
    ASSUME NEW n \in Nat, NEW T, T \subseteq 0..n, T # {}
    PROVE  Max(T) \in T /\ \A y \in T : Max(T) >= y
<1> DEFINE U == {n - x : x \in T}
<1>1. U \subseteq Nat /\ U # {}
  <2>1. \A x \in T : n - x \in Nat
    OBVIOUS
  <2>2. PICK x \in T : TRUE
    OBVIOUS
  <2> QED
    BY <2>1, <2>2
<1>2. Min(U) \in U /\ \A u \in U : Min(U) <= u
  BY <1>1, MinOfPositions
<1>3. PICK x \in T : Min(U) = n - x
  BY <1>2
<1>4. \A y \in T : x >= y
  BY <1>2, <1>3
<1> QED
  BY <1>4 DEF Max

(***************************************************************************)
(* Induction along the positions of a list, over a set of positions: what  *)
(* holds at 0 and at i + 1 when it holds at i holds up to n.               *)
(***************************************************************************)
LEMMA CountingUp ==
    ASSUME NEW n \in Nat, NEW T, 0 \in T,
           \A i \in 0..n : i # n /\ i \in T => i + 1 \in T
    PROVE  \A i \in 0..n : i \in T
<1> DEFINE Bad == {i \in 0..n : i \notin T}
<1> SUFFICES ASSUME Bad # {} PROVE FALSE
  OBVIOUS
<1>1. Bad \subseteq Nat
  OBVIOUS
<1> DEFINE m == Min(Bad)
<1>2. m \in Bad /\ \A i \in Bad : m <= i
  <2> HIDE DEF Bad
  <2> QED
    BY <1>1, MinOfPositions
<1> HIDE DEF m
<1>3. m - 1 \in 0..n /\ m - 1 # n /\ m - 1 \notin Bad /\ (m - 1) + 1 = m
  BY <1>2
<1> QED
  BY <1>2, <1>3

(***************************************************************************)
(* QList::insert: the rows from position i on move down by one.            *)
(***************************************************************************)
LEMMA InsertAtProperties ==
    ASSUME NEW S, NEW s \in Seq(S), NEW i \in 1..Len(s) + 1, NEW e \in S
    PROVE  /\ InsertAt(s, i, e) \in Seq(S)
           /\ Len(InsertAt(s, i, e)) = Len(s) + 1
           /\ \A k \in 1..Len(s) + 1 :
                InsertAt(s, i, e)[k] = IF k < i THEN s[k]
                                       ELSE IF k = i THEN e ELSE s[k - 1]
<1> DEFINE a == SubSeq(s, 1, i - 1)
           b == SubSeq(s, i, Len(s))
<1>1. Len(s) \in Nat /\ \A k \in 1..Len(s) : s[k] \in S
  OBVIOUS
<1>2. /\ a \in Seq(S) /\ Len(a) = i - 1
      /\ \A k \in 1..i - 1 : a[k] = s[k]
  BY <1>1
<1>3. /\ b \in Seq(S) /\ Len(b) = Len(s) - i + 1
      /\ \A k \in 1..Len(s) - i + 1 : b[k] = s[k + i - 1]
  BY <1>1
<1>4. <<e>> \in Seq(S) /\ Len(<<e>>) = 1 /\ <<e>>[1] = e
  OBVIOUS
<1> HIDE DEF a, b
<1>5. /\ a \o <<e>> \in Seq(S) /\ Len(a \o <<e>>) = i
      /\ \A k \in 1..i : (a \o <<e>>)[k] = IF k < i THEN s[k] ELSE e
  BY <1>1, <1>2, <1>4, ConcatProperties
<1> DEFINE c == a \o <<e>>
<1> HIDE DEF c
<1>6. /\ c \in Seq(S) /\ Len(c) = i
      /\ \A k \in 1..i : c[k] = IF k < i THEN s[k] ELSE e
  BY <1>5 DEF c
<1>7. /\ c \o b \in Seq(S)
      /\ Len(c \o b) = Len(c) + Len(b)
      /\ \A k \in 1..Len(c) + Len(b) :
            (c \o b)[k] = IF k <= Len(c) THEN c[k] ELSE b[k - Len(c)]
  BY <1>3, <1>6, ConcatProperties, Zenon
<1>8. InsertAt(s, i, e) = c \o b
  BY Zenon DEF InsertAt, a, b, c
<1>9. Len(c) + Len(b) = Len(s) + 1
  BY <1>1, <1>3, <1>6
<1>10. ASSUME NEW k \in 1..Len(s) + 1
       PROVE  (c \o b)[k] = IF k < i THEN s[k]
                            ELSE IF k = i THEN e ELSE s[k - 1]
  <2>1. CASE k <= i
    BY <1>1, <1>6, <1>7, <1>9, <2>1
  <2>2. CASE k > i
    <3>1. k - i \in 1..Len(s) - i + 1 /\ (k - i) + i - 1 = k - 1
      BY <1>1, <2>2
    <3>2. b[k - i] = s[k - 1]
      BY <1>3, <3>1
    <3> QED
      BY <1>1, <1>6, <1>7, <1>9, <2>2, <3>2
  <2>3. k <= i \/ k > i
    BY <1>1
  <2> QED
    BY <2>1, <2>2, <2>3, Zenon
<1> QED
  BY <1>7, <1>8, <1>9, <1>10, Zenon

(***************************************************************************)
(* QList::takeAt: the rows below position i move up by one.                *)
(***************************************************************************)
LEMMA RemoveAtProperties ==
    ASSUME NEW S, NEW s \in Seq(S), NEW i \in 1..Len(s)
    PROVE  /\ RemoveAt(s, i) \in Seq(S)
           /\ Len(RemoveAt(s, i)) = Len(s) - 1
           /\ \A k \in 1..Len(s) - 1 :
                RemoveAt(s, i)[k] = IF k < i THEN s[k] ELSE s[k + 1]
<1> DEFINE a == SubSeq(s, 1, i - 1)
           b == SubSeq(s, i + 1, Len(s))
<1>1. Len(s) \in Nat /\ \A k \in 1..Len(s) : s[k] \in S
  OBVIOUS
<1>2. /\ a \in Seq(S) /\ Len(a) = i - 1
      /\ \A k \in 1..i - 1 : a[k] = s[k]
  BY <1>1
<1>3. /\ b \in Seq(S) /\ Len(b) = Len(s) - i
      /\ \A k \in 1..Len(s) - i : b[k] = s[k + i]
  BY <1>1
<1> HIDE DEF a, b
<1>4. /\ a \o b \in Seq(S)
      /\ Len(a \o b) = Len(a) + Len(b)
      /\ \A k \in 1..Len(a) + Len(b) :
            (a \o b)[k] = IF k <= Len(a) THEN a[k] ELSE b[k - Len(a)]
  BY <1>2, <1>3, ConcatProperties, Zenon
<1>5. RemoveAt(s, i) = a \o b
  BY Zenon DEF RemoveAt, a, b
<1>6. Len(a) + Len(b) = Len(s) - 1
  BY <1>1, <1>2, <1>3
<1>7. ASSUME NEW k \in 1..Len(s) - 1
      PROVE  (a \o b)[k] = IF k < i THEN s[k] ELSE s[k + 1]
  <2>1. CASE k < i
    BY <1>1, <1>2, <1>4, <1>6, <2>1
  <2>2. CASE k >= i
    <3>1. k - (i - 1) \in 1..Len(s) - i /\ (k - (i - 1)) + i = k + 1
      BY <1>1, <2>2
    <3>2. b[k - (i - 1)] = s[k + 1]
      BY <1>3, <3>1
    <3> QED
      BY <1>1, <1>2, <1>4, <1>6, <2>2, <3>2
  <2>3. k < i \/ k >= i
    BY <1>1
  <2> QED
    BY <2>1, <2>2, <2>3, Zenon
<1> QED
  BY <1>4, <1>5, <1>6, <1>7, Zenon

(***************************************************************************)
(* QList::move of the row at i to position j, as positions: which row ends *)
(* up where.  It is written as taking the row out and putting it back.     *)
(***************************************************************************)
LEMMA ListMove ==
    ASSUME NEW S, NEW s \in Seq(S), NEW i \in 1..Len(s), NEW j \in 1..Len(s)
    PROVE  LET new == InsertAt(RemoveAt(s, i), j, s[i])
           IN  /\ new \in Seq(S)
               /\ Len(new) = Len(s)
               /\ \A k \in 1..Len(s) :
                    new[k] = IF k = j THEN s[i]
                             ELSE IF i <= k /\ k < j THEN s[k + 1]
                             ELSE IF j < k /\ k <= i THEN s[k - 1]
                             ELSE s[k]
<1> DEFINE rest == RemoveAt(s, i)
           row == s[i]
           new == InsertAt(rest, j, row)
<1>1. Len(s) \in Nat /\ row \in S
  OBVIOUS
<1>2. /\ rest \in Seq(S) /\ Len(rest) = Len(s) - 1
      /\ \A k \in 1..Len(s) - 1 :
            rest[k] = IF k < i THEN s[k] ELSE s[k + 1]
  BY RemoveAtProperties
<1> HIDE DEF rest, row
<1>3. j \in 1..Len(rest) + 1 /\ Len(rest) + 1 = Len(s)
  BY <1>1, <1>2
<1>4. /\ new \in Seq(S) /\ Len(new) = Len(rest) + 1
      /\ \A k \in 1..Len(rest) + 1 :
            new[k] = IF k < j THEN rest[k]
                     ELSE IF k = j THEN row ELSE rest[k - 1]
  BY <1>1, <1>2, <1>3, InsertAtProperties
<1> HIDE DEF new
<1>5. ASSUME NEW k \in 1..Len(s)
      PROVE  new[k] = IF k = j THEN row
                      ELSE IF i <= k /\ k < j THEN s[k + 1]
                      ELSE IF j < k /\ k <= i THEN s[k - 1]
                      ELSE s[k]
  <2>1. CASE k = j
    BY <1>3, <1>4, <2>1
  <2>2. CASE k < j
    <3>1. k \in 1..Len(s) - 1
      BY <1>1, <2>2
    <3> QED
      BY <1>1, <1>2, <1>3, <1>4, <2>2, <3>1
  <2>3. CASE k > j
    <3>1. k - 1 \in 1..Len(s) - 1 /\ (k - 1) + 1 = k
      BY <1>1, <2>3
    <3>2. new[k] = rest[k - 1]
      BY <1>1, <1>3, <1>4, <2>3
    <3>3. rest[k - 1] = IF k - 1 < i THEN s[k - 1] ELSE s[k]
      BY <1>2, <3>1
    <3> QED
      BY <1>1, <2>3, <3>2, <3>3
  <2> QED
    BY <1>1, <2>1, <2>2, <2>3
<1> QED
  BY <1>3, <1>4, <1>5 DEF new, rest, row

(***************************************************************************)
(* QList::erase of the rows behind the first a ones up to the b-th: those  *)
(* below move up.                                                          *)
(***************************************************************************)
Cut(s, a, b) == SubSeq(s, 1, a) \o SubSeq(s, b + 1, Len(s))

LEMMA RangeCut ==
    ASSUME NEW S, NEW s \in Seq(S), NEW a \in 0..Len(s), NEW b \in a..Len(s)
    PROVE  /\ Cut(s, a, b) \in Seq(S)
           /\ Len(Cut(s, a, b)) = Len(s) - (b - a)
           /\ \A k \in 1..Len(s) - (b - a) :
                Cut(s, a, b)[k] = IF k <= a THEN s[k] ELSE s[k + (b - a)]
<1> DEFINE t == SubSeq(s, 1, a)
           u == SubSeq(s, b + 1, Len(s))
<1>1. Len(s) \in Nat /\ \A k \in 1..Len(s) : s[k] \in S
  OBVIOUS
<1>2. /\ t \in Seq(S) /\ Len(t) = a
      /\ \A k \in 1..a : t[k] = s[k]
  BY <1>1
<1>3. /\ u \in Seq(S) /\ Len(u) = Len(s) - b
      /\ \A k \in 1..Len(s) - b : u[k] = s[k + b]
  BY <1>1
<1> HIDE DEF t, u
<1>4. /\ t \o u \in Seq(S)
      /\ Len(t \o u) = Len(t) + Len(u)
      /\ \A k \in 1..Len(t) + Len(u) :
            (t \o u)[k] = IF k <= Len(t) THEN t[k] ELSE u[k - Len(t)]
  BY <1>2, <1>3, ConcatProperties, Zenon
<1>5. Cut(s, a, b) = t \o u
  BY Zenon DEF t, u, Cut
<1>6. Len(t) + Len(u) = Len(s) - (b - a)
  BY <1>1, <1>2, <1>3
<1>7. ASSUME NEW k \in 1..Len(s) - (b - a)
      PROVE  (t \o u)[k] = IF k <= a THEN s[k] ELSE s[k + (b - a)]
  <2>1. CASE k <= a
    BY <1>1, <1>2, <1>4, <1>6, <2>1
  <2>2. CASE k > a
    <3>1. k - a \in 1..Len(s) - b /\ (k - a) + b = k + (b - a)
      BY <1>1, <2>2
    <3>2. u[k - a] = s[k + (b - a)]
      BY <1>3, <3>1
    <3> QED
      BY <1>1, <1>2, <1>4, <1>6, <2>2, <3>2
  <2>3. k <= a \/ k > a
    BY <1>1
  <2> QED
    BY <2>1, <2>2, <2>3, Zenon
<1> QED
  BY <1>4, <1>5, <1>6, <1>7, Zenon

(***************************************************************************)
(* A list that is made position by position.                               *)
(***************************************************************************)
LEMMA ListOf ==
    ASSUME NEW S, NEW n \in Nat, NEW f \in [1..n -> S]
    PROVE  f \in Seq(S) /\ Len(f) = n /\ DOMAIN f = 1..n
<1>1. DOMAIN f = 1..n
  OBVIOUS
<1>2. f \in Seq(S)
  BY SeqDef
<1>3. Len(f) \in Nat /\ DOMAIN f = 1..Len(f)
  BY <1>2, LenProperties
<1>4. Len(f) = n
  <2>1. 1..Len(f) = 1..n
    BY <1>1, <1>3
  <2>2. Len(f) > n => Len(f) \in 1..Len(f) /\ Len(f) \notin 1..n
    BY <1>3
  <2>3. n > Len(f) => n \in 1..n /\ n \notin 1..Len(f)
    BY <1>3
  <2> QED
    BY <1>3, <2>1, <2>2, <2>3
<1> QED
  BY <1>1, <1>2, <1>4

(***************************************************************************)
(* std::sort.  f lists the members of S in the order R.                    *)
(***************************************************************************)
Sorts(f, S, R) ==
    /\ f \in [1..Cardinality(S) -> S]
    /\ \A i, j \in 1..Cardinality(S) : i < j => <<f[i], f[j]>> \in R

(***************************************************************************)
(* Insertion sort: a new element goes before the first one that it         *)
(* precedes.                                                               *)
(***************************************************************************)
LEMMA SortedInsertion ==
    ASSUME NEW S, NEW x \in S, NEW n \in Nat, NEW R,
           \A y, z \in S : y # z => <<y, z>> \in R \/ <<z, y>> \in R,
           \A w, y, z \in S : <<w, y>> \in R /\ <<y, z>> \in R => <<w, z>> \in R,
           NEW f \in [1..n -> S \ {x}],
           \A i, j \in 1..n : i < j => <<f[i], f[j]>> \in R
    PROVE  \E g \in [1..n + 1 -> S] :
             \A i, j \in 1..n + 1 : i < j => <<g[i], g[j]>> \in R
<1> DEFINE P == {p \in 1..n + 1 : p = n + 1 \/ <<x, f[p]>> \in R}
           pos == Min(P)
           g == [k \in 1..n + 1 |->
                    IF k < pos THEN f[k] ELSE IF k = pos THEN x ELSE f[k - 1]]
<1>1. P \subseteq Nat /\ n + 1 \in P
  OBVIOUS
<1>2. pos \in P /\ \A p \in P : pos <= p
  <2> HIDE DEF P
  <2> QED
    BY <1>1, MinOfPositions
<1> HIDE DEF pos
<1>3. \A k \in 1..n : f[k] \in S /\ f[k] # x
  OBVIOUS
<1>4. ASSUME NEW k \in 1..n, k < pos
      PROVE  <<f[k], x>> \in R
  <2>1. k \notin P
    BY <1>2, <1>4
  <2>2. <<x, f[k]>> \notin R
    BY <2>1
  <2> QED
    BY <1>3, <2>2
<1>5. \A k \in 1..n : k >= pos => <<x, f[k]>> \in R
  <2> SUFFICES ASSUME NEW k \in 1..n, k >= pos PROVE <<x, f[k]>> \in R
    OBVIOUS
  <2>1. pos \in 1..n /\ <<x, f[pos]>> \in R
    BY <1>2
  <2>2. k = pos \/ <<f[pos], f[k]>> \in R
    BY <2>1
  <2> QED
    BY <1>3, <2>1, <2>2
<1>6. g \in [1..n + 1 -> S]
  BY <1>2, <1>3
<1>7. ASSUME NEW i \in 1..n + 1, NEW j \in 1..n + 1, i < j
      PROVE  <<g[i], g[j]>> \in R
  <2>1. CASE j < pos
    BY <1>2, <1>7, <2>1
  <2>2. CASE j = pos
    <3>1. g[i] = f[i] /\ g[j] = x /\ i \in 1..n /\ i < pos
      BY <1>2, <1>7, <2>2
    <3> QED
      BY <1>4, <3>1
  <2>3. CASE j > pos
    <3>1. g[j] = f[j - 1] /\ j - 1 \in 1..n /\ j - 1 >= pos
      BY <1>2, <1>7, <2>3
    <3>2. CASE i < pos
      <4>1. g[i] = f[i] /\ i \in 1..n /\ i < j - 1
        BY <1>2, <1>7, <2>3, <3>2
      <4> QED
        BY <3>1, <4>1
    <3>3. CASE i = pos
      <4>1. g[i] = x
        BY <3>3
      <4> QED
        BY <1>5, <3>1, <4>1
    <3>4. CASE i > pos
      <4>1. g[i] = f[i - 1] /\ i - 1 \in 1..n /\ i - 1 < j - 1
        BY <1>2, <1>7, <2>3, <3>4
      <4> QED
        BY <3>1, <4>1
    <3> QED
      BY <1>2, <3>2, <3>3, <3>4
  <2> QED
    BY <1>2, <2>1, <2>2, <2>3
<1> HIDE DEF g
<1> QED
  BY <1>6, <1>7

(***************************************************************************)
(* Every finite set can be sorted by a total order.                        *)
(***************************************************************************)
LEMMA SortedExists ==
    ASSUME NEW S, IsFiniteSet(S), NEW R,
           \A y, z \in S : y # z => <<y, z>> \in R \/ <<z, y>> \in R,
           \A w, y, z \in S : <<w, y>> \in R /\ <<y, z>> \in R => <<w, z>> \in R
    PROVE  \E f : Sorts(f, S, R)
<1> DEFINE n == Cardinality(S)
           T == {k \in 0..n : \A U \in SUBSET S :
                    Cardinality(U) = k => \E f : Sorts(f, U, R)}
<1>1. n \in Nat
  BY FS_CardinalityType
<1> HIDE DEF n
<1>2. 0 \in T
  <2> SUFFICES ASSUME NEW U \in SUBSET S, Cardinality(U) = 0
               PROVE  \E f : Sorts(f, U, R)
    BY <1>1
  <2> DEFINE f == [i \in 1..0 |-> i]
  <2>1. f \in [1..0 -> U] /\ \A i, j \in 1..0 : i < j => <<f[i], f[j]>> \in R
    OBVIOUS
  <2> HIDE DEF f
  <2> QED
    BY <2>1 DEF Sorts
<1>3. ASSUME NEW k \in 0..n, k # n, k \in T
      PROVE  k + 1 \in T
  <2>1. k + 1 \in 0..n
    BY <1>1, <1>3
  <2> SUFFICES ASSUME NEW U \in SUBSET S, Cardinality(U) = k + 1
               PROVE  \E f : Sorts(f, U, R)
    BY <2>1
  <2>2. IsFiniteSet(U)
    BY FS_Subset
  <2>3. U # {}
    <3>1. Cardinality(U) # 0
      OBVIOUS
    <3> QED
      BY <2>2, <3>1, FS_EmptySet
  <2>4. PICK x \in U : TRUE
    BY <2>3
  <2>5. Cardinality(U \ {x}) = k
    <3>1. Cardinality(U \ {x}) = (k + 1) - 1
      BY <2>2, <2>4, FS_RemoveElement
    <3> QED
      BY <3>1
  <2>6. PICK f : Sorts(f, U \ {x}, R)
    BY <1>3, <2>5
  <2>7. k \in Nat /\ f \in [1..k -> U \ {x}]
    <3>1. k \in Nat
      BY <1>1
    <3>2. f \in [1..Cardinality(U \ {x}) -> U \ {x}]
      BY <2>6, Zenon DEF Sorts
    <3> QED
      BY <2>5, <3>1, <3>2, Zenon
  <2>8. \A i, j \in 1..k : i < j => <<f[i], f[j]>> \in R
    BY <2>5, <2>6 DEF Sorts
  <2>9. \A y, z \in U : y # z => <<y, z>> \in R \/ <<z, y>> \in R
    OBVIOUS
  <2>10. \A w, y, z \in U : <<w, y>> \in R /\ <<y, z>> \in R => <<w, z>> \in R
    OBVIOUS
  <2>11. PICK g \in [1..k + 1 -> U] :
            \A i, j \in 1..k + 1 : i < j => <<g[i], g[j]>> \in R
    <3> HIDE DEF T
    <3> QED
      BY <2>4, <2>7, <2>8, <2>9, <2>10, SortedInsertion
  <2> QED
    BY <2>11 DEF Sorts
<1>4. \A k \in 0..n : k \in T
  <2> HIDE DEF T
  <2> QED
    BY <1>1, <1>2, <1>3, CountingUp
<1>5. n \in T
  BY <1>1, <1>4
<1> QED
  BY <1>5 DEF n

(***************************************************************************)
(* A sorted list has every member of its set, once.                        *)
(***************************************************************************)
LEMMA SortedOnto ==
    ASSUME NEW S, IsFiniteSet(S), NEW R, \A y \in S : <<y, y>> \notin R,
           NEW f, Sorts(f, S, R)
    PROVE  /\ Cardinality(S) \in Nat
           /\ \A i, j \in 1..Cardinality(S) : f[i] = f[j] => i = j
           /\ \A y \in S : \E i \in 1..Cardinality(S) : f[i] = y
<1> DEFINE n == Cardinality(S)
<1>1. n \in Nat
  BY FS_CardinalityType
<1>2. f \in [1..n -> S] /\ \A i, j \in 1..n : i < j => <<f[i], f[j]>> \in R
  BY DEF Sorts
<1>3. IsFiniteSet(1..n) /\ Cardinality(1..n) = n
  <2> HIDE DEF n
  <2>1. 1 \in Int /\ n \in Int
    BY <1>1
  <2>2. /\ IsFiniteSet(1..n)
        /\ Cardinality(1..n) = IF 1 > n THEN 0 ELSE n - 1 + 1
    BY <2>1, FS_Interval
  <2> QED
    BY <1>1, <2>2
<1> HIDE DEF n
<1>4. \A i, j \in 1..n : f[i] = f[j] => i = j
  <2> SUFFICES ASSUME NEW i \in 1..n, NEW j \in 1..n, f[i] = f[j], i # j
               PROVE  FALSE
    OBVIOUS
  <2>1. i < j \/ j < i
    BY <1>1
  <2>2. f[i] \in S
    BY <1>2
  <2> QED
    BY <1>2, <2>1, <2>2
<1>5. f \in Injection(1..n, S)
  BY <1>2, <1>4 DEF Injection, IsInjective
<1>6. f \in Surjection(1..n, S)
  <2>1. Cardinality(1..n) = Cardinality(S) <=> f \in Surjection(1..n, S)
    BY <1>5, FS_Injection
  <2> QED
    BY <1>3, <2>1 DEF n
<1>7. \A y \in S : \E i \in 1..n : f[i] = y
  BY <1>6 DEF Surjection
<1> QED
  BY <1>1, <1>4, <1>7 DEF n

\* A finite set of numbers has a greatest one, and Max is that number.
LEMMA MaxOfFinite ==
    ASSUME NEW S, S \subseteq Nat, IsFiniteSet(S), S # {}
    PROVE  Max(S) \in S /\ \A y \in S : Max(S) >= y
<1> DEFINE n == Cardinality(S)
           R == {p \in S \X S : p[1] < p[2]}
<1>1. /\ \A y, z \in S : <<y, z>> \in R <=> y < z
      /\ \A y \in S : <<y, y>> \notin R
  OBVIOUS
<1>2. /\ \A y, z \in S : y # z => <<y, z>> \in R \/ <<z, y>> \in R
      /\ \A w, y, z \in S : <<w, y>> \in R /\ <<y, z>> \in R => <<w, z>> \in R
  <2> HIDE DEF R
  <2> QED
    BY <1>1
<1> HIDE DEF R
<1>3. PICK f : Sorts(f, S, R)
  BY <1>2, SortedExists
<1>4. n \in Nat /\ \A y \in S : \E i \in 1..n : f[i] = y
  <2>1. \A y \in S : <<y, y>> \notin R
    BY <1>1
  <2>2. IsFiniteSet(S)
    OBVIOUS
  <2>3. /\ Cardinality(S) \in Nat
        /\ \A i, j \in 1..Cardinality(S) : f[i] = f[j] => i = j
        /\ \A y \in S : \E i \in 1..Cardinality(S) : f[i] = y
    BY ONLY <2>1, <2>2, <1>3, SortedOnto
  <2> QED
    BY <2>3
<1>5. \A i \in 1..n : f[i] \in S
  BY <1>3 DEF Sorts
<1>6. \A i, j \in 1..n : i < j => <<f[i], f[j]>> \in R
  BY <1>3 DEF Sorts
<1> HIDE DEF n
<1>7. n \in 1..n
  <2>1. PICK y \in S : TRUE
    OBVIOUS
  <2>2. PICK i \in 1..n : f[i] = y
    BY <1>4
  <2> QED
    BY <1>4
<1>8. ASSUME NEW y \in S
      PROVE  y <= f[n]
  <2>1. PICK i \in 1..n : f[i] = y
    BY <1>4
  <2>2. CASE i = n
    BY <2>1, <2>2
  <2>3. CASE i # n
    <3>1. <<f[i], f[n]>> \in R
      BY <1>4, <1>6, <1>7, <2>3
    <3>2. y < f[n] /\ f[n] \in S
      BY <1>1, <1>5, <1>7, <2>1, <3>1
    <3>3. y \in Nat /\ f[n] \in Nat
      BY <3>2
    <3> QED
      BY ONLY <3>2, <3>3
  <2> QED
    BY <2>2, <2>3
<1>9. f[n] \in Nat
  BY <1>5, <1>7
<1>10. S \subseteq 0..f[n]
  BY <1>8, <1>9
<1> QED
  BY <1>9, <1>10, MaxOfPositions

\* h sends 1..n to 1..l, in order and without a gap.
CountsUp(h, n, l) ==
    /\ n \in Nat /\ l \in Nat /\ h \in [1..n -> 1..l]
    /\ \A j, k \in 1..n : j < k => h[j] < h[k]
    /\ \A a \in 1..l : \E j \in 1..n : h[j] = a

\* Counting in order, without a gap, is counting one by one.
LEMMA IncreasingOnto ==
    ASSUME NEW n, NEW l, NEW h, CountsUp(h, n, l)
    PROVE  n = l /\ \A j \in 1..n : h[j] = j
<1> USE DEF CountsUp
<1> DEFINE Ahead == {j \in 1..n : h[j] > j}
           T == {j \in 0..n : j = 0 \/ h[j] >= j}
<1>1. \A j \in 1..n : h[j] \in 1..l /\ h[j] \in Nat
  OBVIOUS
<1>2. 0 \in T
  OBVIOUS
<1>3. ASSUME NEW j \in 0..n, j # n, j \in T
      PROVE  j + 1 \in T
  <2>1. j + 1 \in 1..n
    BY <1>3
  <2>2. CASE j = 0
    BY <1>1, <2>1, <2>2
  <2>3. CASE j # 0
    <3>1. j \in 1..n /\ h[j] >= j /\ h[j] < h[j + 1]
      BY <1>3, <2>1, <2>3
    <3> QED
      BY <1>1, <2>1, <3>1
  <2> QED
    BY <2>2, <2>3
<1>4. \A j \in 0..n : j \in T
  <2> HIDE DEF T
  <2> QED
    BY <1>2, <1>3, CountingUp
<1>5. \A j \in 1..n : h[j] >= j
  <2>1. \A j \in 1..n : j \in 0..n /\ j # 0
    OBVIOUS
  <2> QED
    BY <1>4, <2>1
<1>6. Ahead = {}
  <2> SUFFICES ASSUME Ahead # {} PROVE FALSE
    OBVIOUS
  <2> DEFINE m == Min(Ahead)
  <2>1. Ahead \subseteq Nat
    OBVIOUS
  <2>2. m \in Ahead /\ \A j \in Ahead : m <= j
    <3> HIDE DEF Ahead
    <3> QED
      BY <2>1, MinOfPositions
  <2> HIDE DEF m
  <2>3. m \in 1..n /\ h[m] > m /\ h[m] \in 1..l
    BY <1>1, <2>2
  <2>4. m \in 1..l
    BY <2>3
  <2>5. PICK j \in 1..n : h[j] = m
    BY <2>4
  <2>6. CASE j < m
    <3>1. j \notin Ahead
      BY <2>2, <2>3, <2>6
    <3>2. h[j] = j
      BY <1>1, <1>5, <3>1
    <3> QED
      BY <2>5, <2>6, <3>2
  <2>7. CASE j = m
    BY <2>3, <2>5, <2>7
  <2>8. CASE j > m
    <3>1. h[m] < h[j]
      BY <2>3, <2>8
    <3> QED
      BY <1>1, <2>3, <2>5, <3>1
  <2> QED
    BY <2>3, <2>6, <2>7, <2>8
<1>7. ASSUME NEW j \in 1..n
      PROVE  h[j] = j
  <2>1. j \notin Ahead
    BY <1>6
  <2> QED
    BY <1>1, <1>5, <2>1
<1>8. ~(n < l)
  <2> SUFFICES ASSUME n < l PROVE FALSE
    OBVIOUS
  <2>1. l \in 1..l
    OBVIOUS
  <2>2. PICK j \in 1..n : h[j] = l
    BY <2>1
  <2> QED
    BY <1>7, <2>2
<1>9. ~(l < n)
  <2> SUFFICES ASSUME l < n PROVE FALSE
    OBVIOUS
  <2>1. n \in 1..n
    OBVIOUS
  <2> QED
    BY <1>1, <1>7, <2>1
<1> QED
  BY <1>7, <1>8, <1>9
=============================================================================
