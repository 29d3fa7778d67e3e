----------------------- MODULE ForumTopicsModelProofs -----------------------
(***************************************************************************)
(* Proofs about ForumTopicsModel: the index map finds the right row        *)
(* whatever pages and answers come in which order, the list stays in the   *)
(* order of lessThan while each page belonged below the rows it met, and   *)
(* no topic is overlooked, for any topics, pages of any size, and any      *)
(* number of requests in flight.                                           *)
(***************************************************************************)
EXTENDS ForumTopicsModel, ListLemmas

-----------------------------------------------------------------------------
(***************************************************************************)
(* The order                                                               *)
(***************************************************************************)

\* What lessThan compares, as integers: a pinned topic comes first.
Pin(row) == IF row.isPinned THEN 1 ELSE 0

LEMMA LessByKeys ==
    ASSUME NEW a \in Row, NEW b \in Row
    PROVE  /\ Pin(a) \in Int /\ Date(a) \in Int /\ a.last \in Int /\ a.id \in Int
           /\ lessThan(a, b) <=>
                \/ Pin(a) > Pin(b)
                \/ Pin(a) = Pin(b) /\ Date(a) > Date(b)
                \/ Pin(a) = Pin(b) /\ Date(a) = Date(b) /\ a.last > b.last
                \/ /\ Pin(a) = Pin(b) /\ Date(a) = Date(b) /\ a.last = b.last
                   /\ a.id > b.id
<1> Topics \subseteq Int /\ MaxMsg \in Nat
  BY ForumAssumption
<1>1. /\ a.isPinned \in BOOLEAN /\ a.draft \in Int /\ a.last \in Int /\ a.id \in Int
      /\ b.isPinned \in BOOLEAN /\ b.draft \in Int /\ b.last \in Int /\ b.id \in Int
  <2>1. \A r \in Row : r.draft \in Int /\ r.last \in Int /\ r.id \in Int
    <3>1. \A r \in Row : r.draft \in 0..MaxMsg /\ r.last \in 1..MaxMsg /\ r.id \in Topics
      BY DEF Row, MsgIds
    <3>2. 0..MaxMsg \subseteq Int /\ 1..MaxMsg \subseteq Int
      OBVIOUS
    <3> QED
      BY <3>1, <3>2, Zenon
  <2>2. \A r \in Row : r.isPinned \in BOOLEAN
    BY DEF Row
  <2> QED
    BY <2>1, <2>2, Zenon
<1>2. Date(a) \in Int /\ Date(b) \in Int
  BY <1>1 DEF Date
<1>3. (a.isPinned = TRUE \/ a.isPinned = FALSE) /\ (b.isPinned = TRUE \/ b.isPinned = FALSE)
  BY <1>1, Zenon
<1>4. Pin(a) \in Int
  BY DEF Pin
<1> DEFINE rest == \/ Date(a) > Date(b)
                   \/ Date(a) = Date(b) /\ a.last > b.last
                   \/ Date(a) = Date(b) /\ a.last = b.last /\ a.id > b.id
<1>5. (IF Date(a) # Date(b) THEN Date(a) > Date(b)
       ELSE IF a.last # b.last THEN a.last > b.last
       ELSE a.id > b.id) <=> rest
  BY <1>1, <1>2
<1>6. lessThan(a, b) <=> IF a.isPinned # b.isPinned THEN a.isPinned ELSE rest
  BY <1>5, Zenon DEF lessThan
<1> HIDE DEF rest
<1>7. lessThan(a, b) <=> (Pin(a) > Pin(b) \/ (Pin(a) = Pin(b) /\ rest))
  <2>1. CASE a.isPinned = TRUE /\ b.isPinned = TRUE
    <3>1. lessThan(a, b) <=> rest
      BY <1>6, <2>1, Zenon
    <3>2. Pin(a) = 1 /\ Pin(b) = 1
      BY <2>1, Zenon DEF Pin
    <3>4. ~(1 > 1)
      OBVIOUS
    <3> QED
      BY <3>1, <3>2, <3>4, Zenon
  <2>2. CASE a.isPinned = FALSE /\ b.isPinned = FALSE
    <3>1. lessThan(a, b) <=> rest
      BY <1>6, <2>2, Zenon
    <3>2. Pin(a) = 0 /\ Pin(b) = 0
      BY <2>2, Zenon DEF Pin
    <3>4. ~(0 > 0)
      OBVIOUS
    <3> QED
      BY <3>1, <3>2, <3>4, Zenon
  <2>3. CASE a.isPinned = TRUE /\ b.isPinned = FALSE
    <3>1. a.isPinned # b.isPinned
      BY <2>3, Zenon
    <3>2. lessThan(a, b)
      BY <1>6, <2>3, <3>1, Zenon
    <3>3. Pin(a) = 1 /\ Pin(b) = 0
      BY <2>3, Zenon DEF Pin
    <3>4. 1 > 0
      OBVIOUS
    <3> QED
      BY <3>2, <3>3, <3>4, Zenon
  <2>4. CASE a.isPinned = FALSE /\ b.isPinned = TRUE
    <3>1. a.isPinned # b.isPinned
      BY <2>4, Zenon
    <3>2. ~lessThan(a, b)
      BY <1>6, <2>4, <3>1, Zenon
    <3>3. Pin(a) = 0 /\ Pin(b) = 1
      BY <2>4, Zenon DEF Pin
    <3>4. ~(0 > 1) /\ 0 # 1
      OBVIOUS
    <3> QED
      BY <3>2, <3>3, <3>4, Zenon
  <2> QED
    BY <1>3, <2>1, <2>2, <2>3, <2>4, Zenon
<1> QED
  BY <1>1, <1>2, <1>4, <1>7, Zenon DEF rest

\* Of two topics one comes before the other, and never both.
LEMMA LessTotal ==
    ASSUME NEW a \in Row, NEW b \in Row
    PROVE  /\ a.id # b.id => lessThan(a, b) \/ lessThan(b, a)
           /\ ~(lessThan(a, b) /\ lessThan(b, a))
  BY LessByKeys

LEMMA LessTransitive ==
    ASSUME NEW a \in Row, NEW b \in Row, NEW c \in Row,
           lessThan(a, b), lessThan(b, c)
    PROVE  lessThan(a, c)
  BY LessByKeys

-----------------------------------------------------------------------------
(***************************************************************************)
(* Lists of topics                                                         *)
(***************************************************************************)

IdsOf(list) == {list[i].id : i \in 1..Len(list)}

\* Every topic once, in the order of lessThan.
Ordered(list) ==
    \A i, j \in 1..Len(list) : i < j =>
        list[i].id # list[j].id /\ lessThan(list[i], list[j])

\* The list of rows with another one in place of the i-th.
LEMMA RowReplaced ==
    ASSUME NEW list \in Seq(Row), NEW i \in 1..Len(list), NEW row \in Row,
           row.id = list[i].id
    PROVE  LET new == [list EXCEPT ![i] = row]
           IN  /\ new \in Seq(Row) /\ Len(new) = Len(list)
               /\ new[i] = row
               /\ \A k \in 1..Len(list) : k # i => new[k] = list[k]
               /\ \A k \in 1..Len(list) : new[k].id = list[k].id
               /\ IdsOf(new) = IdsOf(list)
<1> DEFINE new == [list EXCEPT ![i] = row]
<1>1. new \in Seq(Row) /\ Len(new) = Len(list)
  OBVIOUS
<1>2. new[i] = row /\ \A k \in 1..Len(list) : k # i => new[k] = list[k]
  OBVIOUS
<1> HIDE DEF new
<1>3. \A k \in 1..Len(list) : new[k].id = list[k].id
  BY <1>2
<1>4. IdsOf(new) = IdsOf(list)
  BY <1>1, <1>3 DEF IdsOf
<1> QED
  BY <1>1, <1>2, <1>3, <1>4 DEF new

\* The rows after QList::insert of one topic.
LEMMA RowInserted ==
    ASSUME NEW list \in Seq(Row), NEW p \in 1..Len(list) + 1, NEW row \in Row
    PROVE  /\ InsertAt(list, p, row) \in Seq(Row)
           /\ Len(InsertAt(list, p, row)) = Len(list) + 1
           /\ \A k \in 1..Len(list) + 1 :
                InsertAt(list, p, row)[k] = IF k < p THEN list[k]
                                            ELSE IF k = p THEN row ELSE list[k - 1]
BY InsertAtProperties

\* Their identifiers.
LEMMA InsertIds ==
    ASSUME NEW list \in Seq(Row), NEW p \in 1..Len(list) + 1, NEW row \in Row
    PROVE  IdsOf(InsertAt(list, p, row)) = IdsOf(list) \cup {row.id}
<1> DEFINE new == InsertAt(list, p, row)
<1>1. /\ Len(new) = Len(list) + 1 /\ Len(list) \in Nat
      /\ \A k \in 1..Len(list) + 1 :
            new[k] = IF k < p THEN list[k]
                     ELSE IF k = p THEN row ELSE list[k - 1]
  <2>1. Len(list) \in Nat
    OBVIOUS
  <2>2. Len(new) = Len(list) + 1
    BY RowInserted
  <2>3. \A k \in 1..Len(list) + 1 :
            new[k] = IF k < p THEN list[k]
                     ELSE IF k = p THEN row ELSE list[k - 1]
    BY RowInserted
  <2> QED
    BY <2>1, <2>2, <2>3
<1> HIDE DEF new
<1>2. IdsOf(new) = {new[k].id : k \in 1..Len(list) + 1}
  BY <1>1 DEF IdsOf
<1>3. ASSUME NEW k \in 1..Len(list) + 1
      PROVE  new[k].id \in IdsOf(list) \cup {row.id}
  <2>1. \A i \in 1..Len(list) : list[i].id \in IdsOf(list)
    BY DEF IdsOf
  <2>2. CASE k < p
    BY <1>1, <2>1, <2>2
  <2>3. CASE ~(k < p) /\ k # p
    <3>1. k - 1 \in 1..Len(list) /\ new[k] = list[k - 1]
      BY <1>1, <2>3
    <3> QED
      BY <2>1, <3>1
  <2> QED
    BY <1>1, <2>2, <2>3
<1>4. new[p].id = row.id
  BY <1>1
<1>5. ASSUME NEW k \in 1..Len(list)
      PROVE  list[k].id \in IdsOf(new)
  <2>1. CASE k < p
    BY <1>1, <1>2, <2>1
  <2>2. CASE k >= p
    <3> DEFINE m == k + 1
    <3>1. m \in 1..Len(list) + 1 /\ ~(m < p) /\ m # p /\ m - 1 = k
      BY <1>1, <2>2
    <3> HIDE DEF m
    <3>2. new[m] = list[k]
      BY <1>1, <3>1
    <3> QED
      BY <1>2, <3>1, <3>2
  <2> QED
    BY <1>1, <2>1, <2>2
<1> QED
  BY <1>2, <1>3, <1>4, <1>5 DEF IdsOf, new

\* The scan of insertNewTopic: the first row that the new one precedes.
InsertionPos(list, row) ==
    Min({p \in 1..Len(list) + 1 : p = Len(list) + 1 \/ lessThan(row, list[p])})

LEMMA InsertOrdered ==
    ASSUME NEW list \in Seq(Row), NEW row \in Row
    PROVE  LET pos == InsertionPos(list, row)
           IN  /\ pos \in 1..Len(list) + 1
               /\ Ordered(list) /\ row.id \notin IdsOf(list)
                    => Ordered(InsertAt(list, pos, row))
<1> DEFINE P == {p \in 1..Len(list) + 1 : p = Len(list) + 1 \/ lessThan(row, list[p])}
           pos == InsertionPos(list, row)
           new == InsertAt(list, pos, row)
<1>1. Len(list) \in Nat /\ \A k \in 1..Len(list) : list[k] \in Row
  OBVIOUS
<1>2. P \subseteq Nat /\ P # {}
  BY <1>1
<1>3. pos \in P /\ \A p \in P : pos <= p
  <2>1. pos = Min(P)
    BY DEF InsertionPos
  <2> HIDE DEF P
  <2> QED
    BY <1>2, <2>1, MinOfPositions
<1> HIDE DEF pos
<1>4. pos \in 1..Len(list) + 1
  BY <1>3
<1> SUFFICES ASSUME Ordered(list), row.id \notin IdsOf(list)
             PROVE  Ordered(new)
  BY <1>4 DEF new, pos
<1>5. /\ Len(new) = Len(list) + 1
      /\ \A k \in 1..Len(list) + 1 :
            new[k] = IF k < pos THEN list[k]
                     ELSE IF k = pos THEN row ELSE list[k - 1]
  <2>1. new \in Seq(Row) /\ Len(new) = Len(list) + 1
    BY <1>4, RowInserted
  <2>2. \A k \in 1..Len(list) + 1 :
            new[k] = IF k < pos THEN list[k]
                     ELSE IF k = pos THEN row ELSE list[k - 1]
    BY ONLY <1>4, list \in Seq(Row), row \in Row, RowInserted
  <2> QED
    BY <2>1, <2>2
<1> HIDE DEF new
<1>6. \A k \in 1..Len(list) : list[k].id # row.id
  BY DEF IdsOf
<1>7. ASSUME NEW k \in 1..Len(list), k < pos
      PROVE  lessThan(list[k], row)
  <2>1. ~lessThan(row, list[k])
    BY <1>3, <1>7
  <2> QED
    BY <1>1, <1>6, <2>1, LessTotal
<1>8. ASSUME NEW k \in 1..Len(list), k >= pos
      PROVE  lessThan(row, list[k])
  <2>1. pos \in 1..Len(list) /\ lessThan(row, list[pos])
    BY <1>1, <1>3, <1>8
  <2>2. k = pos \/ lessThan(list[pos], list[k])
    BY <1>8, <2>1 DEF Ordered
  <2> QED
    BY <1>1, <2>1, <2>2, LessTransitive
<1>9. ASSUME NEW i \in 1..Len(list) + 1, NEW j \in 1..Len(list) + 1, i < j
      PROVE  new[i].id # new[j].id /\ lessThan(new[i], new[j])
  <2>1. CASE j < pos
    BY <1>1, <1>4, <1>5, <1>9, <2>1 DEF Ordered
  <2>2. CASE j = pos
    <3>1. new[i] = list[i] /\ new[j] = row /\ i \in 1..Len(list) /\ i < pos
      BY <1>1, <1>4, <1>5, <1>9, <2>2
    <3> QED
      BY <1>6, <1>7, <3>1
  <2>3. CASE j > pos
    <3>1. new[j] = list[j - 1] /\ j - 1 \in 1..Len(list) /\ j - 1 >= pos
      BY <1>1, <1>4, <1>5, <1>9, <2>3
    <3>2. CASE i < pos
      <4>1. new[i] = list[i] /\ i \in 1..Len(list) /\ i < j - 1
        BY <1>1, <1>4, <1>5, <1>9, <2>3, <3>2
      <4> QED
        BY <3>1, <4>1 DEF Ordered
    <3>3. CASE i = pos
      <4>1. new[i] = row
        BY <1>5, <3>3
      <4> QED
        BY <1>6, <1>8, <3>1, <4>1
    <3>4. CASE i > pos
      <4>1. new[i] = list[i - 1] /\ i - 1 \in 1..Len(list) /\ i - 1 < j - 1
        BY <1>1, <1>4, <1>5, <1>9, <2>3, <3>4
      <4> QED
        BY <3>1, <4>1 DEF Ordered
    <3> QED
      BY <1>4, <3>2, <3>3, <3>4
  <2> QED
    BY <1>1, <1>4, <2>1, <2>2, <2>3
<1> QED
  BY <1>5, <1>9 DEF Ordered

\* QList::takeAt of one topic.
LEMMA RemoveOrdered ==
    ASSUME NEW list \in Seq(Row), NEW i \in 1..Len(list)
    PROVE  LET rest == RemoveAt(list, i)
           IN  /\ IdsOf(rest) \subseteq IdsOf(list)
               /\ IdsOf(list) \subseteq IdsOf(rest) \cup {list[i].id}
               /\ Ordered(list) => Ordered(rest) /\ list[i].id \notin IdsOf(rest)
<1> DEFINE rest == RemoveAt(list, i)
<1>1. /\ Len(list) \in Nat /\ Len(rest) = Len(list) - 1
      /\ \A k \in 1..Len(list) - 1 :
            rest[k] = IF k < i THEN list[k] ELSE list[k + 1]
  <2>1. Len(list) \in Nat
    OBVIOUS
  <2> QED
    BY <2>1, RemoveAtProperties, Zenon
<1> HIDE DEF rest
\* Where a row was before.
<1> DEFINE old(k) == IF k < i THEN k ELSE k + 1
<1>2. ASSUME NEW k \in 1..Len(list) - 1
      PROVE  old(k) \in 1..Len(list) /\ old(k) # i /\ rest[k] = list[old(k)]
  BY <1>1
<1>3. \A j, k \in 1..Len(list) - 1 : j < k => old(j) < old(k)
  BY <1>1
<1>4. IdsOf(rest) = {rest[k].id : k \in 1..Len(list) - 1}
  BY <1>1 DEF IdsOf
<1>5. IdsOf(rest) \subseteq IdsOf(list)
  <2> HIDE DEF old
  <2> QED
    BY <1>2, <1>4 DEF IdsOf
<1>6. ASSUME NEW k \in 1..Len(list), k # i
      PROVE  list[k].id \in IdsOf(rest)
  <2>1. CASE k < i
    <3>1. k \in 1..Len(list) - 1 /\ rest[k] = list[k]
      BY <1>1, <2>1
    <3> QED
      BY <1>4, <3>1
  <2>2. CASE k > i
    <3> DEFINE m == k - 1
    <3>1. m \in 1..Len(list) - 1 /\ ~(m < i) /\ m + 1 = k
      BY <1>1, <2>2
    <3> HIDE DEF m
    <3>2. rest[m] = list[k]
      BY <1>1, <3>1
    <3> QED
      BY <1>4, <3>1, <3>2
  <2> QED
    BY <1>1, <1>6, <2>1, <2>2
<1>7. IdsOf(list) \subseteq IdsOf(rest) \cup {list[i].id}
  BY <1>6 DEF IdsOf
<1>8. ASSUME Ordered(list)
      PROVE  Ordered(rest) /\ list[i].id \notin IdsOf(rest)
  <2>1. ASSUME NEW j \in 1..Len(list) - 1, NEW k \in 1..Len(list) - 1, j < k
        PROVE  rest[j].id # rest[k].id /\ lessThan(rest[j], rest[k])
    <3>1. old(j) < old(k)
      BY <1>3, <2>1
    <3> HIDE DEF old
    <3> QED
      BY <1>2, <1>8, <3>1 DEF Ordered
  <2>2. ASSUME NEW k \in 1..Len(list) - 1
        PROVE  rest[k].id # list[i].id
    <3>1. old(k) < i \/ i < old(k)
      BY <1>1
    <3> HIDE DEF old
    <3> QED
      BY <1>2, <1>8, <3>1 DEF Ordered
  <2> QED
    BY <1>1, <1>4, <2>1, <2>2 DEF Ordered
<1> QED
  BY <1>5, <1>7, <1>8 DEF rest

-----------------------------------------------------------------------------
(***************************************************************************)
(* Moving a row                                                            *)
(***************************************************************************)

Moved(list, i, j) == InsertAt(RemoveAt(list, i), j, list[i])

\* Where the row at a position other than j was before the move.
Before(i, j, k) ==
    IF i <= k /\ k < j THEN k + 1 ELSE IF j < k /\ k <= i THEN k - 1 ELSE k

LEMMA MovedRows ==
    ASSUME NEW list \in Seq(Row), NEW i \in 1..Len(list), NEW j \in 1..Len(list)
    PROVE  LET new == Moved(list, i, j)
           IN  /\ new \in Seq(Row) /\ Len(new) = Len(list)
               /\ new[j] = list[i]
               /\ \A k \in 1..Len(list) : k # j =>
                    /\ Before(i, j, k) \in 1..Len(list) \ {i}
                    /\ new[k] = list[Before(i, j, k)]
<1> DEFINE new == Moved(list, i, j)
<1>1. /\ Moved(list, i, j) \in Seq(Row)
      /\ Len(Moved(list, i, j)) = Len(list)
      /\ \A k \in 1..Len(list) :
            Moved(list, i, j)[k] =
                IF k = j THEN list[i]
                ELSE IF i <= k /\ k < j THEN list[k + 1]
                ELSE IF j < k /\ k <= i THEN list[k - 1]
                ELSE list[k]
  BY ListMove DEF Moved
<1>2. new \in Seq(Row)
  BY <1>1
<1>3. Len(new) = Len(list)
  BY <1>1
<1>4. \A k \in 1..Len(list) :
        new[k] = IF k = j THEN list[i]
                 ELSE IF i <= k /\ k < j THEN list[k + 1]
                 ELSE IF j < k /\ k <= i THEN list[k - 1]
                 ELSE list[k]
  BY <1>1
<1> HIDE DEF new
<1>5. Len(list) \in Nat
  OBVIOUS
<1>6. new[j] = list[i]
  BY <1>4
<1>7. ASSUME NEW k \in 1..Len(list), k # j
      PROVE  /\ Before(i, j, k) \in 1..Len(list) \ {i}
             /\ new[k] = list[Before(i, j, k)]
  BY <1>4, <1>5, <1>7 DEF Before
<1> QED
  BY <1>2, <1>3, <1>6, <1>7 DEF new

\* The rows between the two positions are the same ones as before, and the
\* others stay where they are.
LEMMA MovedWithin ==
    ASSUME NEW list \in Seq(Row), NEW i \in 1..Len(list), NEW j \in 1..Len(list),
           NEW k \in 1..Len(list)
    PROVE  LET new == Moved(list, i, j)
               passed == Min({i, j})..Max({i, j})
           IN  /\ passed \subseteq 1..Len(list) /\ j \in passed
               /\ k \in passed => \E m \in passed : new[m] = list[k]
               /\ k \notin passed => new[k] = list[k]
<1> DEFINE new == Moved(list, i, j)
           lo == IF i < j THEN i ELSE j
           hi == IF i < j THEN j ELSE i
<1>1. Min({i, j}) = lo /\ Max({i, j}) = hi
  <2>1. {i, j} \subseteq 0..Len(list) /\ {i, j} # {} /\ Len(list) \in Nat
    OBVIOUS
  <2>2. Min({i, j}) \in {i, j} /\ \A y \in {i, j} : Min({i, j}) <= y
    BY <2>1, MinOfPositions
  <2>3. Max({i, j}) \in {i, j} /\ \A y \in {i, j} : Max({i, j}) >= y
    BY <2>1, MaxOfPositions
  <2> QED
    BY <2>1, <2>2, <2>3
<1>2. /\ new[j] = list[i]
      /\ \A m \in 1..Len(list) : m # j => new[m] = list[Before(i, j, m)]
  BY MovedRows
<1> HIDE DEF new
<1>3. Len(list) \in Nat /\ lo..hi \subseteq 1..Len(list) /\ j \in lo..hi
  OBVIOUS
<1>4. ASSUME k \in lo..hi
      PROVE  \E m \in lo..hi : new[m] = list[k]
  <2>1. CASE k = i
    BY <1>2, <1>3, <2>1
  <2>2. CASE i < k
    <3> DEFINE m == k - 1
    <3>1. m \in lo..hi /\ m \in 1..Len(list) /\ m # j /\ Before(i, j, m) = k
      BY <1>3, <1>4, <2>2 DEF Before
    <3> HIDE DEF m
    <3> QED
      BY <1>2, <3>1
  <2>3. CASE k < i
    <3> DEFINE m == k + 1
    <3>1. m \in lo..hi /\ m \in 1..Len(list) /\ m # j /\ Before(i, j, m) = k
      BY <1>3, <1>4, <2>3 DEF Before
    <3> HIDE DEF m
    <3> QED
      BY <1>2, <3>1
  <2> QED
    BY <2>1, <2>2, <2>3
<1>5. ASSUME k \notin lo..hi
      PROVE  new[k] = list[k]
  BY <1>2, <1>3, <1>5 DEF Before
<1> HIDE DEF lo, hi
<1> QED
  BY <1>1, <1>3, <1>4, <1>5 DEF new

LEMMA MovedIds ==
    ASSUME NEW list \in Seq(Row), NEW i \in 1..Len(list), NEW j \in 1..Len(list)
    PROVE  /\ IdsOf(Moved(list, i, j)) = IdsOf(list)
           /\ \A k \in 1..Len(list) : \E m \in 1..Len(list) :
                Moved(list, i, j)[k] = list[m]
<1> DEFINE new == Moved(list, i, j)
<1>1. /\ Len(new) = Len(list) /\ new[j] = list[i]
      /\ \A k \in 1..Len(list) : k # j =>
            /\ Before(i, j, k) \in 1..Len(list) \ {i}
            /\ new[k] = list[Before(i, j, k)]
  BY MovedRows
<1>2. ASSUME NEW k \in 1..Len(list)
      PROVE  \E m \in 1..Len(list) : new[m] = list[k]
  <2> DEFINE passed == Min({i, j})..Max({i, j})
  <2>1. /\ passed \subseteq 1..Len(list)
        /\ k \in passed => \E m \in passed : new[m] = list[k]
        /\ k \notin passed => new[k] = list[k]
    BY MovedWithin
  <2> HIDE DEF passed, new
  <2> QED
    BY <2>1
<1> HIDE DEF new
<1>3. \A k \in 1..Len(list) : \E m \in 1..Len(list) : new[k] = list[m]
  BY <1>1
<1>4. IdsOf(new) = IdsOf(list)
  <2>1. IdsOf(new) = {new[k].id : k \in 1..Len(list)}
    BY <1>1 DEF IdsOf
  <2>2. ASSUME NEW k \in 1..Len(list)
        PROVE  new[k].id \in IdsOf(list)
    <3>1. PICK m \in 1..Len(list) : new[k] = list[m]
      BY <1>3
    <3> QED
      BY <3>1 DEF IdsOf
  <2>3. IdsOf(list) \subseteq IdsOf(new)
    BY <1>2, <2>1 DEF IdsOf
  <2> QED
    BY <2>1, <2>2, <2>3
<1> QED
  BY <1>3, <1>4 DEF new

\* The two scans stop at a row.
LEMMA NewIndexScans ==
    ASSUME NEW list \in Seq(Row), NEW i \in 1..Len(list)
    PROVE  \E up \in 1..i, down \in i..Len(list) :
             /\ NewIndex(list, i) = IF up # i THEN up ELSE down
             /\ \A q \in up..i - 1 : lessThan(list[i], list[q])
             /\ up > 1 => ~lessThan(list[i], list[up - 1])
             /\ \A q \in i + 1..down : ~lessThan(list[i], list[q])
             /\ down < Len(list) => lessThan(list[i], list[down + 1])
<1> DEFINE U == {p \in 1..i : \A q \in p..i - 1 : lessThan(list[i], list[q])}
           D == {p \in i..Len(list) : \A q \in i + 1..p : ~lessThan(list[i], list[q])}
           up == Min(U)
           down == Max(D)
<1>1. Len(list) \in Nat
  OBVIOUS
<1>2. NewIndex(list, i) = IF up # i THEN up ELSE down
  BY Zenon DEF NewIndex
<1>3. U \subseteq Nat /\ i \in U
  BY <1>1
<1>4. D \subseteq 0..Len(list) /\ i \in D
  BY <1>1
<1>5. up \in U /\ \A p \in U : up <= p
  <2> HIDE DEF U
  <2> QED
    BY <1>3, MinOfPositions
<1>6. down \in D /\ \A p \in D : down >= p
  <2> HIDE DEF D
  <2> QED
    BY <1>1, <1>4, MaxOfPositions
<1> HIDE DEF up, down
<1>7. ASSUME up > 1
      PROVE  ~lessThan(list[i], list[up - 1])
  <2>1. up - 1 \in 1..i /\ up - 1 \notin U
    <3>1. up \in 1..i /\ i \in Nat
      BY <1>5
    <3> HIDE DEF U
    <3> QED
      BY <1>5, <1>7, <3>1
  <2>2. PICK q \in (up - 1)..i - 1 : ~lessThan(list[i], list[q])
    BY <2>1
  <2>3. q = up - 1 \/ q \in up..i - 1
    BY <1>5, <2>2
  <2> QED
    BY <1>5, <2>2, <2>3
<1>8. ASSUME down < Len(list)
      PROVE  lessThan(list[i], list[down + 1])
  <2>1. down + 1 \in i..Len(list) /\ down + 1 \notin D
    BY <1>1, <1>6, <1>8
  <2>2. PICK q \in i + 1..down + 1 : lessThan(list[i], list[q])
    BY <2>1
  <2>3. q = down + 1 \/ q \in i + 1..down
    BY <1>1, <1>6, <2>2
  <2> QED
    BY <1>6, <2>2, <2>3
<1>9. up \in 1..i /\ down \in i..Len(list)
  BY <1>5, <1>6
<1>10. /\ \A q \in up..i - 1 : lessThan(list[i], list[q])
       /\ \A q \in i + 1..down : ~lessThan(list[i], list[q])
  BY <1>5, <1>6
<1> QED
  BY <1>2, <1>7, <1>8, <1>9, <1>10, Zenon

\* In a list that is in order but for the row at i, the scans stop where that
\* row belongs.
LEMMA NewIndexCorrect ==
    ASSUME NEW list \in Seq(Row), NEW i \in 1..Len(list),
           \A k \in 1..Len(list) : k # i => list[k].id # list[i].id,
           \A p, q \in 1..Len(list) \ {i} : p < q => lessThan(list[p], list[q])
    PROVE  LET j == NewIndex(list, i)
           IN  /\ j \in 1..Len(list)
               /\ \A k \in 1..Len(list) \ {i} :
                    /\ k < j \/ (k = j /\ i < j) => lessThan(list[k], list[i])
                    /\ k > j \/ (k = j /\ j < i) => lessThan(list[i], list[k])
<1> DEFINE j == NewIndex(list, i)
<1>1. Len(list) \in Nat /\ \A k \in 1..Len(list) : list[k] \in Row
  OBVIOUS
<1>2. PICK up \in 1..i, down \in i..Len(list) :
        /\ j = IF up # i THEN up ELSE down
        /\ \A q \in up..i - 1 : lessThan(list[i], list[q])
        /\ up > 1 => ~lessThan(list[i], list[up - 1])
        /\ \A q \in i + 1..down : ~lessThan(list[i], list[q])
        /\ down < Len(list) => lessThan(list[i], list[down + 1])
  BY NewIndexScans
<1> HIDE DEF j
\* The rows above the stop of the upward scan stay above.
<1>3. ASSUME NEW k \in 1..up - 1
      PROVE  lessThan(list[k], list[i])
  <2>1. up - 1 \in 1..Len(list) \ {i} /\ k \in 1..Len(list) \ {i} /\ k <= up - 1 /\ up > 1
    BY <1>1
  <2>2. lessThan(list[up - 1], list[i])
    BY <1>1, <1>2, <2>1, LessTotal
  <2>3. k = up - 1 \/ lessThan(list[k], list[up - 1])
    BY <2>1
  <2> QED
    BY <1>1, <2>1, <2>2, <2>3, LessTransitive
\* The rows below the stop of the downward scan stay below.
<1>4. ASSUME NEW k \in down + 1..Len(list)
      PROVE  lessThan(list[i], list[k])
  <2>1. /\ down + 1 \in 1..Len(list) \ {i} /\ k \in 1..Len(list) \ {i}
        /\ down + 1 <= k /\ down < Len(list)
    BY <1>1
  <2>2. lessThan(list[i], list[down + 1])
    BY <1>2, <2>1
  <2>3. k = down + 1 \/ lessThan(list[down + 1], list[k])
    BY <2>1
  <2> QED
    BY <1>1, <2>1, <2>2, <2>3, LessTransitive
<1>5. CASE up # i
  <2>1. j = up /\ up < i
    BY <1>2, <1>5
  <2>2. ASSUME NEW k \in up..Len(list), k # i
        PROVE  lessThan(list[i], list[k])
    <3>1. lessThan(list[i], list[up])
      BY <1>2, <2>1
    <3>2. up \in 1..Len(list) \ {i} /\ k \in 1..Len(list) \ {i}
      BY <1>1, <2>1, <2>2
    <3>3. k = up \/ lessThan(list[up], list[k])
      BY <2>2, <3>2
    <3> QED
      BY <1>1, <3>1, <3>2, <3>3, LessTransitive
  <2>3. j \in 1..Len(list)
    BY <1>1, <2>1
  <2>4. ASSUME NEW k \in 1..Len(list) \ {i}
        PROVE  /\ k < j \/ (k = j /\ i < j) => lessThan(list[k], list[i])
               /\ k > j \/ (k = j /\ j < i) => lessThan(list[i], list[k])
    BY <1>1, <1>3, <2>1, <2>2
  <2> QED
    BY <2>3, <2>4 DEF j
<1>6. CASE up = i
  <2>1. j = down
    BY <1>2, <1>6
  <2>2. ASSUME NEW k \in i + 1..down
        PROVE  lessThan(list[k], list[i])
    <3>1. k \in 1..Len(list) /\ k # i
      BY <1>1
    <3> QED
      BY <1>1, <1>2, <3>1, LessTotal
  <2>3. j \in 1..Len(list)
    BY <1>1, <2>1
  <2>4. ASSUME NEW k \in 1..Len(list) \ {i}
        PROVE  /\ k < j \/ (k = j /\ i < j) => lessThan(list[k], list[i])
               /\ k > j \/ (k = j /\ j < i) => lessThan(list[i], list[k])
    BY <1>1, <1>3, <1>4, <1>6, <2>1, <2>2
  <2> QED
    BY <2>3, <2>4 DEF j
<1> QED
  BY <1>5, <1>6

LEMMA NewIndexType ==
    ASSUME NEW list \in Seq(Row), NEW i \in 1..Len(list)
    PROVE  NewIndex(list, i) \in 1..Len(list)
<1>1. PICK up \in 1..i, down \in i..Len(list) :
        NewIndex(list, i) = IF up # i THEN up ELSE down
  BY NewIndexScans
<1>2. Len(list) \in Nat
  OBVIOUS
<1> QED
  BY <1>1, <1>2

\* updateForumTopicOrder restores the order of a list of which one row changed.
LEMMA MoveOrdered ==
    ASSUME NEW list \in Seq(Row), NEW i \in 1..Len(list),
           \A p, q \in 1..Len(list) : p # q => list[p].id # list[q].id,
           \A p, q \in 1..Len(list) \ {i} : p < q => lessThan(list[p], list[q])
    PROVE  Ordered(Moved(list, i, NewIndex(list, i)))
<1> DEFINE j == NewIndex(list, i)
           new == Moved(list, i, j)
           old(k) == Before(i, j, k)
<1>1. /\ j \in 1..Len(list)
      /\ \A k \in 1..Len(list) \ {i} :
            /\ k < j \/ (k = j /\ i < j) => lessThan(list[k], list[i])
            /\ k > j \/ (k = j /\ j < i) => lessThan(list[i], list[k])
  BY NewIndexCorrect
<1> HIDE DEF j
<1>2. /\ Len(new) = Len(list) /\ new[j] = list[i]
      /\ \A k \in 1..Len(list) : k # j =>
            old(k) \in 1..Len(list) \ {i} /\ new[k] = list[old(k)]
  BY <1>1, MovedRows
<1>3. Len(list) \in Nat
  OBVIOUS
<1>4. ASSUME NEW k \in 1..Len(list), k # j
      PROVE  /\ k < j => old(k) < j \/ (old(k) = j /\ i < j)
             /\ k > j => old(k) > j \/ (old(k) = j /\ j < i)
  BY <1>1, <1>3, <1>4 DEF Before
<1>5. ASSUME NEW p \in 1..Len(list), NEW q \in 1..Len(list), p < q, p # j, q # j
      PROVE  old(p) < old(q)
  BY <1>1, <1>3, <1>5 DEF Before
<1> HIDE DEF new, old
<1>6. ASSUME NEW p \in 1..Len(list), NEW q \in 1..Len(list), p < q
      PROVE  new[p].id # new[q].id /\ lessThan(new[p], new[q])
  <2>1. CASE p = j
    <3>1. q # j /\ q > j /\ new[p] = list[i] /\ new[q] = list[old(q)]
      BY <1>1, <1>2, <1>6, <2>1
    <3>2. old(q) \in 1..Len(list) \ {i} /\ (old(q) > j \/ (old(q) = j /\ j < i))
      BY <1>2, <1>4, <3>1
    <3> QED
      BY <1>1, <3>1, <3>2
  <2>2. CASE q = j
    <3>1. p # j /\ p < j /\ new[q] = list[i] /\ new[p] = list[old(p)]
      BY <1>1, <1>2, <1>6, <2>2
    <3>2. old(p) \in 1..Len(list) \ {i} /\ (old(p) < j \/ (old(p) = j /\ i < j))
      BY <1>2, <1>4, <3>1
    <3> QED
      BY <1>1, <3>1, <3>2
  <2>3. CASE p # j /\ q # j
    <3>1. old(p) < old(q)
      BY <1>5, <1>6, <2>3
    <3>2. /\ old(p) \in 1..Len(list) \ {i} /\ new[p] = list[old(p)]
          /\ old(q) \in 1..Len(list) \ {i} /\ new[q] = list[old(q)]
      BY <1>2, <2>3
    <3> QED
      BY <3>1, <3>2
  <2> QED
    BY <2>1, <2>2, <2>3
<1>7. Ordered(new)
  BY <1>2, <1>6 DEF Ordered
<1> QED
  BY <1>7 DEF new, j

-----------------------------------------------------------------------------
(***************************************************************************)
(* The index maps                                                          *)
(***************************************************************************)

\* Every topic in the map is found at its row, or is one of the rows at R,
\* which are still to be entered.
Points(map, list, R) ==
    \A t \in DOMAIN map :
        \/ \E i \in R : list[i].id = t
        \/ map[t] \in 1..Len(list) /\ list[map[t]].id = t

\* The two uses of Inserted: by topic, and by last message.
WithIds(map, list, R) == Inserted(map, list, IdOf, R)
WithLasts(map, list, R) == Inserted(map, list, LastOf, R)

\* Entering the rows at positions R: what is in the map,
LEMMA InsertedDomain ==
    ASSUME NEW list, NEW map, NEW R
    PROVE  DOMAIN WithIds(map, list, R) = DOMAIN map \cup {list[i].id : i \in R}
  BY DEF WithIds, Inserted, IdOf

\* and where a topic is found: at one of those rows, or where it was before if
\* none of them is its row.
Entered(new, map, list, R) ==
    \A k \in DOMAIN new :
        \/ new[k] \in R /\ list[new[k]].id = k
        \/ k \in DOMAIN map /\ new[k] = map[k] /\ ~\E i \in R : list[i].id = k

LEMMA InsertedAt ==
    ASSUME NEW list, Len(list) \in Nat, NEW map, NEW R, R \subseteq 1..Len(list)
    PROVE  Entered(WithIds(map, list, R), map, list, R)
<1> SUFFICES ASSUME NEW k \in DOMAIN WithIds(map, list, R)
             PROVE  LET new == WithIds(map, list, R)
                    IN  \/ new[k] \in R /\ list[new[k]].id = k
                        \/ /\ k \in DOMAIN map /\ new[k] = map[k]
                           /\ ~\E i \in R : list[i].id = k
  BY Zenon DEF Entered
<1> DEFINE Here == {i \in R : list[i].id = k}
           new == WithIds(map, list, R)
<1>1. k \in DOMAIN map \cup {list[i].id : i \in R}
  BY InsertedDomain
<1>2. new[k] = IF Here = {} THEN map[k] ELSE Max(Here)
  BY <1>1 DEF WithIds, Inserted, IdOf
<1> HIDE DEF new
<1>3. CASE Here = {}
  <2>1. new[k] = map[k]
    BY <1>2, <1>3
  <2>2. ~\E i \in R : list[i].id = k
    BY <1>3
  <2>3. k \in DOMAIN map
    BY <1>1, <2>2
  <2> QED
    BY <2>1, <2>2, <2>3 DEF new
<1>4. CASE Here # {}
  <2>1. new[k] = Max(Here)
    BY <1>2, <1>4, Zenon
  <2>2. Here \subseteq 0..Len(list)
    <3>1. 1..Len(list) \subseteq 0..Len(list)
      OBVIOUS
    <3>2. Here \subseteq R
      OBVIOUS
    <3> QED
      BY <3>1, <3>2, Zenon
  <2>3. Max(Here) \in Here
    <3> HIDE DEF Here
    <3> QED
      BY <1>4, <2>2, MaxOfPositions
  <2> QED
    BY <2>1, <2>3 DEF new
<1> QED
  BY <1>3, <1>4

LEMMA InsertedPoints ==
    ASSUME NEW list, Len(list) \in Nat, NEW map, NEW R, NEW T,
           T \subseteq 1..Len(list),
           NEW U, U \subseteq R \cup T, Points(map, list, U)
    PROVE  Points(WithIds(map, list, T), list, R)
<1> DEFINE new == WithIds(map, list, T)
<1>1. Entered(new, map, list, T)
  BY InsertedAt
<1> HIDE DEF new
<1>2. ASSUME NEW k \in DOMAIN new
      PROVE  \/ \E i \in R : list[i].id = k
             \/ new[k] \in 1..Len(list) /\ list[new[k]].id = k
  <2>1. CASE new[k] \in T /\ list[new[k]].id = k
    BY <2>1
  <2>2. CASE k \in DOMAIN map /\ new[k] = map[k] /\ ~\E i \in T : list[i].id = k
    <3>1. \/ \E i \in U : list[i].id = k
          \/ map[k] \in 1..Len(list) /\ list[map[k]].id = k
      BY <2>2 DEF Points
    <3> QED
      BY <2>2, <3>1
  <2> QED
    BY <1>1, <2>1, <2>2 DEF Entered
<1>3. Points(new, list, R)
  BY <1>2 DEF Points
<1> QED
  BY <1>3 DEF new

-----------------------------------------------------------------------------
(***************************************************************************)
(* What is true of the list and its maps between two operations            *)
(***************************************************************************)

\* Rows show messages up to m.
RowsUpTo(list, m) == list \in Seq(Row) /\ \A i \in 1..Len(list) : list[i].last <= m

\* The map by last message has keys of two kinds, since entries are also made
\* under the identifier of the topic, and positions that may be out of date.
LastsUpTo(map, m) ==
    /\ DOMAIN map \subseteq Topics \cup 1..m
    /\ \A k \in DOMAIN map : map[k] \in Nat \ {0}

\* c says that every page so far belonged below the rows it met.
ListSound(list, ids, lasts, m, c) ==
    /\ RowsUpTo(list, m)
    /\ LastsUpTo(lasts, m)
    /\ DOMAIN ids \subseteq Topics
    /\ Points(ids, list, {})
    /\ c => Ordered(list) /\ DOMAIN ids = IdsOf(list)

LEMMA Identifiers ==
    ASSUME NEW list \in Seq(Row)
    PROVE  /\ Len(list) \in Nat /\ DOMAIN list = 1..Len(list)
           /\ IdsOf(list) \subseteq Topics
           /\ \A i \in 1..Len(list) : list[i] \in Row /\ list[i].id \in Topics
<1>1. Len(list) \in Nat /\ DOMAIN list = 1..Len(list)
  OBVIOUS
<1>2. \A i \in 1..Len(list) : list[i] \in Row
  OBVIOUS
<1>3. \A i \in 1..Len(list) : list[i].id \in Topics
  BY <1>2 DEF Row
<1> QED
  BY <1>1, <1>2, <1>3 DEF IdsOf

\* Entries of the map by last message, under either key.
LEMMA LastsEntered ==
    ASSUME NEW m \in 0..MaxMsg, NEW list, RowsUpTo(list, m),
           NEW map, LastsUpTo(map, m), NEW R, R \subseteq 1..Len(list)
    PROVE  LastsUpTo(WithLasts(map, list, R), m) /\ LastsUpTo(WithIds(map, list, R), m)
<1> DEFINE old == WithIds(map, list, R)
           new == WithLasts(map, list, R)
           Here(k) == {i \in R : list[i].last = k}
<1>1. /\ Len(list) \in Nat
      /\ \A i \in 1..Len(list) : list[i].id \in Topics
  BY Identifiers DEF RowsUpTo
<1>2. \A i \in 1..Len(list) : list[i].last \in 1..m
  <2> SUFFICES ASSUME NEW i \in 1..Len(list) PROVE list[i].last \in 1..m
    OBVIOUS
  <2>1. list[i] \in Row /\ list[i].last <= m
    BY DEF RowsUpTo
  <2>2. list[i].last \in 1..MaxMsg
    BY <2>1 DEF Row, MsgIds
  <2> QED
    BY <2>1, <2>2, ForumAssumption
<1>3. LastsUpTo(old, m)
  <2>1. Entered(old, map, list, R)
    BY <1>1, InsertedAt
  <2>2. DOMAIN old = DOMAIN map \cup {list[i].id : i \in R}
    BY InsertedDomain
  <2> HIDE DEF old
  <2>3. DOMAIN old \subseteq Topics \cup 1..m
    BY <1>1, <2>2 DEF LastsUpTo
  <2>4. \A k \in DOMAIN old : old[k] \in Nat \ {0}
    <3>1. R \subseteq Nat \ {0}
      BY <1>1
    <3> QED
      BY <2>1, <3>1 DEF Entered, LastsUpTo
  <2> QED
    BY <2>3, <2>4 DEF LastsUpTo
<1>4. DOMAIN new = DOMAIN map \cup {list[i].last : i \in R}
  BY DEF WithLasts, Inserted, LastOf
<1>5. DOMAIN new \subseteq Topics \cup 1..m
  BY <1>2, <1>4 DEF LastsUpTo
<1>6. ASSUME NEW k \in DOMAIN new
      PROVE  new[k] \in Nat \ {0}
  <2>1. new[k] = IF Here(k) = {} THEN map[k] ELSE Max(Here(k))
    BY <1>4 DEF WithLasts, Inserted, LastOf
  <2>2. CASE Here(k) = {}
    <3>1. k \in DOMAIN map
      BY <1>4, <2>2
    <3> QED
      BY <2>1, <2>2, <3>1 DEF LastsUpTo
  <2>3. CASE Here(k) # {}
    <3>1. Here(k) \subseteq 0..Len(list) /\ Here(k) \subseteq 1..Len(list)
      <4>1. 1..Len(list) \subseteq 0..Len(list)
        BY <1>1
      <4>2. Here(k) \subseteq R
        OBVIOUS
      <4> QED
        BY <4>1, <4>2, Zenon
    <3>2. Max(Here(k)) \in Here(k)
      <4> HIDE DEF Here
      <4> QED
        BY <1>1, <2>3, <3>1, MaxOfPositions
    <3> HIDE DEF Here, new
    <3> QED
      BY <1>1, <2>1, <2>3, <3>1, <3>2
  <2> QED
    BY <2>2, <2>3
<1> HIDE DEF new, old
<1>7. LastsUpTo(new, m)
  BY <1>5, <1>6 DEF LastsUpTo
<1> QED
  BY <1>3, <1>7 DEF new, old

LEMMA LastsRemoved ==
    ASSUME NEW m, NEW map, LastsUpTo(map, m), NEW k
    PROVE  LastsUpTo(Without(map, k), m)
  BY DEF LastsUpTo, Without, Restrict

LEMMA LastsLater ==
    ASSUME NEW m \in Nat, NEW n \in Nat, m <= n, NEW map, LastsUpTo(map, m)
    PROVE  LastsUpTo(map, n)
<1>1. 1..m \subseteq 1..n
  OBVIOUS
<1> QED
  BY <1>1 DEF LastsUpTo

\* insertNewTopic
LEMMA TopicInserted ==
    ASSUME NEW m \in 0..MaxMsg, NEW c \in BOOLEAN,
           ListSound(topics, topicIndexMap, topicLastMessageIdIndexMap, m, c),
           NEW row \in Row, row.last <= m, row.id \notin DOMAIN topicIndexMap,
           insertNewTopic(row)
    PROVE  /\ ListSound(topics', topicIndexMap', topicLastMessageIdIndexMap', m, c)
           /\ IdsOf(topics') = IdsOf(topics) \cup {row.id}
<1> DEFINE pos == InsertionPos(topics, row)
           new == InsertAt(topics, pos, row)
           R == pos..Len(topics) + 1
           map == topicIndexMap
<1>1. topics \in Seq(Row) /\ Len(topics) \in Nat
  BY Identifiers DEF ListSound, RowsUpTo
<1>2. /\ topics' = new
      /\ topicIndexMap' = WithIds(map, new, R)
      /\ topicLastMessageIdIndexMap' = WithLasts(topicLastMessageIdIndexMap, new, R)
  BY Zenon DEF insertNewTopic, Reindex, InsertionPos, WithIds, WithLasts
<1>3. /\ pos \in 1..Len(topics) + 1
      /\ Ordered(topics) /\ row.id \notin IdsOf(topics) => Ordered(new)
  BY <1>1, InsertOrdered
<1> HIDE DEF pos
<1>4. new \in Seq(Row) /\ Len(new) = Len(topics) + 1
  <2>1. new \in Seq(Row)
    BY <1>1, <1>3, RowInserted
  <2>2. Len(new) = Len(topics) + 1
    BY <1>1, <1>3, RowInserted
  <2> QED
    BY <2>1, <2>2
<1>5. \A k \in 1..Len(topics) + 1 :
            new[k] = IF k < pos THEN topics[k]
                     ELSE IF k = pos THEN row ELSE topics[k - 1]
  BY <1>1, <1>3, RowInserted
<1>6. IdsOf(new) = IdsOf(topics) \cup {row.id}
  BY <1>1, <1>3, InsertIds
<1> HIDE DEF new
<1>7. RowsUpTo(new, m)
  <2>1. \A k \in 1..Len(topics) : topics[k].last <= m
    BY DEF RowsUpTo, ListSound
  <2>2. ASSUME NEW k \in 1..Len(topics) + 1
        PROVE  new[k].last <= m
    BY <1>1, <1>3, <1>5, <2>1
  <2> QED
    BY <1>4, <2>2 DEF RowsUpTo
<1>8. R \subseteq 1..Len(new)
  BY <1>1, <1>3, <1>4
<1>9. Points(map, new, R)
  <2> SUFFICES ASSUME NEW t \in DOMAIN map
               PROVE  \/ \E i \in R : new[i].id = t
                      \/ map[t] \in 1..Len(new) /\ new[map[t]].id = t
    BY DEF Points
  <2>1. map[t] \in 1..Len(topics) /\ topics[map[t]].id = t
    BY DEF ListSound, Points
  <2>2. CASE map[t] < pos
    BY <1>1, <1>4, <1>5, <2>1, <2>2
  <2>3. CASE map[t] >= pos
    <3> DEFINE k == map[t] + 1
    <3>1. k \in R /\ k \in 1..Len(topics) + 1 /\ ~(k < pos) /\ k # pos /\ k - 1 = map[t]
      BY <1>1, <1>3, <2>1, <2>3
    <3> HIDE DEF k, R
    <3>2. new[k] = topics[map[t]]
      BY <1>5, <3>1
    <3> QED
      BY <2>1, <3>1, <3>2
  <2> QED
    BY <1>3, <2>1, <2>2, <2>3
<1>10. \A k \in R : new[k].id \in IdsOf(new)
  BY <1>8 DEF IdsOf
<1>11. DOMAIN WithIds(map, new, R) = DOMAIN map \cup {new[k].id : k \in R}
  <2> HIDE DEF R, map
  <2> QED
    BY InsertedDomain
<1>12. Points(WithIds(map, new, R), new, {})
  <2> HIDE DEF R, map
  <2>1. Len(new) \in Nat /\ R \subseteq {} \cup R
    BY <1>1, <1>4
  <2> QED
    BY <2>1, <1>8, <1>9, InsertedPoints, Zenon
<1>13. LastsUpTo(WithLasts(topicLastMessageIdIndexMap, new, R), m)
  <2> HIDE DEF R
  <2>1. LastsUpTo(topicLastMessageIdIndexMap, m)
    BY DEF ListSound
  <2> QED
    BY <1>7, <1>8, <2>1, LastsEntered
<1>14. DOMAIN WithIds(map, new, R) \subseteq Topics
  <2>1. IdsOf(new) \subseteq Topics
    BY <1>4, Identifiers
  <2> HIDE DEF R
  <2> QED
    BY <1>10, <1>11, <2>1 DEF ListSound
<1>15. ASSUME c
       PROVE  Ordered(new) /\ DOMAIN WithIds(map, new, R) = IdsOf(new)
  <2>1. Ordered(topics) /\ DOMAIN map = IdsOf(topics)
    BY <1>15 DEF ListSound
  <2>2. new[pos].id = row.id /\ pos \in R
    BY <1>1, <1>3, <1>5
  <2> HIDE DEF R
  <2> QED
    BY <1>3, <1>6, <1>10, <1>11, <2>1, <2>2
<1> HIDE DEF R, map
<1>16. ListSound(new, WithIds(map, new, R),
                 WithLasts(topicLastMessageIdIndexMap, new, R), m, c)
  BY <1>7, <1>12, <1>13, <1>14, <1>15 DEF ListSound
<1> QED
  BY <1>2, <1>6, <1>16, Zenon

\* updateForumTopicOrder, of a list of which the row at i may have changed.
LEMMA OrderUpdated ==
    ASSUME NEW m \in 0..MaxMsg, NEW c \in BOOLEAN,
           NEW list, RowsUpTo(list, m), NEW lasts, LastsUpTo(lasts, m),
           NEW i \in 1..Len(list),
           DOMAIN topicIndexMap \subseteq Topics, Points(topicIndexMap, list, {}),
           c => /\ \A p, q \in 1..Len(list) : p # q => list[p].id # list[q].id
                /\ \A p, q \in 1..Len(list) \ {i} : p < q => lessThan(list[p], list[q])
                /\ DOMAIN topicIndexMap = IdsOf(list),
           updateForumTopicOrder(list, lasts, i)
    PROVE  /\ ListSound(topics', topicIndexMap', topicLastMessageIdIndexMap', m, c)
           /\ IdsOf(topics') = IdsOf(list)
<1> DEFINE j == NewIndex(list, i)
           new == Moved(list, i, j)
           passed == Min({i, j})..Max({i, j})
           map == topicIndexMap
           map1 == WithIds(map, new, {j})
           map2 == WithIds(map1, new, passed \ {j})
<1>1. list \in Seq(Row)
  BY DEF RowsUpTo
<1>2. Len(list) \in Nat
  BY <1>1, Identifiers
<1>3. /\ topics' = new
      /\ i = j => topicIndexMap' = map /\ topicLastMessageIdIndexMap' = lasts
      /\ i # j => /\ topicIndexMap' = map2
                  /\ topicLastMessageIdIndexMap' = WithLasts(lasts, new, passed \ {j})
  BY Zenon DEF updateForumTopicOrder, Moved, WithIds, WithLasts
<1>4. j \in 1..Len(list)
  BY <1>1, NewIndexType
<1>5. c => Ordered(new)
  BY <1>1, MoveOrdered
<1> HIDE DEF j
<1>6. /\ IdsOf(new) = IdsOf(list)
      /\ \A k \in 1..Len(list) : \E n \in 1..Len(list) : new[k] = list[n]
  BY <1>1, <1>4, MovedIds
<1>7. new \in Seq(Row) /\ Len(new) = Len(list)
  BY <1>1, <1>4, MovedRows
<1>8. \A k \in 1..Len(list) :
        /\ passed \subseteq 1..Len(list) /\ j \in passed
        /\ k \in passed => \E n \in passed : new[n] = list[k]
        /\ k \notin passed => new[k] = list[k]
  BY <1>1, <1>4, MovedWithin
<1>9. i = j => \A k \in 1..Len(list) : new[k] = list[k]
  <2>1. /\ new[j] = list[i]
        /\ \A k \in 1..Len(list) : k # j => new[k] = list[Before(i, j, k)]
    BY <1>1, <1>4, MovedRows
  <2>2. i = j => \A k \in 1..Len(list) : Before(i, j, k) = k
    BY <1>2 DEF Before
  <2> HIDE DEF new
  <2> QED
    BY <2>1, <2>2
<1> HIDE DEF new, passed
<1>10. RowsUpTo(new, m)
  BY <1>6, <1>7 DEF RowsUpTo
<1>11. passed \subseteq 1..Len(new) /\ j \in passed
  BY <1>4, <1>7, <1>8
<1>12. \A t \in DOMAIN map : map[t] \in 1..Len(list) /\ list[map[t]].id = t
  BY DEF Points
<1>13. CASE i = j
  <2>1. Points(map, new, {})
    BY <1>7, <1>9, <1>12, <1>13 DEF Points
  <2>2. c => Ordered(new) /\ DOMAIN map = IdsOf(new)
    BY <1>5, <1>6
  <2>3. ListSound(new, map, lasts, m, c)
    BY <1>10, <2>1, <2>2 DEF ListSound
  <2> QED
    BY <1>3, <1>6, <1>13, <2>3
<1>14. CASE i # j
  <2>1. Len(new) \in Nat /\ {j} \subseteq 1..Len(new) /\ passed \ {j} \subseteq 1..Len(new)
    BY <1>2, <1>7, <1>11
  <2>2. Points(map, new, passed)
    <3> SUFFICES ASSUME NEW t \in DOMAIN map
                 PROVE  \/ \E k \in passed : new[k].id = t
                        \/ map[t] \in 1..Len(new) /\ new[map[t]].id = t
      BY DEF Points
    <3>1. map[t] \in 1..Len(list) /\ list[map[t]].id = t
      BY <1>12
    <3>2. CASE map[t] \in passed
      BY <1>8, <3>1, <3>2
    <3>3. CASE map[t] \notin passed
      BY <1>7, <1>8, <3>1, <3>3
    <3> QED
      BY <3>2, <3>3
  <2> DEFINE others == passed \ {j}
  <2>3. others \subseteq 1..Len(new) /\ passed \subseteq others \cup {j}
    BY <2>1
  <2>4. DOMAIN map1 = DOMAIN map \cup {new[k].id : k \in {j}}
    BY DEF WithIds, Inserted, IdOf
  <2>5. DOMAIN map2 = DOMAIN map1 \cup {new[k].id : k \in others}
    <3>1. map2 = WithIds(map1, new, others)
      OBVIOUS
    <3> HIDE DEF others, map1, map2
    <3> QED
      BY <3>1, InsertedDomain
  <2>6. Points(map1, new, others)
    <3> HIDE DEF others, map
    <3> QED
      BY <2>1, <2>2, <2>3, InsertedPoints, Zenon
  <2> HIDE DEF map1
  <2>7. Points(map2, new, {})
    <3>1. others \subseteq {} \cup others
      OBVIOUS
    <3>2. map2 = WithIds(map1, new, others)
      OBVIOUS
    <3> HIDE DEF others, map2
    <3> QED
      BY <2>1, <2>3, <2>6, <3>1, <3>2, InsertedPoints, Zenon
  <2>8. LastsUpTo(WithLasts(lasts, new, others), m)
    <3> HIDE DEF others
    <3> QED
      BY <1>10, <2>3, LastsEntered
  <2> HIDE DEF map2, others
  <2>9. \A k \in 1..Len(new) : new[k].id \in IdsOf(new)
    BY DEF IdsOf
  <2>10. DOMAIN map2 = DOMAIN map \cup {new[k].id : k \in {j}} \cup {new[k].id : k \in others}
    BY <2>4, <2>5
  <2>11. DOMAIN map2 \subseteq DOMAIN map \cup IdsOf(new) /\ DOMAIN map \subseteq DOMAIN map2
    BY <2>1, <2>3, <2>9, <2>10
  <2>12. IdsOf(new) \subseteq Topics
    BY <1>7, Identifiers
  <2>13. c => Ordered(new) /\ DOMAIN map2 = IdsOf(new)
    BY <1>5, <1>6, <2>11
  <2>14. ListSound(new, map2, WithLasts(lasts, new, others), m, c)
    BY <1>10, <2>7, <2>8, <2>11, <2>12, <2>13 DEF ListSound
  <2> QED
    BY <1>3, <1>6, <1>14, <2>14, Zenon DEF others
<1> QED
  BY <1>13, <1>14

\* handleForumTopicRolesChanged: the row at i is replaced by another one of the
\* same topic and put in order.
LEMMA RowChanged ==
    ASSUME NEW m \in 0..MaxMsg, NEW n \in 0..MaxMsg, m <= n, NEW c \in BOOLEAN,
           ListSound(topics, topicIndexMap, topicLastMessageIdIndexMap, m, c),
           NEW i \in 1..Len(topics), NEW row \in Row, row.last <= n,
           row.id = topics[i].id, NEW withPrev,
           handleForumTopicRolesChanged(i, row, withPrev)
    PROVE  /\ ListSound(topics', topicIndexMap', topicLastMessageIdIndexMap', n, c)
           /\ IdsOf(topics') = IdsOf(topics)
<1> DEFINE list == [topics EXCEPT ![i] = row]
           map == topicIndexMap
           lasts == topicLastMessageIdIndexMap
           cleared == Without(lasts, topics[i].last)
           lasts1 == IF withPrev /\ topics[i].last # row.last
                     THEN WithIds(cleared, topics, {i}) ELSE lasts
<1>1. topics \in Seq(Row) /\ RowsUpTo(topics, m)
  BY DEF ListSound, RowsUpTo
<1>2. Len(topics) \in Nat /\ m \in Nat /\ n \in Nat
  BY <1>1, Identifiers, ForumAssumption
<1>3. updateForumTopicOrder(list, lasts1, i)
  BY Zenon DEF handleForumTopicRolesChanged, WithIds
<1>4. LastsUpTo(lasts, m)
  BY DEF ListSound
<1>5. LastsUpTo(WithIds(cleared, topics, {i}), m)
  <2>1. LastsUpTo(cleared, m)
    BY <1>4, LastsRemoved
  <2>2. {i} \subseteq 1..Len(topics)
    OBVIOUS
  <2> HIDE DEF cleared
  <2> QED
    BY <1>1, <2>1, <2>2, LastsEntered
<1> HIDE DEF cleared
<1>6. LastsUpTo(lasts1, m)
  BY <1>4, <1>5
<1>7. LastsUpTo(lasts1, n)
  BY <1>2, <1>6, LastsLater
<1> HIDE DEF lasts1
<1>8. /\ list \in Seq(Row) /\ Len(list) = Len(topics)
      /\ list[i] = row
      /\ \A k \in 1..Len(topics) : k # i => list[k] = topics[k]
      /\ \A k \in 1..Len(topics) : list[k].id = topics[k].id
      /\ IdsOf(list) = IdsOf(topics)
  BY <1>1, RowReplaced
<1> HIDE DEF list
<1>9. RowsUpTo(list, n)
  <2>1. ASSUME NEW k \in 1..Len(topics)
        PROVE  list[k].last <= n
    <3>1. CASE k = i
      BY <1>8, <3>1
    <3>2. CASE k # i
      <4>1. list[k] = topics[k] /\ topics[k].last <= m /\ topics[k] \in Row
        BY <1>1, <1>8, <3>2 DEF RowsUpTo
      <4>2. topics[k].last \in Nat
        BY <4>1 DEF Row, MsgIds
      <4> QED
        BY <1>2, <4>1, <4>2
    <3> QED
      BY <3>1, <3>2
  <2> QED
    BY <1>8, <2>1 DEF RowsUpTo
<1>10. DOMAIN map \subseteq Topics /\ Points(map, topics, {})
  BY DEF ListSound
<1>11. Points(map, list, {})
  BY <1>8, <1>10 DEF Points
<1>12. ASSUME c
       PROVE  /\ \A p, q \in 1..Len(list) : p # q => list[p].id # list[q].id
              /\ \A p, q \in 1..Len(list) \ {i} : p < q => lessThan(list[p], list[q])
              /\ DOMAIN map = IdsOf(list)
  <2>1. Ordered(topics) /\ DOMAIN map = IdsOf(topics)
    BY <1>12 DEF ListSound
  <2>2. \A p, q \in 1..Len(topics) : p # q => p < q \/ q < p
    BY <1>2
  <2>3. \A p, q \in 1..Len(topics) : p # q => topics[p].id # topics[q].id
    BY <2>1, <2>2 DEF Ordered
  <2>4. \A p, q \in 1..Len(list) \ {i} : p < q => lessThan(list[p], list[q])
    BY <1>8, <2>1 DEF Ordered
  <2> QED
    BY <1>8, <2>1, <2>3, <2>4
<1>13. i \in 1..Len(list)
  BY <1>8
<1>14. c => /\ \A p, q \in 1..Len(list) : p # q => list[p].id # list[q].id
            /\ \A p, q \in 1..Len(list) \ {i} : p < q => lessThan(list[p], list[q])
            /\ DOMAIN map = IdsOf(list)
  BY <1>12
<1>15. /\ ListSound(topics', topicIndexMap', topicLastMessageIdIndexMap', n, c)
       /\ IdsOf(topics') = IdsOf(list)
  BY <1>3, <1>7, <1>9, <1>10, <1>11, <1>13, <1>14, OrderUpdated
<1> QED
  BY <1>8, <1>15

\* The list as handleForumTopicNotFound leaves it.
LEMMA TopicRemoved ==
    ASSUME NEW m \in 0..MaxMsg, NEW c \in BOOLEAN, NEW list, NEW map, NEW lasts,
           ListSound(list, map, lasts, m, c), NEW t \in DOMAIN map
    PROVE  LET rest == RemoveAt(list, map[t])
               behind == map[t]..Len(rest)
           IN  /\ ListSound(rest, WithIds(Without(map, t), rest, behind),
                            WithIds(Without(lasts, t), rest, behind), m, c)
               /\ IdsOf(list) \subseteq IdsOf(rest) \cup {t}
<1> DEFINE pos == map[t]
           rest == RemoveAt(list, pos)
           behind == pos..Len(rest)
           left == Without(map, t)
           new == WithIds(left, rest, behind)
<1>1. list \in Seq(Row)
  BY DEF ListSound, RowsUpTo
<1>2. Len(list) \in Nat
  BY <1>1, Identifiers
<1>3. \A u \in DOMAIN map : map[u] \in 1..Len(list) /\ list[map[u]].id = u
  BY DEF ListSound, Points
<1>4. pos \in 1..Len(list) /\ list[pos].id = t
  BY <1>3
<1> HIDE DEF pos
<1>5. /\ rest \in Seq(Row) /\ Len(rest) = Len(list) - 1
  <2>1. rest \in Seq(Row)
    BY <1>1, <1>4, RemoveAtProperties
  <2>2. Len(rest) = Len(list) - 1
    BY <1>1, <1>4, RemoveAtProperties
  <2> QED
    BY <2>1, <2>2
<1>6. \A k \in 1..Len(list) - 1 : rest[k] = IF k < pos THEN list[k] ELSE list[k + 1]
  BY <1>1, <1>4, RemoveAtProperties
<1>7. /\ IdsOf(rest) \subseteq IdsOf(list)
      /\ IdsOf(list) \subseteq IdsOf(rest) \cup {t}
      /\ Ordered(list) => Ordered(rest) /\ t \notin IdsOf(rest)
  BY <1>1, <1>4, RemoveOrdered
<1> HIDE DEF rest
<1>8. RowsUpTo(rest, m)
  <2>1. \A k \in 1..Len(list) : list[k].last <= m
    BY DEF ListSound, RowsUpTo
  <2>2. ASSUME NEW k \in 1..Len(list) - 1
        PROVE  rest[k].last <= m
    BY <1>2, <1>6, <2>1
  <2> QED
    BY <1>5, <2>2 DEF RowsUpTo
<1>9. behind \subseteq 1..Len(rest) /\ Len(rest) \in Nat
  <2>1. Len(rest) \in Nat
    BY <1>5, Identifiers
  <2> QED
    BY <1>4, <2>1
<1>10. DOMAIN left = DOMAIN map \ {t} /\ \A u \in DOMAIN left : left[u] = map[u]
  BY DEF Without, Restrict
<1> HIDE DEF left
<1>11. Points(left, rest, behind)
  <2> SUFFICES ASSUME NEW u \in DOMAIN left
               PROVE  \/ \E k \in behind : rest[k].id = u
                      \/ left[u] \in 1..Len(rest) /\ rest[left[u]].id = u
    BY DEF Points
  <2>1. left[u] \in 1..Len(list) /\ list[left[u]].id = u /\ left[u] # pos
    BY <1>3, <1>4, <1>10
  <2>2. CASE left[u] < pos
    <3>1. left[u] \in 1..Len(list) - 1
      BY <1>2, <1>4, <2>1, <2>2
    <3> QED
      BY <1>5, <1>6, <2>1, <2>2, <3>1
  <2>3. CASE left[u] > pos
    <3> DEFINE k == left[u] - 1
    <3>1. k \in 1..Len(list) - 1 /\ k \in behind /\ ~(k < pos) /\ k + 1 = left[u]
      BY <1>2, <1>4, <1>5, <2>1, <2>3
    <3> HIDE DEF k, behind
    <3>2. rest[k] = list[left[u]]
      BY <1>6, <3>1
    <3> QED
      BY <2>1, <3>1, <3>2
  <2> QED
    BY <1>4, <2>1, <2>2, <2>3
<1> HIDE DEF behind
<1>12. Points(new, rest, {})
  <2>1. behind \subseteq {} \cup behind
    OBVIOUS
  <2> QED
    BY <1>9, <1>11, <2>1, InsertedPoints, Zenon
<1>13. DOMAIN new = (DOMAIN map \ {t}) \cup {rest[k].id : k \in behind}
  <2>1. DOMAIN new = DOMAIN left \cup {rest[k].id : k \in behind}
    BY InsertedDomain
  <2> HIDE DEF new
  <2> QED
    BY <1>10, <2>1
<1> HIDE DEF new
<1>14. \A k \in behind : rest[k].id \in IdsOf(rest)
  BY <1>9 DEF IdsOf
<1>15. DOMAIN new \subseteq Topics
  <2>1. IdsOf(rest) \subseteq Topics
    BY <1>5, Identifiers
  <2> QED
    BY <1>13, <1>14, <2>1 DEF ListSound
<1>16. c => Ordered(rest) /\ DOMAIN new = IdsOf(rest)
  <2> SUFFICES ASSUME c PROVE Ordered(rest) /\ DOMAIN new = IdsOf(rest)
    OBVIOUS
  <2>1. Ordered(list) /\ DOMAIN map = IdsOf(list)
    BY DEF ListSound
  <2> QED
    BY <1>7, <1>13, <1>14, <2>1
<1>17. LastsUpTo(WithIds(Without(lasts, t), rest, behind), m)
  <2> DEFINE l == Without(lasts, t)
  <2>1. LastsUpTo(l, m)
    BY LastsRemoved DEF ListSound
  <2> HIDE DEF l
  <2>2. LastsUpTo(WithIds(l, rest, behind), m)
    BY <1>8, <1>9, <2>1, LastsEntered
  <2> QED
    BY <2>2 DEF l
<1>18. ListSound(rest, new, WithIds(Without(lasts, t), rest, behind), m, c)
  BY <1>8, <1>12, <1>15, <1>16, <1>17 DEF ListSound
<1> QED
  BY <1>7, <1>18 DEF new, left, behind, rest, pos

\* The list with a page at its end.
Join(list, rows) == list \o rows

LEMMA Joined ==
    ASSUME NEW list \in Seq(Row), NEW rows \in Seq(Row)
    PROVE  /\ Join(list, rows) \in Seq(Row)
           /\ Len(Join(list, rows)) = Len(list) + Len(rows)
           /\ \A k \in 1..Len(list) + Len(rows) :
                Join(list, rows)[k] = IF k <= Len(list) THEN list[k] ELSE rows[k - Len(list)]
  BY ConcatProperties, Zenon DEF Join

LEMMA PageAppended ==
    ASSUME NEW m \in 0..MaxMsg, NEW c \in BOOLEAN, NEW list, NEW map, NEW lasts,
           ListSound(list, map, lasts, m, c),
           NEW rows, RowsUpTo(rows, m), Ordered(rows), NEW d \in BOOLEAN,
           d => /\ c
                /\ \A i \in 1..Len(list), k \in 1..Len(rows) :
                    list[i].id # rows[k].id /\ lessThan(list[i], rows[k])
    PROVE  LET new == Join(list, rows)
               R == Len(list) + 1..Len(list) + Len(rows)
           IN  /\ ListSound(new, WithIds(map, new, R), WithLasts(lasts, new, R), m, d)
               /\ IdsOf(new) = IdsOf(list) \cup IdsOf(rows)
<1> DEFINE new == Join(list, rows)
           n == Len(list)
           R == n + 1..n + Len(rows)
           ids == WithIds(map, new, R)
<1>1. list \in Seq(Row) /\ rows \in Seq(Row)
  BY DEF ListSound, RowsUpTo
<1>2. n \in Nat /\ Len(rows) \in Nat
  BY <1>1, Identifiers
<1>3. /\ new \in Seq(Row)
      /\ Len(new) = n + Len(rows)
      /\ \A k \in 1..n + Len(rows) : new[k] = IF k <= n THEN list[k] ELSE rows[k - n]
  BY <1>1, Joined
<1> HIDE DEF new, n
<1>4. /\ \A k \in 1..n : k \in 1..n + Len(rows) /\ new[k] = list[k]
      /\ \A k \in R : k \in 1..n + Len(rows) /\ k - n \in 1..Len(rows) /\ new[k] = rows[k - n]
      /\ \A k \in 1..n + Len(rows) : k \in 1..n \/ k \in R
  BY <1>2, <1>3
<1>5. \A k \in 1..Len(rows) : n + k \in R /\ new[n + k] = rows[k]
  <2> SUFFICES ASSUME NEW k \in 1..Len(rows) PROVE n + k \in R /\ new[n + k] = rows[k]
    OBVIOUS
  <2>1. n + k \in R /\ (n + k) - n = k
    BY <1>2
  <2> QED
    BY <1>4, <2>1
<1>6. R \subseteq 1..Len(new) /\ Len(new) \in Nat
  BY <1>2, <1>3
<1>7. \A i, j \in R : i < j => i - n < j - n
  BY <1>2
<1>8. \A i \in 1..n, j \in R : i < j /\ ~(j < i)
  BY <1>2
<1> HIDE DEF R
<1>9. IdsOf(new) = {new[k].id : k \in 1..n + Len(rows)}
  BY <1>3 DEF IdsOf
<1>10. IdsOf(list) = {list[k].id : k \in 1..n}
  BY DEF IdsOf, n
<1>11. \A k \in R : new[k].id \in IdsOf(rows)
  BY <1>4 DEF IdsOf
<1>12. \A u \in IdsOf(rows) : \E k \in R : new[k].id = u
  BY <1>5 DEF IdsOf
<1>13. IdsOf(new) = IdsOf(list) \cup IdsOf(rows)
  BY <1>4, <1>9, <1>10, <1>11, <1>12
<1>14. RowsUpTo(new, m)
  <2>1. \A k \in 1..n : list[k].last <= m
    BY DEF ListSound, RowsUpTo, n
  <2>2. \A k \in 1..Len(rows) : rows[k].last <= m
    BY DEF RowsUpTo
  <2>3. \A k \in 1..n + Len(rows) : new[k].last <= m
    BY <1>4, <2>1, <2>2
  <2> QED
    BY <1>3, <2>3 DEF RowsUpTo
<1>15. Points(map, new, R)
  <2>1. \A u \in DOMAIN map : map[u] \in 1..n /\ list[map[u]].id = u
    BY DEF ListSound, Points, n
  <2> QED
    BY <1>3, <1>4, <2>1 DEF Points
<1>16. Points(ids, new, {})
  <2>1. R \subseteq {} \cup R
    OBVIOUS
  <2> QED
    BY <1>6, <1>15, <2>1, InsertedPoints, Zenon
<1>17. DOMAIN ids = DOMAIN map \cup {new[k].id : k \in R}
  BY InsertedDomain
<1>18. LastsUpTo(WithLasts(lasts, new, R), m)
  <2>1. LastsUpTo(lasts, m)
    BY DEF ListSound
  <2> QED
    BY <1>6, <1>14, <2>1, LastsEntered
<1> HIDE DEF ids
<1>19. DOMAIN ids = DOMAIN map \cup IdsOf(rows)
  BY <1>11, <1>12, <1>17
<1>20. DOMAIN ids \subseteq Topics
  <2>1. IdsOf(rows) \subseteq Topics
    BY <1>1, Identifiers
  <2> QED
    BY <1>19, <2>1 DEF ListSound
<1>21. d => Ordered(new) /\ DOMAIN ids = IdsOf(new)
  <2> SUFFICES ASSUME d PROVE Ordered(new) /\ DOMAIN ids = IdsOf(new)
    OBVIOUS
  <2>1. Ordered(list) /\ DOMAIN map = IdsOf(list)
    BY DEF ListSound
  <2>2. ASSUME NEW i \in 1..n + Len(rows), NEW j \in 1..n + Len(rows), i < j
        PROVE  new[i].id # new[j].id /\ lessThan(new[i], new[j])
    <3>1. CASE j \in 1..n
      <4>1. i \in 1..n
        BY <1>2, <2>2, <3>1
      <4> QED
        BY <1>4, <2>1, <2>2, <3>1, <4>1 DEF Ordered, n
    <3>2. CASE i \in 1..n /\ j \in R
      BY <1>4, <3>2 DEF n
    <3>3. CASE i \in R /\ j \in R
      <4>1. i - n < j - n
        BY <1>7, <2>2, <3>3
      <4> QED
        BY <1>4, <3>3, <4>1 DEF Ordered
    <3> QED
      BY <1>4, <1>8, <2>2, <3>1, <3>2, <3>3
  <2>3. Ordered(new)
    BY <1>3, <2>2 DEF Ordered
  <2> QED
    BY <1>13, <1>19, <2>1, <2>3
<1>22. ListSound(new, ids, WithLasts(lasts, new, R), m, d)
  BY <1>14, <1>16, <1>18, <1>20, <1>21 DEF ListSound
<1> QED
  BY <1>13, <1>22 DEF ids, R, n, new

-----------------------------------------------------------------------------
(***************************************************************************)
(* Pages                                                                   *)
(***************************************************************************)

\* TDLib's part: messages up to issued, and pins of topics that exist.
ServerTyped ==
    /\ issued \in 0..MaxMsg
    /\ messages \in [Topics -> SUBSET (1..issued)]
    /\ pinned \subseteq Existing
    /\ drafts \in [Topics -> 0..MaxMsg]

\* The last message of a topic.
LEMMA LastOfMessages ==
    ASSUME NEW n \in 0..MaxMsg, NEW S, S \subseteq 1..n, S # {}
    PROVE  /\ Max(S) \in S /\ Max(S) \in 1..n /\ Max(S) \in MsgIds
           /\ \A k \in S : k <= Max(S)
<1>1. n \in Nat /\ n <= MaxMsg /\ MaxMsg \in Nat
  BY ForumAssumption
<1>2. S \subseteq 0..n
  BY <1>1
<1>3. Max(S) \in S /\ \A k \in S : Max(S) >= k
  BY <1>1, <1>2, MaxOfPositions
<1>4. Max(S) \in 1..n
  BY <1>3, Zenon
<1>5. 1..n \subseteq MsgIds
  BY <1>1 DEF MsgIds
<1>6. \A k \in S : k <= Max(S)
  BY <1>1, <1>3
<1> QED
  BY <1>3, <1>4, <1>5, <1>6, Zenon

LEMMA LastMessage ==
    ASSUME ServerTyped, NEW t \in Existing
    PROVE  /\ Max(messages[t]) \in messages[t] /\ Max(messages[t]) \in 1..issued
           /\ \A n \in messages[t] : n <= Max(messages[t])
           /\ Max(messages[t]) \in MsgIds
<1>1. issued \in 0..MaxMsg
  BY DEF ServerTyped
<1>2. messages[t] \subseteq 1..issued /\ messages[t] # {}
  BY DEF ServerTyped, Existing
<1> QED
  BY <1>1, <1>2, LastOfMessages

LEMMA TopicTyped ==
    ASSUME ServerTyped, NEW t \in Existing
    PROVE  Topic(t) \in Row /\ Topic(t).id = t /\ Topic(t).last <= issued
<1>1. Max(messages[t]) \in MsgIds /\ Max(messages[t]) \in 1..issued
  BY LastMessage
<1>2. t \in Topics /\ drafts[t] \in 0..MaxMsg /\ issued \in Nat
  BY DEF ServerTyped, Existing
<1>3. (t \in pinned) \in BOOLEAN
  OBVIOUS
<1> DEFINE l == Max(messages[t])
           p == t \in pinned
           d == drafts[t]
<1>4. l \in MsgIds /\ l <= issued /\ d \in 0..MaxMsg /\ p \in BOOLEAN
  <2>1. l \in MsgIds /\ l <= issued
    BY <1>1, <1>2
  <2> QED
    BY <1>2, <1>3, <2>1, Zenon
<1>5. Topic(t) = [id |-> t, last |-> l, isPinned |-> p, draft |-> d]
  BY Zenon DEF Topic
<1> HIDE DEF l, p, d
<1> QED
  BY <1>2, <1>4, <1>5 DEF Row

\* std::sort of a page: a row for each of its topics, in order.
LEMMA PageSorted ==
    ASSUME ServerTyped, NEW page \in SUBSET Existing, NEW rows, rows = SortedPage(page)
    PROVE  /\ RowsUpTo(rows, issued) /\ Ordered(rows) /\ IdsOf(rows) = page
           /\ \A k \in 1..Len(rows) : rows[k].id \in page /\ rows[k] = Topic(rows[k].id)
<1> DEFINE R == {p \in page \X page : lessThan(Topic(p[1]), Topic(p[2]))}
           n == Cardinality(page)
           InOrder(f) == \A i, j \in DOMAIN f : i < j => lessThan(Topic(f[i]), Topic(f[j]))
           l == CHOOSE f \in [1..n -> page] : InOrder(f)
<1>1. \A t \in page : Topic(t) \in Row /\ Topic(t).id = t /\ Topic(t).last <= issued
  BY TopicTyped
<1>2. IsFiniteSet(page)
  <2>1. IsFiniteSet(Topics) /\ page \subseteq Topics
    BY ForumAssumption DEF Existing
  <2> QED
    BY <2>1, FS_Subset
<1>3. n \in Nat
  BY <1>2, FS_CardinalityType
<1>4. \A y, z \in page : <<y, z>> \in R <=> lessThan(Topic(y), Topic(z))
  <2> HIDE DEF InOrder
  <2> QED
    OBVIOUS
<1>5. \E f : Sorts(f, page, R)
  <2>1. \A y, z \in page : y # z => <<y, z>> \in R \/ <<z, y>> \in R
    BY <1>1, <1>4, LessTotal
  <2>2. \A w, y, z \in page : <<w, y>> \in R /\ <<y, z>> \in R => <<w, z>> \in R
    BY <1>1, <1>4, LessTransitive
  <2> HIDE DEF R
  <2> QED
    BY <1>2, <2>1, <2>2, SortedExists
<1> HIDE DEF R
<1>6. \A f : Sorts(f, page, R) <=> f \in [1..n -> page] /\ InOrder(f)
  <2> SUFFICES ASSUME NEW f \in [1..n -> page]
               PROVE  Sorts(f, page, R) <=> InOrder(f)
    BY DEF Sorts
  <2>1. DOMAIN f = 1..n /\ \A i \in 1..n : f[i] \in page
    OBVIOUS
  <2>2. \A i, j \in 1..n : <<f[i], f[j]>> \in R <=> lessThan(Topic(f[i]), Topic(f[j]))
    BY <1>4, <2>1
  <2> HIDE DEF n
  <2> QED
    BY <2>1, <2>2 DEF Sorts, n
<1>7. l \in [1..n -> page] /\ InOrder(l)
  <2>1. \E f \in [1..n -> page] : InOrder(f)
    BY <1>5, <1>6
  <2> HIDE DEF n, InOrder
  <2> QED
    BY <2>1
<1>8. rows = [i \in DOMAIN l |-> Topic(l[i])]
  BY Zenon DEF SortedPage
<1> HIDE DEF l
<1>9. Sorts(l, page, R)
  BY <1>6, <1>7
<1>10. \A y \in page : <<y, y>> \notin R
  BY <1>1, <1>4, LessTotal
<1>11. \A y \in page : \E i \in 1..n : l[i] = y
  <2>1. /\ Cardinality(page) \in Nat
        /\ \A i, j \in 1..Cardinality(page) : l[i] = l[j] => i = j
        /\ \A y \in page : \E i \in 1..Cardinality(page) : l[i] = y
    BY ONLY <1>2, <1>9, <1>10, SortedOnto
  <2> QED
    BY <2>1
<1>12. \A i, j \in 1..n : i < j => l[i] # l[j] /\ lessThan(Topic(l[i]), Topic(l[j]))
  <2>1. DOMAIN l = 1..n
    BY <1>7
  <2>2. \A i \in 1..n : l[i] \in page
    BY <1>7
  <2>3. \A i, j \in 1..n : i < j => lessThan(Topic(l[i]), Topic(l[j]))
    BY <1>7, <2>1
  <2>4. \A y \in page : ~lessThan(Topic(y), Topic(y))
    BY <1>1, LessTotal
  <2> HIDE DEF n, InOrder
  <2> QED
    BY <2>2, <2>3, <2>4
<1> HIDE DEF n, InOrder
<1>13. DOMAIN l = 1..n /\ \A i \in 1..n : l[i] \in page
  BY <1>7
<1>14. rows \in [1..n -> Row] /\ \A i \in 1..n : rows[i] = Topic(l[i]) /\ rows[i].id = l[i]
  BY <1>1, <1>8, <1>13
<1>15. rows \in Seq(Row) /\ Len(rows) = n
  BY <1>3, <1>14, ListOf
<1>16. RowsUpTo(rows, issued)
  BY <1>1, <1>13, <1>14, <1>15 DEF RowsUpTo
<1>17. Ordered(rows)
  BY <1>12, <1>14, <1>15 DEF Ordered
<1>18. IdsOf(rows) = page
  BY <1>11, <1>13, <1>14, <1>15 DEF IdsOf
<1> QED
  BY <1>13, <1>14, <1>15, <1>16, <1>17, <1>18

\* Cardinality of sets of topics.
LEMMA FewerTopics ==
    ASSUME NEW A, NEW B, A \subseteq B, B \subseteq Topics, NEW n \in Nat,
           Cardinality(B) < n
    PROVE  Cardinality(A) < n
<1>1. IsFiniteSet(B)
  BY ForumAssumption, FS_Subset
<1>2. Cardinality(B) \in Nat
  BY <1>1, FS_CardinalityType
<1>3. IsFiniteSet(A) /\ Cardinality(A) <= Cardinality(B)
  BY <1>1, FS_Subset
<1>4. Cardinality(A) \in Nat
  BY <1>3, FS_CardinalityType
<1> QED
  BY <1>2, <1>3, <1>4

\* What a page says about the topics above its last one: a topic below the
\* offset of the page that is not pinned is on the page, unless it is older
\* than every unpinned topic there.
LEMMA PageCovers ==
    ASSUME ServerTyped, NEW o
    PROVE  LET page == Page(o)
               unpinned == page \ pinned
               next == Min({Max(messages[t]) : t \in unpinned})
           IN  /\ page \subseteq Existing
               /\ unpinned # {} =>
                    /\ next \in MsgIds
                    /\ \A t \in Existing \ pinned :
                        \/ Max(messages[t]) < next
                        \/ o # 0 /\ ~(Max(messages[t]) < o)
                        \/ t \in page
<1> DEFINE last(t) == Max(messages[t])
           rest == {t \in Existing : (o = 0 \/ last(t) < o) /\ t \notin pinned}
           above(t) == {u \in rest : last(u) > last(t)}
           newest == {t \in rest : Cardinality(above(t)) < PageSize}
           page == Page(o)
           unpinned == page \ pinned
           next == Min({last(t) : t \in unpinned})
<1>1. page = newest \cup (IF o = 0 THEN pinned ELSE {})
  BY Zenon DEF Page
<1>2. \A t \in Existing : last(t) \in MsgIds /\ last(t) \in Nat /\ t \in Topics
  <2>1. \A t \in Existing : last(t) \in MsgIds
    BY LastMessage
  <2>2. MsgIds \subseteq Nat
    BY DEF MsgIds
  <2> QED
    BY <2>1, <2>2 DEF Existing
<1>3. page \subseteq Existing /\ unpinned \subseteq newest /\ newest \subseteq page
  BY <1>1 DEF ServerTyped
<1> HIDE DEF page, last
<1>4. ASSUME unpinned # {}
      PROVE  /\ next \in MsgIds
             /\ \A t \in Existing \ pinned :
                    \/ last(t) < next
                    \/ o # 0 /\ ~(last(t) < o)
                    \/ t \in page
  <2> DEFINE lasts == {last(t) : t \in unpinned}
  <2>1. lasts \subseteq Nat /\ lasts # {}
    BY <1>2, <1>3, <1>4
  <2>2. Min(lasts) \in lasts
    <3> HIDE DEF lasts
    <3> QED
      BY <2>1, MinOfPositions
  <2>3. PICK u \in unpinned : next = last(u)
    BY <2>2
  <2> HIDE DEF next, unpinned
  <2>4. u \in newest /\ u \in Existing /\ last(u) \in MsgIds
    BY <1>2, <1>3, <2>3
  <2>5. ASSUME NEW t \in Existing \ pinned, ~(last(t) < next), o = 0 \/ last(t) < o
        PROVE  t \in page
    <3>1. t \in rest
      BY <2>5
    <3>2. last(u) \in Nat /\ last(t) \in Nat /\ last(u) <= last(t)
      BY <1>2, <2>3, <2>4, <2>5
    <3>3. above(t) \subseteq above(u)
      <4> SUFFICES ASSUME NEW v \in rest, last(v) > last(t)
                   PROVE  last(v) > last(u)
        OBVIOUS
      <4>1. last(v) \in Nat
        BY <1>2
      <4> QED
        BY <3>2, <4>1
    <3>4. above(u) \subseteq Topics
      BY <1>2
    <3>5. Cardinality(above(u)) < PageSize /\ PageSize \in Nat
      BY <2>4, ForumAssumption
    <3>6. Cardinality(above(t)) < PageSize
      <4> HIDE DEF above
      <4> QED
        BY <3>3, <3>4, <3>5, FewerTopics
    <3> QED
      BY <1>3, <3>1, <3>6
  <2> QED
    BY <2>3, <2>4, <2>5
<1> QED
  BY <1>3, <1>4 DEF page, last

-----------------------------------------------------------------------------
(***************************************************************************)
(* The inductive invariant                                                 *)
(***************************************************************************)

ClientTyped ==
    /\ nextOffset \in 0..MaxMsg
    /\ endReached \in BOOLEAN
    /\ continued \in BOOLEAN
    /\ pages \in Seq(0..MaxMsg)
    /\ fetching \in [Topics -> 0..MaxFetches]

ListOK == ListSound(topics, topicIndexMap, topicLastMessageIdIndexMap, issued, continued)

\* A topic that needs no page any more to become a row.
Known(t) == t \in excused \/ fetching[t] > 0 \/ t \in IdsOf(topics)

\* No topic is overlooked by pages below the offset o.
CoveredTo(o) == o # 0 => \A t \in Existing : Max(messages[t]) < o \/ Known(t)

\* The offsets of pages in flight are as good as the next one, since any of
\* their answers may become the last.  A pinned topic is on the first page
\* only, and a message that is sent will move its topic above every offset.
Covered ==
    /\ CoveredTo(nextOffset)
    /\ \A k \in 1..Len(pages) : CoveredTo(pages[k])
    /\ \A t \in pinned : t \in excused \/ t \in IdsOf(topics)
    /\ \A t \in Topics : messages[t] \cap sending # {} => Known(t)

IInv == ServerTyped /\ ClientTyped /\ ListOK /\ Covered

LEMMA InitIInv == Init => IInv
<1> SUFFICES ASSUME Init PROVE IInv
  OBVIOUS
<1>1. MaxMsg \in Nat /\ MaxFetches \in Nat /\ History \in [Topics -> SUBSET MsgIds]
  BY ForumAssumption
<1> DEFINE H == (UNION Range(History)) \cup {0}
<1>2. \A t \in Topics : History[t] \subseteq MsgIds /\ History[t] \subseteq H
  BY <1>1 DEF Range
<1>3. H \subseteq 0..MaxMsg /\ H # {}
  <2>1. UNION Range(History) \subseteq MsgIds
    BY <1>1 DEF Range
  <2>2. MsgIds \subseteq 0..MaxMsg /\ 0 \in 0..MaxMsg
    BY <1>1 DEF MsgIds
  <2> QED
    BY <2>1, <2>2
<1>4. issued = Max(H)
  BY DEF Init
<1> HIDE DEF H
<1>5. issued \in 0..MaxMsg /\ \A n \in H : n <= issued
  <2>1. Max(H) \in H /\ \A n \in H : Max(H) >= n
    BY <1>1, <1>3, MaxOfPositions
  <2>2. \A n \in H : n \in 0..MaxMsg
    BY <1>3
  <2> QED
    BY <1>1, <1>4, <2>1, <2>2
<1>6. \A t \in Topics : History[t] \subseteq 1..issued
  <2> SUFFICES ASSUME NEW t \in Topics, NEW n \in History[t] PROVE n \in 1..issued
    OBVIOUS
  <2>1. n \in 1..MaxMsg /\ n <= issued
    BY <1>2, <1>5 DEF MsgIds
  <2> QED
    BY <1>1, <1>5, <2>1
<1>7. ServerTyped
  <2>1. messages = History /\ pinned = {} /\ drafts = [t \in Topics |-> 0]
    BY DEF Init
  <2>2. messages \in [Topics -> SUBSET (1..issued)]
    BY <1>1, <1>6, <2>1
  <2>3. drafts \in [Topics -> 0..MaxMsg]
    BY <1>1, <2>1
  <2> QED
    BY <1>5, <2>1, <2>2, <2>3 DEF ServerTyped
<1>8. ClientTyped
  <2>1. pages \in Seq(0..MaxMsg)
    BY <1>1 DEF Init
  <2>2. nextOffset \in 0..MaxMsg /\ fetching \in [Topics -> 0..MaxFetches]
    BY <1>1 DEF Init
  <2>3. endReached \in BOOLEAN /\ continued \in BOOLEAN
    BY DEF Init
  <2> QED
    BY <2>1, <2>2, <2>3, Zenon DEF ClientTyped
<1>9. topics = <<>> /\ topicIndexMap = <<>> /\ topicLastMessageIdIndexMap = <<>>
  BY DEF Init
<1>10. /\ <<>> \in Seq(Row) /\ Len(<<>>) = 0 /\ DOMAIN <<>> = {}
       /\ 1..0 = {}
  OBVIOUS
<1>11. ListOK
  <2> DEFINE e == <<>>
  <2>1. e \in Seq(Row) /\ Len(e) = 0 /\ DOMAIN e = {} /\ 1..Len(e) = {}
    BY <1>10
  <2> HIDE DEF e
  <2>2. ListSound(e, e, e, issued, continued)
    BY <2>1 DEF ListSound, RowsUpTo, LastsUpTo, Points, Ordered, IdsOf
  <2> QED
    BY <1>9, <2>2 DEF ListOK, e
<1>12. Covered
  <2>1. CoveredTo(0)
    BY DEF CoveredTo
  <2>2. nextOffset = 0 /\ pinned = {} /\ sending = {} /\ pages = <<0>>
    BY DEF Init
  <2>3. \A k \in 1..Len(pages) : pages[k] = 0
    BY <2>2
  <2> QED
    BY <2>1, <2>2, <2>3 DEF Covered
<1> QED
  BY <1>7, <1>8, <1>11, <1>12 DEF IInv

\* A topic stays covered if it stays known, and gets a newer last message only
\* when it is known.
LEMMA StillCovered ==
    ASSUME ServerTyped, ServerTyped', NEW o \in 0..MaxMsg, CoveredTo(o),
           \A t \in Topics : Known(t) => Known(t)',
           \A t \in Existing' : \/ Known(t)'
                                \/ t \in Existing /\ Max(messages'[t]) <= Max(messages[t])
    PROVE  CoveredTo(o)'
<1> SUFFICES ASSUME o # 0, NEW t \in Existing' PROVE Max(messages'[t]) < o \/ Known(t)'
  BY DEF CoveredTo
<1>1. t \in Topics
  BY DEF Existing
<1>2. CASE Known(t)'
  BY <1>2
<1>3. CASE t \in Existing /\ Max(messages'[t]) <= Max(messages[t])
  <2>1. Max(messages[t]) < o \/ Known(t)
    BY <1>3 DEF CoveredTo
  <2>2. Max(messages[t]) \in MsgIds
    BY <1>3, LastMessage
  <2>3. Max(messages'[t]) \in MsgIds
    <3>1. issued' \in 0..MaxMsg /\ messages'[t] \subseteq 1..issued' /\ messages'[t] # {}
      BY <1>1 DEF ServerTyped, Existing
    <3> QED
      BY <3>1, LastOfMessages
  <2>4. MsgIds \subseteq Int /\ o \in Int
    BY ForumAssumption DEF MsgIds
  <2>5. Max(messages[t]) < o => Max(messages'[t]) < o
    <3> DEFINE a == Max(messages[t])
               b == Max(messages'[t])
    <3>1. a \in Int /\ b \in Int /\ b <= a
      BY <1>3, <2>2, <2>3, <2>4, Zenon
    <3> HIDE DEF a, b
    <3>2. a < o => b < o
      BY <2>4, <3>1
    <3> QED
      BY <3>2 DEF a, b
  <2>6. Known(t) => Known(t)'
    BY <1>1
  <2> QED
    BY <2>1, <2>5, <2>6, Zenon
<1> QED
  BY <1>2, <1>3

LEMMA CoveredKept ==
    ASSUME IInv, ServerTyped', nextOffset' = nextOffset, pages' = pages,
           \A t \in Topics : Known(t) => Known(t)',
           \A t \in Existing' : \/ Known(t)'
                                \/ t \in Existing /\ Max(messages'[t]) <= Max(messages[t]),
           \A t \in pinned' : t \in excused' \/ t \in IdsOf(topics'),
           \A t \in Topics : messages'[t] \cap sending' # {} => Known(t)'
    PROVE  Covered'
<1>1. ServerTyped /\ ClientTyped /\ Covered
  BY DEF IInv
<1>2. \A o \in 0..MaxMsg : CoveredTo(o) => CoveredTo(o)'
  BY <1>1, StillCovered
<1>3. CoveredTo(nextOffset)'
  <2>1. nextOffset \in 0..MaxMsg /\ CoveredTo(nextOffset)
    BY <1>1 DEF ClientTyped, Covered
  <2> QED
    BY <1>2, <2>1 DEF CoveredTo
<1>4. \A k \in 1..Len(pages') : CoveredTo(pages[k])'
  <2> SUFFICES ASSUME NEW k \in 1..Len(pages) PROVE CoveredTo(pages[k])'
    OBVIOUS
  <2>1. pages[k] \in 0..MaxMsg /\ CoveredTo(pages[k])
    <3>1. pages \in Seq(0..MaxMsg)
      BY <1>1 DEF ClientTyped
    <3>2. k \in 1..Len(pages)
      OBVIOUS
    <3>3. pages[k] \in 0..MaxMsg
      BY ONLY <3>1, <3>2, ElementOfSeq
    <3> QED
      BY <1>1, <3>3 DEF Covered
  <2> QED
    BY <1>2, <2>1 DEF CoveredTo
<1> QED
  BY <1>3, <1>4 DEF Covered

\* Steps that are none of TDLib's.
LEMMA CoveredKeptByClient ==
    ASSUME IInv, UNCHANGED tdVars, nextOffset' = nextOffset, pages' = pages,
           \A t \in Topics : Known(t) => Known(t)',
           \A t \in Topics : t \in excused \/ t \in IdsOf(topics)
                                => t \in excused' \/ t \in IdsOf(topics')
    PROVE  ServerTyped' /\ Covered'
<1>1. ServerTyped /\ Covered
  BY DEF IInv
<1>2. /\ messages' = messages /\ pinned' = pinned /\ drafts' = drafts
      /\ issued' = issued /\ sending' = sending
  BY DEF tdVars
<1>3. Existing' = Existing
  BY <1>2 DEF Existing
<1>4. ServerTyped'
  BY <1>1, <1>2, <1>3 DEF ServerTyped
<1>5. \A t \in Existing' :
        \/ Known(t)'
        \/ t \in Existing /\ Max(messages'[t]) <= Max(messages[t])
  <2> SUFFICES ASSUME NEW t \in Existing PROVE Max(messages'[t]) <= Max(messages[t])
    BY <1>3
  <2>1. Max(messages[t]) \in Int
    <3>1. Max(messages[t]) \in MsgIds /\ MsgIds \subseteq Int
      BY <1>1, LastMessage DEF MsgIds
    <3> QED
      BY <3>1, Zenon
  <2> DEFINE l == Max(messages[t])
  <2>2. l <= l
    <3>1. l \in Int
      BY <2>1
    <3> HIDE DEF l
    <3> QED
      BY <3>1
  <2> QED
    BY <1>2, <2>2, Zenon
<1>6. \A t \in pinned' : t \in excused' \/ t \in IdsOf(topics')
  <2>1. pinned \subseteq Topics
    BY <1>1 DEF ServerTyped, Existing
  <2> QED
    BY <1>1, <1>2, <2>1 DEF Covered
<1>7. \A t \in Topics : messages'[t] \cap sending' # {} => Known(t)'
  BY <1>1, <1>2 DEF Covered
<1>8. Covered'
  BY <1>4, <1>5, <1>6, <1>7, CoveredKept
<1> QED
  BY <1>4, <1>8

-----------------------------------------------------------------------------
(***************************************************************************)
(* The steps                                                               *)
(***************************************************************************)

\* Where the index map leads.
LEMMA Found ==
    ASSUME IInv, NEW t \in DOMAIN topicIndexMap
    PROVE  LET i == topicIndexMap[t]
           IN  /\ i \in 1..Len(topics) /\ topics[i] \in Row /\ topics[i].id = t
               /\ t \in IdsOf(topics) /\ t \in Topics
<1>1. /\ topicIndexMap[t] \in 1..Len(topics) /\ topics[topicIndexMap[t]].id = t
      /\ topics \in Seq(Row) /\ t \in Topics
  BY DEF IInv, ListOK, ListSound, Points, RowsUpTo
<1> QED
  BY <1>1 DEF IdsOf

LEMMA LoadMoreStep == IInv /\ loadMore => IInv'
<1> SUFFICES ASSUME IInv, loadMore PROVE IInv'
  OBVIOUS
<1>1. ServerTyped /\ ClientTyped /\ ListOK /\ Covered
  BY DEF IInv
<1>2. /\ pages' = Append(pages, nextOffset)
      /\ UNCHANGED <<topics, topicIndexMap, topicLastMessageIdIndexMap>>
      /\ UNCHANGED <<nextOffset, endReached, continued, fetching, excused>>
      /\ UNCHANGED <<messages, pinned, drafts, issued, sending>>
  BY DEF loadMore, listVars, tdVars
<1>3. ServerTyped' /\ ListOK'
  BY <1>1, <1>2 DEF ServerTyped, Existing, ListOK
<1>4. pages \in Seq(0..MaxMsg) /\ nextOffset \in 0..MaxMsg
  BY <1>1 DEF ClientTyped
<1>5. /\ pages' \in Seq(0..MaxMsg) /\ Len(pages') = Len(pages) + 1
      /\ \A k \in 1..Len(pages) : pages'[k] = pages[k]
      /\ pages'[Len(pages) + 1] = nextOffset
  BY <1>2, <1>4
<1>6. ClientTyped'
  BY <1>1, <1>2, <1>5 DEF ClientTyped
<1>7. \A o : CoveredTo(o) => CoveredTo(o)'
  BY <1>2 DEF CoveredTo, Existing, Known
<1>8. \A k \in 1..Len(pages') : CoveredTo(pages'[k])
  <2>1. \A k \in 1..Len(pages') : k \in 1..Len(pages) \/ k = Len(pages) + 1
    BY <1>4, <1>5
  <2> QED
    BY <1>1, <1>5, <2>1 DEF Covered
<1>9. Covered'
  <2>1. CoveredTo(nextOffset)'
    BY <1>1, <1>2 DEF Covered, CoveredTo, Existing, Known
  <2>2. \A k \in 1..Len(pages') : CoveredTo(pages[k])'
    BY <1>2, <1>8 DEF CoveredTo, Existing, Known
  <2>3. \A t \in pinned' : t \in excused' \/ t \in IdsOf(topics')
    BY <1>1, <1>2 DEF Covered
  <2>4. \A t \in Topics : messages'[t] \cap sending' # {} => Known(t)'
    BY <1>1, <1>2 DEF Covered, Known
  <2> QED
    BY <2>1, <2>2, <2>3, <2>4 DEF Covered
<1> QED
  BY <1>3, <1>6, <1>9 DEF IInv

LEMMA ContentStep == ASSUME NEW m PROVE IInv /\ handleMessageContentUpdated(m) => IInv'
<1> SUFFICES ASSUME IInv, handleMessageContentUpdated(m) PROVE IInv'
  OBVIOUS
<1>1. ServerTyped /\ ClientTyped /\ ListOK
  BY DEF IInv
<1>2. /\ UNCHANGED <<nextOffset, endReached, pages, continued, fetching, excused>>
      /\ UNCHANGED tdVars
  BY DEF handleMessageContentUpdated, pageVars
<1>3. issued \in 0..MaxMsg /\ continued \in BOOLEAN /\ issued' = issued
  BY <1>1, <1>2 DEF ServerTyped, ClientTyped, tdVars
<1>4. ListOK' /\ IdsOf(topics') = IdsOf(topics)
  <2> DEFINE i == topicLastMessageIdIndexMap[m]
             lasts == topicLastMessageIdIndexMap
  <2>1. CASE i \in DOMAIN topics
    <3>1. updateForumTopicOrder(topics, lasts, i)
      BY <2>1 DEF handleMessageContentUpdated
    <3>2. /\ RowsUpTo(topics, issued) /\ LastsUpTo(lasts, issued)
          /\ DOMAIN topicIndexMap \subseteq Topics /\ Points(topicIndexMap, topics, {})
          /\ continued => Ordered(topics) /\ DOMAIN topicIndexMap = IdsOf(topics)
      BY <1>1 DEF ListOK, ListSound
    <3>3. i \in 1..Len(topics) /\ Len(topics) \in Nat
      BY <2>1, <3>2, Identifiers DEF RowsUpTo
    <3>4. continued =>
            /\ \A p, q \in 1..Len(topics) : p # q => topics[p].id # topics[q].id
            /\ \A p, q \in 1..Len(topics) \ {i} : p < q => lessThan(topics[p], topics[q])
            /\ DOMAIN topicIndexMap = IdsOf(topics)
      <4>1. \A p, q \in 1..Len(topics) : p # q => p < q \/ q < p
        BY <3>3
      <4> QED
        BY <3>2, <4>1 DEF Ordered
    <3> HIDE DEF i, lasts
    <3>5. /\ ListSound(topics', topicIndexMap', topicLastMessageIdIndexMap', issued, continued)
          /\ IdsOf(topics') = IdsOf(topics)
      BY <1>3, <3>1, <3>2, <3>3, <3>4, OrderUpdated
    <3> QED
      BY <1>2, <1>3, <3>5 DEF ListOK
  <2>2. CASE i \notin DOMAIN topics
    <3>1. UNCHANGED <<topics, topicIndexMap, topicLastMessageIdIndexMap>>
      BY <2>2 DEF handleMessageContentUpdated, listVars
    <3> QED
      BY <1>1, <1>2, <1>3, <3>1 DEF ListOK
  <2> QED
    BY <2>1, <2>2
<1>5. ClientTyped'
  BY <1>1, <1>2 DEF ClientTyped
<1>6. \A t \in Topics : Known(t) => Known(t)'
  BY <1>2, <1>4 DEF Known
<1>7. ServerTyped' /\ Covered'
  BY <1>2, <1>4, <1>6, CoveredKeptByClient
<1> QED
  BY <1>4, <1>5, <1>7 DEF IInv

\* The messages of one topic change.
LEMMA OneTopic ==
    ASSUME ServerTyped, NEW t \in Topics, NEW S,
           messages' = [messages EXCEPT ![t] = S]
    PROVE  /\ messages'[t] = S
           /\ \A u \in Topics : u # t => /\ messages'[u] = messages[u]
                                         /\ u \in Existing' <=> u \in Existing
           /\ Existing' \subseteq Existing \cup {t} /\ Existing \subseteq Existing' \cup {t}
           /\ \A u \in Existing' : u # t =>
                u \in Existing /\ Max(messages'[u]) <= Max(messages[u])
<1>1. messages \in [Topics -> SUBSET (1..issued)]
  BY DEF ServerTyped
<1>2. messages'[t] = S /\ \A u \in Topics : u # t => messages'[u] = messages[u]
  BY <1>1
<1>3. \A u \in Topics : u # t => (u \in Existing' <=> u \in Existing)
  BY <1>2 DEF Existing
<1>4. Existing' \subseteq Topics /\ Existing \subseteq Topics
  BY DEF Existing
<1>5. ASSUME NEW u \in Existing', u # t
      PROVE  u \in Existing /\ Max(messages'[u]) <= Max(messages[u])
  <2>1. u \in Existing /\ messages'[u] = messages[u]
    BY <1>2, <1>3, <1>4, <1>5
  <2> DEFINE l == Max(messages[u])
  <2>2. l \in MsgIds /\ MsgIds \subseteq Int
    BY <2>1, LastMessage DEF MsgIds
  <2> HIDE DEF l
  <2>3. l <= l
    BY <2>2
  <2> QED
    BY <2>1, <2>3, Zenon DEF l
<1> QED
  BY <1>2, <1>3, <1>4, <1>5

\* A list that is not touched, while messages are added.
LEMMA ListLater ==
    ASSUME IInv, issued' \in 0..MaxMsg, issued <= issued',
           UNCHANGED <<topics, topicIndexMap, topicLastMessageIdIndexMap, continued>>
    PROVE  ListOK'
<1>1. issued \in Nat /\ issued' \in Nat
  BY DEF IInv, ServerTyped
<1>2. ListSound(topics, topicIndexMap, topicLastMessageIdIndexMap, issued, continued)
  BY DEF IInv, ListOK
<1>3. LastsUpTo(topicLastMessageIdIndexMap, issued')
  BY <1>1, <1>2, LastsLater DEF ListSound
<1>4. RowsUpTo(topics, issued')
  <2>1. topics \in Seq(Row) /\ \A i \in 1..Len(topics) : topics[i].last <= issued
    BY <1>2 DEF ListSound, RowsUpTo
  <2>2. ASSUME NEW i \in 1..Len(topics)
        PROVE  topics[i].last <= issued'
    <3>1. topics[i] \in Row
      BY <2>1
    <3>2. topics[i].last \in Nat
      BY <3>1 DEF Row, MsgIds
    <3> QED
      BY <1>1, <2>1, <3>2
  <2> QED
    BY <2>1, <2>2 DEF RowsUpTo
<1>5. ListSound(topics, topicIndexMap, topicLastMessageIdIndexMap, issued', continued)
  BY <1>2, <1>3, <1>4 DEF ListSound
<1> QED
  BY <1>5 DEF ListOK

\* A message more, in a topic that is known afterwards.
LEMMA MessageAdded ==
    ASSUME IInv, NEW t \in Topics, NEW old,
           issued' = issued + 1, issued' \in 0..MaxMsg,
           messages' = [messages EXCEPT ![t] = (messages[t] \ old) \cup {issued'}],
           sending' \subseteq sending \cup {issued'},
           UNCHANGED <<nextOffset, pages, pinned, drafts, excused>>,
           \A u \in Topics : Known(u) => Known(u)', Known(t)',
           IdsOf(topics') = IdsOf(topics)
    PROVE  ServerTyped' /\ Covered'
<1> DEFINE S == (messages[t] \ old) \cup {issued'}
<1>1. ServerTyped /\ Covered
  BY DEF IInv
<1>2. issued \in Nat /\ issued' \in 1..issued'
  BY <1>1 DEF ServerTyped
<1>3. 1..issued \subseteq 1..issued'
  BY <1>2
<1>4. messages \in [Topics -> SUBSET (1..issued)] /\ messages[t] \subseteq 1..issued
  BY <1>1 DEF ServerTyped
<1>5. S \subseteq 1..issued' /\ S # {}
  BY <1>2, <1>3, <1>4
<1>6. messages' = [messages EXCEPT ![t] = S]
  OBVIOUS
<1> HIDE DEF S
<1>7. /\ messages'[t] = S
      /\ \A u \in Topics : u # t => /\ messages'[u] = messages[u]
                                    /\ u \in Existing' <=> u \in Existing
      /\ Existing' \subseteq Existing \cup {t} /\ Existing \subseteq Existing' \cup {t}
      /\ \A u \in Existing' : u # t =>
            u \in Existing /\ Max(messages'[u]) <= Max(messages[u])
  BY <1>1, <1>6, OneTopic
<1>8. t \in Existing'
  BY <1>5, <1>7 DEF Existing
<1>9. messages' \in [Topics -> SUBSET (1..issued')]
  BY <1>3, <1>4, <1>5, <1>6
<1>10. ServerTyped'
  BY <1>1, <1>7, <1>8, <1>9 DEF ServerTyped
<1>11. \A u \in pinned' : u \in excused' \/ u \in IdsOf(topics')
  BY <1>1 DEF Covered
<1>12. \A u \in Topics : messages'[u] \cap sending' # {} => Known(u)'
  <2> SUFFICES ASSUME NEW u \in Topics, u # t, messages'[u] \cap sending' # {}
               PROVE  Known(u)'
    OBVIOUS
  <2>1. messages'[u] = messages[u] /\ messages[u] \subseteq 1..issued
    BY <1>4, <1>7
  <2>2. issued' \notin 1..issued
    BY <1>2
  <2>3. messages[u] \cap sending # {}
    BY <2>1, <2>2
  <2> QED
    BY <1>1, <2>3 DEF Covered
<1>13. \A u \in Existing' :
        \/ Known(u)'
        \/ u \in Existing /\ Max(messages'[u]) <= Max(messages[u])
  BY <1>7
<1>14. Covered'
  BY <1>10, <1>11, <1>12, <1>13, CoveredKept
<1> QED
  BY <1>10, <1>14

LEMMA FetchStep ==
    ASSUME ClientTyped, NEW t \in Topics, Fetch(t)
    PROVE  /\ fetching' \in [Topics -> 0..MaxFetches] /\ fetching'[t] > 0
           /\ \A u \in Topics : fetching[u] > 0 => fetching'[u] > 0
<1>1. fetching \in [Topics -> 0..MaxFetches] /\ MaxFetches \in Nat
  BY ForumAssumption DEF ClientTyped
<1>2. fetching[t] < MaxFetches /\ fetching' = [fetching EXCEPT ![t] = fetching[t] + 1]
  BY DEF Fetch
<1> QED
  BY <1>1, <1>2

LEMMA NewMessageStep ==
    ASSUME NEW t \in Topics, NEW outgoing
    PROVE  IInv /\ handleNewMessageReceived(t, outgoing) => IInv'
<1> SUFFICES ASSUME IInv, handleNewMessageReceived(t, outgoing) PROVE IInv'
  OBVIOUS
<1>1. ServerTyped /\ ClientTyped /\ ListOK
  BY DEF IInv
<1>2. /\ issued' = issued + 1 /\ issued < MaxMsg - 1
      /\ messages' = [messages EXCEPT ![t] = messages[t] \cup {issued'}]
      /\ sending' \subseteq sending \cup {issued'}
      /\ UNCHANGED <<nextOffset, endReached, pages, continued, excused, pinned, drafts>>
  BY DEF handleNewMessageReceived, pageVars
<1>3. /\ issued \in 0..MaxMsg /\ issued' \in 0..MaxMsg /\ issued <= issued'
      /\ issued' \in MsgIds
  BY <1>1, <1>2, ForumAssumption DEF ServerTyped, MsgIds
<1>4. continued \in BOOLEAN
  BY <1>1 DEF ClientTyped
<1>5. /\ ListOK' /\ ClientTyped' /\ IdsOf(topics') = IdsOf(topics)
      /\ \A u \in Topics : Known(u) => Known(u)'
      /\ Known(t)'
  <2>1. CASE t \in DOMAIN topicIndexMap
    <3> DEFINE i == topicIndexMap[t]
               row == updateLastMessage(topics[i], issued')
    <3>1. handleForumTopicRolesChanged(i, row, TRUE) /\ UNCHANGED fetching
      BY <2>1 DEF handleNewMessageReceived
    <3>2. i \in 1..Len(topics) /\ topics[i] \in Row /\ topics[i].id = t /\ t \in IdsOf(topics)
      BY <2>1, Found
    <3>3. row \in Row /\ row.last = issued' /\ row.id = topics[i].id
      BY <1>3, <3>2 DEF updateLastMessage, Row
    <3>4. row.last <= issued'
      BY <1>3, <3>3
    <3> HIDE DEF i, row
    <3>5. /\ ListSound(topics', topicIndexMap', topicLastMessageIdIndexMap', issued', continued)
          /\ IdsOf(topics') = IdsOf(topics)
      BY <1>1, <1>3, <1>4, <3>1, <3>2, <3>3, <3>4, RowChanged DEF ListOK
    <3>6. ListOK'
      BY <1>2, <3>5 DEF ListOK
    <3>7. ClientTyped'
      BY <1>1, <1>2, <3>1 DEF ClientTyped
    <3> QED
      BY <1>2, <3>1, <3>2, <3>5, <3>6, <3>7 DEF Known
  <2>2. CASE t \notin DOMAIN topicIndexMap
    <3>1. Fetch(t) /\ UNCHANGED <<topics, topicIndexMap, topicLastMessageIdIndexMap>>
      BY <2>2 DEF handleNewMessageReceived, listVars
    <3>2. /\ fetching' \in [Topics -> 0..MaxFetches] /\ fetching'[t] > 0
          /\ \A u \in Topics : fetching[u] > 0 => fetching'[u] > 0
      BY <1>1, <3>1, FetchStep
    <3>3. ListOK'
      BY <1>2, <1>3, <3>1, ListLater
    <3>4. ClientTyped'
      BY <1>1, <1>2, <3>2 DEF ClientTyped
    <3> QED
      BY <1>2, <3>1, <3>2, <3>3, <3>4 DEF Known
  <2> QED
    BY <2>1, <2>2
<1>6. ServerTyped' /\ Covered'
  <2>1. messages' = [messages EXCEPT ![t] = (messages[t] \ {}) \cup {issued'}]
    BY <1>2
  <2> QED
    BY <1>2, <1>3, <1>5, <2>1, MessageAdded
<1> QED
  BY <1>5, <1>6 DEF IInv

\* The final identifier of a message is not in the map by last message.
LEMMA SendStep ==
    ASSUME NEW t \in Topics, NEW m
    PROVE  IInv /\ handleMessageSendSucceeded(t, m) => IInv'
<1> SUFFICES ASSUME IInv, handleMessageSendSucceeded(t, m) PROVE IInv'
  OBVIOUS
<1>1. ServerTyped /\ ClientTyped /\ ListOK /\ Covered
  BY DEF IInv
<1>2. /\ issued' = issued + 1 /\ issued < MaxMsg
      /\ messages' = [messages EXCEPT ![t] = (messages[t] \ {m}) \cup {issued'}]
      /\ sending' = sending \ {m}
      /\ m \in messages[t] \cap sending
      /\ UNCHANGED <<nextOffset, endReached, pages, continued, fetching, excused>>
      /\ UNCHANGED <<pinned, drafts>>
  BY DEF handleMessageSendSucceeded, pageVars
<1>3. issued \in 0..MaxMsg /\ issued' \in 0..MaxMsg /\ issued <= issued' /\ issued' \notin 1..issued
  BY <1>1, <1>2, ForumAssumption DEF ServerTyped
<1>4. UNCHANGED <<topics, topicIndexMap, topicLastMessageIdIndexMap>>
  <2>1. DOMAIN topicLastMessageIdIndexMap \subseteq Topics \cup 1..issued
    BY <1>1 DEF ListOK, ListSound, LastsUpTo
  <2>2. issued' \notin Topics
    BY <1>3, ForumAssumption
  <2>3. issued' \notin DOMAIN topicLastMessageIdIndexMap
    BY <1>3, <2>1, <2>2
  <2> QED
    BY <2>3 DEF handleMessageSendSucceeded, listVars
<1>5. ListOK'
  BY <1>2, <1>3, <1>4, ListLater
<1>6. ClientTyped'
  BY <1>1, <1>2 DEF ClientTyped
<1>7. \A u \in Topics : Known(u) => Known(u)'
  BY <1>2, <1>4 DEF Known
<1>8. Known(t)'
  BY <1>1, <1>2, <1>7 DEF Covered
<1>9. ServerTyped' /\ Covered'
  <2>1. sending' \subseteq sending \cup {issued'}
    BY <1>2
  <2>2. IdsOf(topics') = IdsOf(topics)
    BY <1>4
  <2> QED
    BY <1>2, <1>3, <1>7, <1>8, <2>1, <2>2, MessageAdded
<1> QED
  BY <1>5, <1>6, <1>9 DEF IInv

LEMMA DeletedStep ==
    ASSUME NEW t \in Topics PROVE IInv /\ handleMessagesDeleted(t) => IInv'
<1> SUFFICES ASSUME IInv, handleMessagesDeleted(t) PROVE IInv'
  OBVIOUS
<1>1. ServerTyped /\ ClientTyped /\ ListOK /\ Covered
  BY DEF IInv
<1> DEFINE m == Max(messages[t])
           S == messages[t] \ {m}
<1>2. /\ t \in Existing
      /\ messages' = [messages EXCEPT ![t] = S]
      /\ pinned' = {u \in pinned : messages'[u] # {}}
      /\ drafts' = [u \in Topics |-> IF messages'[u] = {} THEN 0 ELSE drafts[u]]
      /\ UNCHANGED <<topics, topicIndexMap, topicLastMessageIdIndexMap>>
      /\ UNCHANGED <<nextOffset, endReached, pages, continued, excused, issued, sending>>
  BY DEF handleMessagesDeleted, listVars, pageVars
<1>3. fetching' = fetching \/ \E u \in Topics : Fetch(u)
  <2> DEFINE i == topicLastMessageIdIndexMap[m]
  <2>1. i \in DOMAIN topics => topics[i].id \in Topics
    <3>1. topics \in Seq(Row)
      BY <1>1 DEF ListOK, ListSound, RowsUpTo
    <3> QED
      BY <3>1, Identifiers
  <2>2. \/ fetching' = fetching
        \/ i \in DOMAIN topics /\ Fetch(topics[i].id)
        \/ \E u \in Topics : Fetch(u)
    BY DEF handleMessagesDeleted
  <2> QED
    BY <2>1, <2>2
<1>4. /\ fetching' \in [Topics -> 0..MaxFetches]
      /\ \A u \in Topics : fetching[u] > 0 => fetching'[u] > 0
  <2>1. CASE fetching' = fetching
    BY <1>1, <2>1 DEF ClientTyped
  <2>2. CASE \E u \in Topics : Fetch(u)
    BY <1>1, <2>2, FetchStep
  <2> QED
    BY <1>3, <2>1, <2>2
<1>5. ClientTyped'
  BY <1>1, <1>2, <1>4 DEF ClientTyped
<1>6. ListOK'
  BY <1>1, <1>2 DEF ListOK
<1>7. \A u \in Topics : Known(u) => Known(u)'
  BY <1>2, <1>4 DEF Known
<1>8. messages \in [Topics -> SUBSET (1..issued)] /\ messages[t] \subseteq 1..issued
  BY <1>1 DEF ServerTyped
<1>9. S \subseteq messages[t]
  OBVIOUS
<1> HIDE DEF S
<1>10. /\ messages'[t] = S
       /\ \A u \in Topics : u # t => /\ messages'[u] = messages[u]
                                     /\ u \in Existing' <=> u \in Existing
       /\ \A u \in Existing' : u # t =>
            u \in Existing /\ Max(messages'[u]) <= Max(messages[u])
  BY <1>1, <1>2, OneTopic
<1>11. messages' \in [Topics -> SUBSET (1..issued')]
  BY <1>2, <1>8, <1>9
<1>12. pinned' \subseteq Existing'
  <2>1. pinned \subseteq Topics
    BY <1>1 DEF ServerTyped, Existing
  <2> QED
    BY <1>2, <2>1 DEF Existing
<1>13. drafts' \in [Topics -> 0..MaxMsg]
  <2>1. drafts \in [Topics -> 0..MaxMsg] /\ 0 \in 0..MaxMsg
    BY <1>1, ForumAssumption DEF ServerTyped
  <2> QED
    BY <1>2, <2>1
<1>14. ServerTyped'
  BY <1>1, <1>2, <1>11, <1>12, <1>13 DEF ServerTyped
\* The last message of the topic is an older one now.
<1>15. t \in Existing' => Max(messages'[t]) <= Max(messages[t])
  <2> SUFFICES ASSUME t \in Existing' PROVE Max(S) <= Max(messages[t])
    BY <1>10
  <2>1. S # {} /\ S \subseteq 1..issued /\ issued \in 0..MaxMsg
    BY <1>1, <1>8, <1>9, <1>10 DEF Existing, ServerTyped
  <2>2. Max(S) \in S
    BY <2>1, LastOfMessages
  <2>3. \A n \in messages[t] : n <= Max(messages[t])
    BY <1>1, <1>2, LastMessage
  <2> QED
    BY <1>9, <2>2, <2>3
<1>16. \A u \in Existing' :
        \/ Known(u)'
        \/ u \in Existing /\ Max(messages'[u]) <= Max(messages[u])
  BY <1>2, <1>10, <1>15
<1>17. \A u \in pinned' : u \in excused' \/ u \in IdsOf(topics')
  BY <1>1, <1>2 DEF Covered
<1>18. \A u \in Topics : messages'[u] \cap sending' # {} => Known(u)'
  <2>1. \A u \in Topics : messages'[u] \subseteq messages[u]
    BY <1>9, <1>10
  <2>2. \A u \in Topics : messages[u] \cap sending # {} => Known(u)
    BY <1>1 DEF Covered
  <2> QED
    BY <1>2, <1>7, <2>1, <2>2
<1>19. Covered'
  BY <1>2, <1>7, <1>14, <1>16, <1>17, <1>18, CoveredKept
<1> QED
  BY <1>5, <1>6, <1>14, <1>19 DEF IInv

\* An answer to getForumTopic: one request less.
LEMMA Answered ==
    ASSUME ClientTyped, NEW t \in Topics, fetching[t] > 0,
           fetching' = [fetching EXCEPT ![t] = fetching[t] - 1]
    PROVE  /\ fetching' \in [Topics -> 0..MaxFetches]
           /\ \A u \in Topics : u # t => fetching'[u] = fetching[u]
<1>1. fetching \in [Topics -> 0..MaxFetches] /\ MaxFetches \in Nat
  BY ForumAssumption DEF ClientTyped
<1> QED
  BY <1>1

LEMMA ReceivedStep ==
    ASSUME NEW t \in Topics PROVE IInv /\ handleForumTopicReceived(t) => IInv'
<1> SUFFICES ASSUME IInv, handleForumTopicReceived(t) PROVE IInv'
  OBVIOUS
<1>1. ServerTyped /\ ClientTyped /\ ListOK
  BY DEF IInv
<1>2. /\ fetching[t] > 0 /\ t \in Existing
      /\ fetching' = [fetching EXCEPT ![t] = fetching[t] - 1]
      /\ UNCHANGED <<nextOffset, endReached, pages, continued, excused>>
      /\ UNCHANGED tdVars
  BY DEF handleForumTopicReceived, pageVars
<1>3. /\ fetching' \in [Topics -> 0..MaxFetches]
      /\ \A u \in Topics : u # t => fetching'[u] = fetching[u]
  BY <1>1, <1>2, Answered
<1>4. issued \in 0..MaxMsg /\ continued \in BOOLEAN /\ issued' = issued /\ issued <= issued
  BY <1>1, <1>2 DEF ServerTyped, ClientTyped, tdVars
<1>5. Topic(t) \in Row /\ Topic(t).id = t /\ Topic(t).last <= issued
  BY <1>1, <1>2, TopicTyped
<1>6. /\ ListSound(topics', topicIndexMap', topicLastMessageIdIndexMap', issued, continued)
      /\ IdsOf(topics') = IdsOf(topics) \cup {t}
  <2> DEFINE row == Topic(t)
  <2> HIDE DEF row
  <2>1. row \in Row /\ row.id = t /\ row.last <= issued
    BY <1>5 DEF row
  <2>2. CASE t \in DOMAIN topicIndexMap
    <3> DEFINE i == topicIndexMap[t]
    <3>1. handleForumTopicRolesChanged(i, row, TRUE)
      BY <2>2 DEF handleForumTopicReceived, row
    <3>2. i \in 1..Len(topics) /\ topics[i].id = t /\ t \in IdsOf(topics)
      BY <2>2, Found
    <3> HIDE DEF i
    <3>3. row.id = topics[i].id
      BY <2>1, <3>2
    <3>4. /\ ListSound(topics', topicIndexMap', topicLastMessageIdIndexMap', issued, continued)
          /\ IdsOf(topics') = IdsOf(topics)
      BY <1>1, <1>4, <2>1, <3>1, <3>2, <3>3, RowChanged DEF ListOK
    <3> QED
      BY <3>2, <3>4
  <2>3. CASE t \notin DOMAIN topicIndexMap
    <3>1. insertNewTopic(row)
      BY <2>3 DEF handleForumTopicReceived, row
    <3>2. /\ ListSound(topics', topicIndexMap', topicLastMessageIdIndexMap', issued, continued)
          /\ IdsOf(topics') = IdsOf(topics) \cup {row.id}
      BY <1>1, <1>4, <2>1, <2>3, <3>1, TopicInserted DEF ListOK
    <3> QED
      BY <2>1, <3>2
  <2> QED
    BY <2>2, <2>3
<1>7. ListOK'
  BY <1>2, <1>4, <1>6 DEF ListOK
<1>8. ClientTyped'
  BY <1>1, <1>2, <1>3 DEF ClientTyped
<1>9. \A u \in Topics : Known(u) => Known(u)'
  BY <1>2, <1>3, <1>6 DEF Known
<1>10. ServerTyped' /\ Covered'
  BY <1>2, <1>6, <1>9, CoveredKeptByClient
<1> QED
  BY <1>7, <1>8, <1>10 DEF IInv

LEMMA NotFoundStep ==
    ASSUME NEW t \in Topics PROVE IInv /\ handleForumTopicNotFound(t) => IInv'
<1> SUFFICES ASSUME IInv, handleForumTopicNotFound(t) PROVE IInv'
  OBVIOUS
<1>1. ServerTyped /\ ClientTyped /\ ListOK
  BY DEF IInv
<1>2. /\ fetching[t] > 0 /\ fetching' = [fetching EXCEPT ![t] = fetching[t] - 1]
      /\ excused' = excused \cup {t}
      /\ UNCHANGED <<nextOffset, endReached, pages, continued>>
      /\ UNCHANGED tdVars
  BY DEF handleForumTopicNotFound, pageVars
<1>3. /\ fetching' \in [Topics -> 0..MaxFetches]
      /\ \A u \in Topics : u # t => fetching'[u] = fetching[u]
  BY <1>1, <1>2, Answered
<1>4. issued \in 0..MaxMsg /\ continued \in BOOLEAN /\ issued' = issued
  BY <1>1, <1>2 DEF ServerTyped, ClientTyped, tdVars
<1>5. /\ ListSound(topics', topicIndexMap', topicLastMessageIdIndexMap', issued, continued)
      /\ IdsOf(topics) \subseteq IdsOf(topics') \cup {t}
  <2>1. CASE t \in DOMAIN topicIndexMap
    <3> DEFINE pos == topicIndexMap[t]
               rest == RemoveAt(topics, pos)
               behind == pos..Len(rest)
    <3>1. /\ topics' = rest
          /\ topicIndexMap' = WithIds(Without(topicIndexMap, t), rest, behind)
          /\ topicLastMessageIdIndexMap' =
                WithIds(Without(topicLastMessageIdIndexMap, t), rest, behind)
      BY <2>1, Zenon DEF handleForumTopicNotFound, WithIds
    <3>2. /\ ListSound(rest, WithIds(Without(topicIndexMap, t), rest, behind),
                       WithIds(Without(topicLastMessageIdIndexMap, t), rest, behind),
                       issued, continued)
          /\ IdsOf(topics) \subseteq IdsOf(rest) \cup {t}
      BY <1>1, <1>4, <2>1, TopicRemoved DEF ListOK
    <3> HIDE DEF rest, behind
    <3> QED
      BY <3>1, <3>2
  <2>2. CASE t \notin DOMAIN topicIndexMap
    <3>1. UNCHANGED <<topics, topicIndexMap, topicLastMessageIdIndexMap>>
      BY <2>2 DEF handleForumTopicNotFound, listVars
    <3> QED
      BY <1>1, <3>1 DEF ListOK
  <2> QED
    BY <2>1, <2>2
<1>6. ListOK'
  BY <1>2, <1>4, <1>5 DEF ListOK
<1>7. ClientTyped'
  BY <1>1, <1>2, <1>3 DEF ClientTyped
<1>8. \A u \in Topics : Known(u) => Known(u)'
  BY <1>2, <1>3, <1>5 DEF Known
<1>9. ServerTyped' /\ Covered'
  <2>1. \A u \in Topics : u \in excused \/ u \in IdsOf(topics)
                            => u \in excused' \/ u \in IdsOf(topics')
    BY <1>2, <1>5
  <2> QED
    BY <1>2, <1>8, <2>1, CoveredKeptByClient
<1> QED
  BY <1>6, <1>7, <1>9 DEF IInv

LEMMA UpdatedStep ==
    ASSUME NEW t \in Topics, NEW isPinned \in BOOLEAN, NEW draft \in {0, issued}
    PROVE  IInv /\ handleForumTopicUpdated(t, isPinned, draft) => IInv'
<1> SUFFICES ASSUME IInv, handleForumTopicUpdated(t, isPinned, draft) PROVE IInv'
  OBVIOUS
<1>1. ServerTyped /\ ClientTyped /\ ListOK /\ Covered
  BY DEF IInv
<1>2. /\ t \in Existing
      /\ pinned' = IF isPinned THEN pinned \cup {t} ELSE pinned \ {t}
      /\ drafts' = [drafts EXCEPT ![t] = draft]
      /\ excused' = IF isPinned /\ t \notin DOMAIN topicIndexMap
                    THEN excused \cup {t} ELSE excused
      /\ UNCHANGED <<nextOffset, endReached, pages, continued, fetching>>
      /\ UNCHANGED <<messages, issued, sending>>
  BY DEF handleForumTopicUpdated, pageVars
<1>3. /\ issued \in 0..MaxMsg /\ continued \in BOOLEAN /\ issued <= issued
      /\ draft \in 0..MaxMsg
  BY <1>1, ForumAssumption DEF ServerTyped, ClientTyped
<1>4. Existing' = Existing
  BY <1>2 DEF Existing
<1>5. ServerTyped'
  <2>1. pinned' \subseteq Existing
    BY <1>1, <1>2 DEF ServerTyped
  <2>2. drafts' \in [Topics -> 0..MaxMsg]
    BY <1>1, <1>2, <1>3 DEF ServerTyped
  <2> QED
    BY <1>1, <1>2, <1>4, <2>1, <2>2 DEF ServerTyped
<1>6. /\ ListSound(topics', topicIndexMap', topicLastMessageIdIndexMap', issued, continued)
      /\ IdsOf(topics') = IdsOf(topics)
      /\ t \in DOMAIN topicIndexMap => t \in IdsOf(topics)
  <2>1. CASE t \in DOMAIN topicIndexMap
    <3> DEFINE i == topicIndexMap[t]
               row == [topics[i] EXCEPT !.isPinned = isPinned, !.draft = draft]
    <3>1. handleForumTopicRolesChanged(i, row, FALSE)
      BY <2>1 DEF handleForumTopicUpdated
    <3>2. i \in 1..Len(topics) /\ topics[i] \in Row /\ t \in IdsOf(topics)
      BY <2>1, Found
    <3>3. row \in Row /\ row.id = topics[i].id /\ row.last = topics[i].last
      BY <1>3, <3>2 DEF Row
    <3>4. row.last <= issued
      BY <1>1, <3>2, <3>3 DEF ListOK, ListSound, RowsUpTo
    <3> HIDE DEF i, row
    <3>5. /\ ListSound(topics', topicIndexMap', topicLastMessageIdIndexMap', issued, continued)
          /\ IdsOf(topics') = IdsOf(topics)
      BY <1>1, <1>3, <3>1, <3>2, <3>3, <3>4, RowChanged DEF ListOK
    <3> QED
      BY <3>2, <3>5
  <2>2. CASE t \notin DOMAIN topicIndexMap
    <3>1. UNCHANGED <<topics, topicIndexMap, topicLastMessageIdIndexMap>>
      BY <2>2 DEF handleForumTopicUpdated, listVars
    <3> QED
      BY <1>1, <2>2, <3>1 DEF ListOK
  <2> QED
    BY <2>1, <2>2
<1>7. ListOK'
  BY <1>2, <1>6 DEF ListOK
<1>8. ClientTyped'
  BY <1>1, <1>2 DEF ClientTyped
<1>9. excused \subseteq excused'
  BY <1>2
<1>10. \A u \in Topics : Known(u) => Known(u)'
  BY <1>2, <1>6, <1>9 DEF Known
<1>11. \A u \in Existing' :
        \/ Known(u)'
        \/ u \in Existing /\ Max(messages'[u]) <= Max(messages[u])
  <2> SUFFICES ASSUME NEW u \in Existing PROVE Max(messages[u]) <= Max(messages[u])
    BY <1>2, <1>4
  <2> DEFINE l == Max(messages[u])
  <2>1. l \in MsgIds /\ MsgIds \subseteq Int
    BY <1>1, LastMessage DEF MsgIds
  <2> HIDE DEF l
  <2>2. l <= l
    BY <2>1
  <2> QED
    BY <2>2 DEF l
\* A topic that is pinned is a row, or is excused from now on.
<1>12. \A u \in pinned' : u \in excused' \/ u \in IdsOf(topics')
  <2> SUFFICES ASSUME NEW u \in pinned' PROVE u \in excused' \/ u \in IdsOf(topics)
    BY <1>6
  <2>1. CASE u \in pinned
    BY <1>1, <1>9, <2>1 DEF Covered
  <2>2. CASE u \notin pinned
    <3>1. isPinned /\ u = t
      BY <1>2, <2>2
    <3> QED
      BY <1>2, <1>6, <3>1
  <2> QED
    BY <2>1, <2>2
<1>13. \A u \in Topics : messages'[u] \cap sending' # {} => Known(u)'
  BY <1>1, <1>2, <1>10 DEF Covered
<1>14. Covered'
  BY <1>2, <1>5, <1>10, <1>11, <1>12, <1>13, CoveredKept
<1> QED
  BY <1>5, <1>7, <1>8, <1>14 DEF IInv

\* The list after a page.
LEMMA PageListed ==
    ASSUME IInv, NEW k \in DOMAIN pages, handleForumTopicsReceived(k),
           Page(pages[k]) # {}
    PROVE  /\ ListOK' /\ continued' \in BOOLEAN
           /\ IdsOf(topics') = IdsOf(topics) \cup Page(pages[k])
<1> DEFINE page == Page(pages[k])
           rows == SortedPage(page)
           n == Len(topics)
           R == n + 1..n + Len(rows)
           new == Join(topics, rows)
           fits == \A i \in 1..n, t \in page :
                        topics[i].id # t /\ lessThan(topics[i], Topic(t))
           d == continued /\ fits
<1>1. ServerTyped /\ ClientTyped /\ ListOK
  BY DEF IInv
<1>2. UNCHANGED tdVars /\ Reindex(topics \o rows, R) /\ continued' = d
  BY DEF handleForumTopicsReceived
<1>3. /\ topics' = new
      /\ topicIndexMap' = WithIds(topicIndexMap, new, R)
      /\ topicLastMessageIdIndexMap' = WithLasts(topicLastMessageIdIndexMap, new, R)
  BY <1>2, Zenon DEF Reindex, Join, WithIds, WithLasts
<1>4. page \subseteq Existing
  BY <1>1, PageCovers
<1> HIDE DEF page
<1>5. rows = SortedPage(page)
  OBVIOUS
<1> HIDE DEF rows
<1>6. /\ RowsUpTo(rows, issued) /\ Ordered(rows) /\ IdsOf(rows) = page
      /\ \A j \in 1..Len(rows) : rows[j].id \in page /\ rows[j] = Topic(rows[j].id)
  BY <1>1, <1>4, <1>5, PageSorted
<1>7. d \in BOOLEAN
  <2>1. fits \in BOOLEAN
    BY Zenon
  <2>2. continued \in BOOLEAN
    BY <1>1 DEF ClientTyped
  <2> QED
    BY <2>1, <2>2
<1>8. d => /\ continued
           /\ \A i \in 1..Len(topics), j \in 1..Len(rows) :
                topics[i].id # rows[j].id /\ lessThan(topics[i], rows[j])
  BY <1>6
<1>9. issued \in 0..MaxMsg /\ continued \in BOOLEAN
  BY <1>1 DEF ServerTyped, ClientTyped
<1> HIDE DEF d
<1>10. /\ ListSound(new, WithIds(topicIndexMap, new, R),
                    WithLasts(topicLastMessageIdIndexMap, new, R), issued, d)
       /\ IdsOf(new) = IdsOf(topics) \cup IdsOf(rows)
  BY <1>1, <1>6, <1>7, <1>8, <1>9, PageAppended DEF ListOK
<1>11. issued' = issued
  BY <1>2 DEF tdVars
<1> HIDE DEF new, R, n
<1>12. ListOK'
  BY <1>2, <1>3, <1>10, <1>11, Zenon DEF ListOK
<1>13. continued' \in BOOLEAN
  BY <1>2, <1>7, Zenon
<1>14. IdsOf(topics') = IdsOf(topics) \cup page
  BY <1>3, <1>6, <1>10
<1> QED
  BY <1>12, <1>13, <1>14 DEF page

LEMMA PageStep ==
    ASSUME NEW k \in DOMAIN pages PROVE IInv /\ handleForumTopicsReceived(k) => IInv'
<1> SUFFICES ASSUME IInv, handleForumTopicsReceived(k) PROVE IInv'
  OBVIOUS
<1> DEFINE page == Page(pages[k])
           unpinned == page \ pinned
           next == Min({Max(messages[t]) : t \in unpinned})
<1>1. ServerTyped /\ ClientTyped /\ ListOK /\ Covered
  BY DEF IInv
<1>2. /\ pages' = RemoveAt(pages, k)
      /\ UNCHANGED <<fetching, excused>> /\ UNCHANGED tdVars
      /\ page = {} => /\ endReached' = TRUE
                      /\ UNCHANGED <<topics, topicIndexMap, topicLastMessageIdIndexMap>>
                      /\ UNCHANGED <<nextOffset, continued>>
      /\ page # {} => /\ nextOffset' = IF unpinned = {} THEN 0 ELSE next
                      /\ UNCHANGED endReached
  BY DEF handleForumTopicsReceived, listVars
<1>3. /\ messages' = messages /\ pinned' = pinned /\ drafts' = drafts
      /\ issued' = issued /\ sending' = sending
  BY <1>2 DEF tdVars
<1>4. Existing' = Existing
  BY <1>3 DEF Existing
<1>5. ServerTyped'
  BY <1>1, <1>3, <1>4 DEF ServerTyped
<1>6. pages \in Seq(0..MaxMsg) /\ Len(pages) \in Nat /\ k \in 1..Len(pages)
  BY <1>1 DEF ClientTyped
<1>7. pages' \in Seq(0..MaxMsg) /\ Len(pages') = Len(pages) - 1
  <2>1. pages' \in Seq(0..MaxMsg)
    BY <1>2, <1>6, RemoveAtProperties
  <2>2. Len(pages') = Len(pages) - 1
    BY <1>2, <1>6, RemoveAtProperties
  <2> QED
    BY <2>1, <2>2
<1>8. \A i \in 1..Len(pages) - 1 : pages'[i] = IF i < k THEN pages[i] ELSE pages[i + 1]
  BY <1>2, <1>6, RemoveAtProperties
<1>9. /\ page \subseteq Existing
      /\ unpinned # {} =>
            /\ next \in MsgIds
            /\ \A t \in Existing \ pinned :
                \/ Max(messages[t]) < next
                \/ pages[k] # 0 /\ ~(Max(messages[t]) < pages[k])
                \/ t \in page
  BY <1>1, PageCovers
<1>10. /\ ListOK' /\ continued' \in BOOLEAN
       /\ IdsOf(topics') = IdsOf(topics) \cup page
  <2>1. CASE page = {}
    <3>1. ListOK'
      BY <1>1, <1>2, <1>3, <2>1 DEF ListOK
    <3>2. continued' \in BOOLEAN
      BY <1>1, <1>2, <2>1 DEF ClientTyped
    <3>3. IdsOf(topics') = IdsOf(topics)
      BY <1>2, <2>1
    <3> QED
      BY <2>1, <3>1, <3>2, <3>3
  <2>2. CASE page # {}
    BY <2>2, PageListed
  <2> QED
    BY <2>1, <2>2
<1> HIDE DEF page, next
<1>11. nextOffset' \in 0..MaxMsg
  <2>1. MsgIds \subseteq 0..MaxMsg /\ 0 \in 0..MaxMsg
    BY ForumAssumption DEF MsgIds
  <2>2. nextOffset \in 0..MaxMsg
    BY <1>1 DEF ClientTyped
  <2> QED
    BY <1>2, <1>9, <2>1, <2>2
<1>12. endReached' \in BOOLEAN
  BY <1>1, <1>2 DEF ClientTyped
<1>13. fetching' \in [Topics -> 0..MaxFetches]
  BY <1>1, <1>2 DEF ClientTyped
<1>14. ClientTyped'
  BY <1>7, <1>10, <1>11, <1>12, <1>13 DEF ClientTyped
<1>15. \A t : Known(t) => Known(t)'
  BY <1>2, <1>10 DEF Known
<1>16. \A o : CoveredTo(o) => CoveredTo(o)'
  BY <1>3, <1>4, <1>15 DEF CoveredTo
<1>17. \A i \in 1..Len(pages') : CoveredTo(pages[i])'
  <2> SUFFICES ASSUME NEW i \in 1..Len(pages) - 1 PROVE CoveredTo(pages[i])'
    BY <1>7
  <2>1. i \in 1..Len(pages) /\ i + 1 \in 1..Len(pages)
    BY <1>6
  <2> DEFINE o == pages'[i]
  <2>2. CoveredTo(o)
    BY <1>1, <1>8, <2>1 DEF Covered
  <2>3. o # 0 => \A t \in Existing' : Max(messages'[t]) < o \/ Known(t)'
    BY <1>3, <1>4, <1>15, <2>2 DEF CoveredTo
  <2> QED
    BY <2>3 DEF CoveredTo
\* The end of this page, which may have been asked for long ago.
<1>18. CoveredTo(nextOffset)'
  <2>1. CASE page = {}
    <3>1. nextOffset' = nextOffset /\ CoveredTo(nextOffset)
      BY <1>1, <1>2, <2>1 DEF Covered
    <3> QED
      BY <1>3, <1>4, <1>15, <3>1 DEF CoveredTo
  <2>2. CASE page # {} /\ unpinned = {}
    <3>1. nextOffset' = 0
      BY <1>2, <2>2
    <3> QED
      BY <3>1 DEF CoveredTo
  <2>3. CASE page # {} /\ unpinned # {}
    <3>1. nextOffset' = next
      BY <1>2, <2>3
    <3>2. ASSUME NEW t \in Existing, ~(Max(messages[t]) < next)
          PROVE  Known(t)'
      <4>1. CASE t \in pinned
        <5>1. t \in excused \/ t \in IdsOf(topics)
          BY <1>1, <4>1 DEF Covered
        <5> QED
          BY <1>15, <5>1 DEF Known
      <4>2. CASE t \notin pinned /\ pages[k] # 0 /\ ~(Max(messages[t]) < pages[k])
        <5>1. CoveredTo(pages[k])
          BY <1>1, <1>6 DEF Covered
        <5>2. Known(t)
          BY <4>2, <5>1 DEF CoveredTo
        <5> QED
          BY <1>15, <5>2
      <4>3. CASE t \in page
        BY <1>10, <4>3 DEF Known
      <4> QED
        BY <1>9, <2>3, <3>2, <4>1, <4>2, <4>3
    <3> QED
      BY <1>3, <1>4, <3>1, <3>2 DEF CoveredTo
  <2> QED
    BY <2>1, <2>2, <2>3
<1>19. \A t \in pinned' : t \in excused' \/ t \in IdsOf(topics')
  BY <1>1, <1>2, <1>3, <1>10 DEF Covered
<1>20. \A t \in Topics : messages'[t] \cap sending' # {} => Known(t)'
  BY <1>1, <1>3, <1>15 DEF Covered
<1>21. Covered'
  BY <1>17, <1>18, <1>19, <1>20 DEF Covered
<1> QED
  BY <1>5, <1>10, <1>14, <1>21 DEF IInv

LEMMA NextIInv == IInv /\ [Next]_vars => IInv'
<1> SUFFICES ASSUME IInv, [Next]_vars PROVE IInv'
  OBVIOUS
<1>1. CASE loadMore
  BY <1>1, LoadMoreStep
<1>2. ASSUME NEW k \in DOMAIN pages, handleForumTopicsReceived(k) PROVE IInv'
  BY <1>2, PageStep
<1>3. ASSUME NEW m, handleMessageContentUpdated(m) PROVE IInv'
  BY <1>3, ContentStep
<1>4. ASSUME NEW t \in Topics, NEW outgoing \in BOOLEAN,
             handleNewMessageReceived(t, outgoing) PROVE IInv'
  BY <1>4, NewMessageStep
<1>5. ASSUME NEW t \in Topics, NEW m, handleMessageSendSucceeded(t, m) PROVE IInv'
  BY <1>5, SendStep
<1>6. ASSUME NEW t \in Topics, handleMessagesDeleted(t) PROVE IInv'
  BY <1>6, DeletedStep
<1>7. ASSUME NEW t \in Topics, handleForumTopicReceived(t) PROVE IInv'
  BY <1>7, ReceivedStep
<1>8. ASSUME NEW t \in Topics, handleForumTopicNotFound(t) PROVE IInv'
  BY <1>8, NotFoundStep
<1>9. ASSUME NEW t \in Topics, NEW isPinned \in BOOLEAN, NEW draft \in {0, issued},
             handleForumTopicUpdated(t, isPinned, draft) PROVE IInv'
  BY <1>9, UpdatedStep
<1>10. CASE UNCHANGED vars
  <2>1. /\ UNCHANGED <<topics, topicIndexMap, topicLastMessageIdIndexMap>>
        /\ UNCHANGED <<nextOffset, endReached, pages, continued, fetching, excused>>
        /\ UNCHANGED <<messages, pinned, drafts, issued, sending>>
    BY <1>10 DEF vars, listVars, pageVars, tdVars
  <2> QED
    BY <2>1 DEF IInv, ServerTyped, Existing, ClientTyped, ListOK, Covered, CoveredTo, Known
<1> QED
  BY <1>1, <1>2, <1>3, <1>4, <1>5, <1>6, <1>7, <1>8, <1>9, <1>10 DEF Next

LEMMA Invariance == Spec => []IInv
  BY InitIInv, NextIInv, PTL DEF Spec

-----------------------------------------------------------------------------
(***************************************************************************)
(* Types: only positions of rows are remembered, and only requests that    *)
(* were made are answered, whatever the answers and updates of             *)
(* forumtopicsmodel.cpp come in which order.                               *)
(***************************************************************************)
THEOREM TypeCorrect == Spec => []TypeOK
<1>1. IInv => TypeOK
  <2> SUFFICES ASSUME IInv PROVE TypeOK
    OBVIOUS
  <2>1. ServerTyped /\ ClientTyped /\ ListOK
    BY DEF IInv
  <2>2. /\ topics \in Seq(Row) /\ DOMAIN topicIndexMap \subseteq Topics
        /\ DOMAIN topicLastMessageIdIndexMap \subseteq Topics \cup 1..issued
        /\ \A k \in DOMAIN topicLastMessageIdIndexMap :
                topicLastMessageIdIndexMap[k] \in Nat \ {0}
    BY <2>1 DEF ListOK, ListSound, RowsUpTo, LastsUpTo
  <2>3. 1..issued \subseteq MsgIds
    BY <2>1, ForumAssumption DEF ServerTyped, MsgIds
  <2>4. Range(topicLastMessageIdIndexMap) \subseteq Nat \ {0}
    BY <2>2 DEF Range
  <2>5. Range(pages) \subseteq 0..MaxMsg
    <3>1. pages \in Seq(0..MaxMsg)
      BY <2>1 DEF ClientTyped
    <3>2. DOMAIN pages = 1..Len(pages)
      BY <3>1
    <3>3. \A k \in 1..Len(pages) : pages[k] \in 0..MaxMsg
      BY ONLY <3>1, ElementOfSeq
    <3> QED
      BY <3>2, <3>3 DEF Range
  <2> QED
    BY <2>1, <2>2, <2>3, <2>4, <2>5 DEF TypeOK, ClientTyped
<1> QED
  BY <1>1, Invariance, PTL

(***************************************************************************)
(* Every handler of forumtopicsmodel.cpp that looks a topic up in          *)
(* topicIndexMap finds its row, although a topic may be listed twice when  *)
(* the answer to getForumTopic and a page both bring it, and the map is    *)
(* repaired for a range of rows only.                                      *)
(***************************************************************************)
THEOREM IndexCorrect == Spec => []TopicIndexSound
<1>1. IInv => TopicIndexSound
  <2> SUFFICES ASSUME IInv PROVE TopicIndexSound
    OBVIOUS
  <2>1. topics \in Seq(Row) /\ Points(topicIndexMap, topics, {})
    BY DEF IInv, ListOK, ListSound, RowsUpTo
  <2>2. DOMAIN topics = 1..Len(topics)
    BY <2>1, Identifiers
  <2> QED
    BY <2>1, <2>2 DEF TopicIndexSound, Points
<1> QED
  BY <1>1, Invariance, PTL

(***************************************************************************)
(* The scans of insertNewTopic and updateForumTopicOrder keep the list of  *)
(* forumtopicsmodel.cpp sorted and without duplicates, and topicIndexMap   *)
(* complete, as long as each page belonged below the rows it met.          *)
(***************************************************************************)
THEOREM OrderCorrect == Spec => []OrderedWhileContinued
<1>1. IInv => OrderedWhileContinued
  <2> SUFFICES ASSUME IInv, continued
               PROVE  /\ \A i, j \in DOMAIN topics : i < j =>
                            topics[i].id # topics[j].id /\ lessThan(topics[i], topics[j])
                      /\ DOMAIN topicIndexMap = {topics[i].id : i \in DOMAIN topics}
    BY DEF OrderedWhileContinued
  <2>1. topics \in Seq(Row) /\ Ordered(topics) /\ DOMAIN topicIndexMap = IdsOf(topics)
    BY DEF IInv, ListOK, ListSound, RowsUpTo
  <2>2. DOMAIN topics = 1..Len(topics)
    BY <2>1, Identifiers
  <2> QED
    BY <2>1, <2>2 DEF Ordered, IdsOf
<1> QED
  BY <1>1, Invariance, PTL

(***************************************************************************)
(* A topic with a message at or above nextOffsetMessageId is a row of the  *)
(* list or is being fetched, although messages arrive, are sent and are    *)
(* deleted while pages are in flight, and pages are answered in any order. *)
(***************************************************************************)
THEOREM PagesCorrect == Spec => []NoTopicOverlooked
<1>1. IInv => NoTopicOverlooked
  <2> SUFFICES ASSUME IInv, nextOffset # 0, NEW t \in Existing \ excused
               PROVE  \/ Max(messages[t]) < nextOffset
                      \/ fetching[t] > 0
                      \/ \E i \in DOMAIN topics : topics[i].id = t
    BY DEF NoTopicOverlooked
  <2>1. Max(messages[t]) < nextOffset \/ Known(t)
    BY DEF IInv, Covered, CoveredTo
  <2>2. topics \in Seq(Row)
    BY DEF IInv, ListOK, ListSound, RowsUpTo
  <2>3. DOMAIN topics = 1..Len(topics)
    BY <2>2, Identifiers
  <2> QED
    BY <2>1, <2>3 DEF Known, IdsOf
<1> QED
  BY <1>1, Invariance, PTL
=============================================================================
