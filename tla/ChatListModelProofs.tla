------------------------ MODULE ChatListModelProofs ------------------------
(***************************************************************************)
(* For every set of chats and of orders, and however TDLib interleaves its *)
(* updates, logouts and answers: the index map of a chat list is exact and *)
(* the list is sorted.  The two need each other and RowsAreListed: an      *)
(* update indexes the list through the map, the scans of the insertion and *)
(* the move are right only in a sorted list, and a chat that were listed   *)
(* twice would have two rows and one entry in the map.                     *)
(*                                                                         *)
(* The second half is about the tabs that show the lists: for every set of *)
(* folders, the tabs become the arrangement that TDLib sends.              *)
(***************************************************************************)
EXTENDS ChatListModel, ChatFoldersModel, ListLemmas

IInv == TypeOK /\ IndexMapExact /\ Sorted /\ RowsAreListed

-----------------------------------------------------------------------------
(***************************************************************************)
(* compareTo orders the rows: it is total, transitive and never 0.         *)
(***************************************************************************)
LEMMA CompareTotal ==
    ASSUME NEW a \in Row, NEW b \in Row
    PROVE  /\ compareTo(a, b) < 0 \/ compareTo(b, a) < 0
           /\ compareTo(a, b) > 0 <=> ~(compareTo(a, b) < 0)
<1>1. a.order \in Int /\ b.order \in Int /\ a.chat \in Int /\ b.chat \in Int
  BY ChatListAssumption DEF Row
<1> QED
  BY <1>1 DEF compareTo

LEMMA CompareTransitive ==
    ASSUME NEW a \in Row, NEW b \in Row, NEW c \in Row,
           compareTo(a, b) < 0, compareTo(b, c) < 0
    PROVE  compareTo(a, c) < 0
<1>1. /\ a.order \in Int /\ b.order \in Int /\ c.order \in Int
      /\ a.chat \in Int /\ b.chat \in Int /\ c.chat \in Int
  BY ChatListAssumption DEF Row
<1> QED
  BY <1>1 DEF compareTo

(***************************************************************************)
(* The scan of handleChatAddedToList finds a place between the rows that   *)
(* stay above the new one and those that go below it.                      *)
(***************************************************************************)
LEMMA InsertionPosCorrect ==
    ASSUME NEW list \in Seq(Row), NEW row \in Row, InOrder(list)
    PROVE  LET pos == InsertionPos(list, row)
           IN  /\ pos \in 1..Len(list) + 1
               /\ \A k \in 1..pos - 1 : compareTo(list[k], row) < 0
               /\ \A k \in pos..Len(list) : compareTo(row, list[k]) < 0
<1> DEFINE T == {p \in 1..Len(list) + 1 :
                    p = Len(list) + 1 \/ compareTo(row, list[p]) < 0}
           pos == InsertionPos(list, row)
<1>1. Len(list) \in Nat /\ DOMAIN list = 1..Len(list)
      /\ \A k \in 1..Len(list) : list[k] \in Row
  OBVIOUS
<1>2. T \subseteq Nat /\ Len(list) + 1 \in T
  BY <1>1
<1>3. pos \in T /\ \A p \in T : pos <= p
  BY <1>2, MinOfPositions, Zenon DEF InsertionPos
<1> HIDE DEF pos
<1>4. pos \in 1..Len(list) + 1
  BY <1>3
<1>5. ASSUME NEW k \in 1..pos - 1
      PROVE  compareTo(list[k], row) < 0
  <2>1. k \in 1..Len(list) /\ k < pos
    BY <1>1, <1>4
  <2>2. ~(compareTo(row, list[k]) < 0)
    BY <1>1, <1>3, <1>4, <2>1
  <2> QED
    BY <1>1, <2>1, <2>2, CompareTotal
<1>6. ASSUME NEW k \in pos..Len(list)
      PROVE  compareTo(row, list[k]) < 0
  <2>1. k \in 1..Len(list) /\ pos \in 1..Len(list) /\ pos <= k
    BY <1>1, <1>4
  <2>2. compareTo(row, list[pos]) < 0
    BY <1>1, <1>3, <2>1
  <2>3. pos = k \/ compareTo(list[pos], list[k]) < 0
    BY <1>1, <2>1 DEF InOrder
  <2> QED
    BY <1>1, <2>1, <2>2, <2>3, CompareTransitive
<1> QED
  BY <1>4, <1>5, <1>6 DEF pos

(***************************************************************************)
(* Inserting there keeps the list sorted.                                  *)
(***************************************************************************)
LEMMA InsertSorted ==
    ASSUME NEW list \in Seq(Row), NEW row \in Row, InOrder(list)
    PROVE  InOrder(InsertAt(list, InsertionPos(list, row), row))
<1> DEFINE pos == InsertionPos(list, row)
           new == InsertAt(list, pos, row)
<1>1. /\ pos \in 1..Len(list) + 1
      /\ \A k \in 1..pos - 1 : compareTo(list[k], row) < 0
      /\ \A k \in pos..Len(list) : compareTo(row, list[k]) < 0
  BY InsertionPosCorrect
<1> HIDE DEF pos
<1>2. /\ new \in Seq(Row) /\ Len(new) = Len(list) + 1
      /\ \A k \in 1..Len(list) + 1 :
            new[k] = IF k < pos THEN list[k]
                     ELSE IF k = pos THEN row ELSE list[k - 1]
  BY <1>1, InsertAtProperties
<1> HIDE DEF new
<1>3. Len(list) \in Nat /\ DOMAIN list = 1..Len(list)
      /\ DOMAIN new = 1..Len(list) + 1
  BY <1>2
<1>4. ASSUME NEW i \in 1..Len(list) + 1, NEW j \in 1..Len(list) + 1, i < j
      PROVE  compareTo(new[i], new[j]) < 0
  <2>1. CASE j < pos
    <3>1. i \in 1..Len(list) /\ j \in 1..Len(list)
      BY <1>1, <1>3, <1>4, <2>1
    <3>2. new[i] = list[i] /\ new[j] = list[j]
      BY <1>1, <1>2, <1>3, <1>4, <2>1
    <3> QED
      BY <1>3, <1>4, <3>1, <3>2 DEF InOrder
  <2>2. CASE j = pos
    BY <1>1, <1>2, <1>3, <1>4, <2>2
  <2>3. CASE j > pos /\ i = pos
    BY <1>1, <1>2, <1>3, <1>4, <2>3
  <2>4. CASE j > pos /\ i < pos
    <3>1. i \in 1..Len(list) /\ j - 1 \in 1..Len(list) /\ i < j - 1
      BY <1>1, <1>3, <1>4, <2>4
    <3>2. new[i] = list[i] /\ new[j] = list[j - 1]
      BY <1>1, <1>2, <1>3, <2>4
    <3> QED
      BY <1>3, <3>1, <3>2 DEF InOrder
  <2>5. CASE j > pos /\ i > pos
    <3>1. i - 1 \in 1..Len(list) /\ j - 1 \in 1..Len(list) /\ i - 1 < j - 1
      BY <1>1, <1>3, <1>4, <2>5
    <3>2. new[i] = list[i - 1] /\ new[j] = list[j - 1]
      BY <1>1, <1>2, <1>3, <2>5
    <3> QED
      BY <1>3, <3>1, <3>2 DEF InOrder
  <2> QED
    BY <1>1, <1>3, <2>1, <2>2, <2>3, <2>4, <2>5
<1> QED
  BY <1>3, <1>4 DEF InOrder, new, pos

(***************************************************************************)
(* Taking a row out keeps the list sorted.                                 *)
(***************************************************************************)
LEMMA RemoveSorted ==
    ASSUME NEW list \in Seq(Row), NEW i \in 1..Len(list), InOrder(list)
    PROVE  InOrder(RemoveAt(list, i))
<1>1. /\ RemoveAt(list, i) \in Seq(Row)
      /\ Len(RemoveAt(list, i)) = Len(list) - 1
      /\ \A k \in 1..Len(list) - 1 :
            RemoveAt(list, i)[k] = IF k < i THEN list[k] ELSE list[k + 1]
  BY RemoveAtProperties
<1>2. /\ Len(list) \in Nat /\ DOMAIN list = 1..Len(list)
      /\ DOMAIN RemoveAt(list, i) = 1..Len(list) - 1
  BY <1>1
<1>3. ASSUME NEW p \in 1..Len(list) - 1, NEW q \in 1..Len(list) - 1, p < q
      PROVE  compareTo(RemoveAt(list, i)[p], RemoveAt(list, i)[q]) < 0
  <2>1. PICK p1 \in {p, p + 1}, q1 \in {q, q + 1} :
            /\ RemoveAt(list, i)[p] = list[p1]
            /\ RemoveAt(list, i)[q] = list[q1]
            /\ p1 < q1
    <3>1. CASE q < i
      BY <1>1, <1>2, <1>3, <3>1
    <3>2. CASE q >= i /\ p < i
      BY <1>1, <1>2, <1>3, <3>2
    <3>3. CASE p >= i
      BY <1>1, <1>2, <1>3, <3>3
    <3> QED
      BY <1>2, <1>3, <3>1, <3>2, <3>3
  <2>2. p1 \in DOMAIN list /\ q1 \in DOMAIN list
    BY <1>2
  <2> QED
    BY <2>1, <2>2 DEF InOrder
<1> QED
  BY <1>2, <1>3 DEF InOrder

(***************************************************************************)
(* Reindexed repairs an index that is right outside of from..to.           *)
(***************************************************************************)
LEMMA ReindexExact ==
    ASSUME NEW list \in Seq(Row), NEW map, NEW from \in Nat, NEW to \in Nat,
           1 <= from, to <= Len(list),
           \A i, j \in 1..Len(list) : list[i].chat = list[j].chat => i = j,
           DOMAIN map \subseteq {list[i].chat : i \in 1..Len(list)},
           \A i \in 1..Len(list) : i \notin from..to =>
                list[i].chat \in DOMAIN map /\ map[list[i].chat] = i
    PROVE  IsIndexOf(Reindexed(map, list, from, to), list)
<1> DEFINE here(c) == {i \in from..to : list[i].chat = c}
           D == DOMAIN map \cup {list[i].chat : i \in from..to}
           new == Reindexed(map, list, from, to)
<1>1. Len(list) \in Nat /\ DOMAIN list = 1..Len(list)
  OBVIOUS
<1>2. new = [c \in D |-> IF here(c) = {} THEN map[c] ELSE Max(here(c))]
  BY DEF Reindexed
<1>3. D = {list[i].chat : i \in 1..Len(list)}
  BY <1>1
<1>4. ASSUME NEW i \in 1..Len(list)
      PROVE  new[list[i].chat] = i
  <2>1. list[i].chat \in D
    BY <1>3
  <2>2. CASE i \in from..to
    <3>1. here(list[i].chat) = {i}
      BY <1>1, <2>2
    <3>2. Max({i}) = i
      BY <1>1 DEF Max
    <3>3. here(list[i].chat) # {}
      BY <3>1
    <3>4. new[list[i].chat] = Max(here(list[i].chat))
      BY <1>2, <2>1, <3>3, Zenon
    <3> QED
      BY <3>1, <3>2, <3>4
  <2>3. CASE i \notin from..to
    <3>1. here(list[i].chat) = {}
      BY <1>1, <2>3
    <3> QED
      BY <1>2, <2>1, <2>3, <3>1
  <2> QED
    BY <2>2, <2>3
<1> QED
  BY <1>1, <1>2, <1>3, <1>4 DEF IsIndexOf

-----------------------------------------------------------------------------
(***************************************************************************)
(* QList::move, as positions: which row ends up where.                     *)
(***************************************************************************)
LEMMA MoveProperties ==
    ASSUME NEW list \in Seq(Row), NEW i \in 1..Len(list), NEW j \in 1..Len(list)
    PROVE  /\ Move(list, i, j) \in Seq(Row)
           /\ Len(Move(list, i, j)) = Len(list)
           /\ \A k \in 1..Len(list) :
                Move(list, i, j)[k] =
                    IF k = j THEN list[i]
                    ELSE IF i <= k /\ k < j THEN list[k + 1]
                    ELSE IF j < k /\ k <= i THEN list[k - 1]
                    ELSE list[k]
  BY ListMove DEF Move

(***************************************************************************)
(* The two scans of updateChatOrder: in a list that is sorted but for the  *)
(* row at i, they stop where that row belongs.                             *)
(***************************************************************************)
LEMMA MovedPosCorrect ==
    ASSUME NEW list \in Seq(Row), NEW i \in 1..Len(list),
           \A p, q \in 1..Len(list) \ {i} :
                p < q => compareTo(list[p], list[q]) < 0
    PROVE  LET j == MovedPos(list, i)
           IN  /\ j \in 1..Len(list)
               /\ \A k \in 1..Len(list) \ {i} :
                    /\ k < j \/ (k = j /\ i < j) => compareTo(list[k], list[i]) < 0
                    /\ k > j \/ (k = j /\ j < i) => compareTo(list[i], list[k]) < 0
<1> DEFINE U == {p \in 1..i :
                    \A q \in p..i - 1 : compareTo(list[i], list[q]) < 0}
           D == {p \in i..Len(list) :
                    \A q \in i + 1..p : compareTo(list[i], list[q]) > 0}
           up == Min(U)
           down == Max(D)
           j == MovedPos(list, i)
<1>1. Len(list) \in Nat /\ \A k \in 1..Len(list) : list[k] \in Row
  OBVIOUS
<1>2. j = IF up # i THEN up ELSE down
  BY DEF MovedPos
<1>3. U \subseteq Nat /\ i \in U /\ D \subseteq 0..Len(list) /\ i \in D
  BY <1>1
<1>4. up \in U /\ \A p \in U : up <= p
  BY <1>3, MinOfPositions
<1>5. down \in D /\ \A p \in D : down >= p
  BY <1>1, <1>3, MaxOfPositions
<1> HIDE DEF up, down, j
<1>6. up \in 1..i /\ down \in i..Len(list)
  BY <1>4, <1>5
\* The rows above the stop of the upward scan stay above.
<1>7. ASSUME NEW k \in 1..up - 1
      PROVE  compareTo(list[k], list[i]) < 0
  <2>1. up - 1 \in 1..i - 1 /\ k \in 1..i - 1 /\ k <= up - 1
    BY <1>1, <1>6
  <2>2. up - 1 \notin U
    BY <1>4, <1>6
  <2>3. ~(compareTo(list[i], list[up - 1]) < 0)
    <3>1. PICK q \in (up - 1)..i - 1 : ~(compareTo(list[i], list[q]) < 0)
      BY <1>6, <2>1, <2>2
    <3>2. q = up - 1 \/ q \in up..i - 1
      BY <1>6, <3>1
    <3> QED
      BY <1>4, <3>1, <3>2
  <2>4. compareTo(list[up - 1], list[i]) < 0
    BY <1>1, <2>1, <2>3, CompareTotal
  <2>5. k = up - 1 \/ compareTo(list[k], list[up - 1]) < 0
    BY <1>1, <2>1
  <2> QED
    BY <1>1, <2>1, <2>4, <2>5, CompareTransitive
\* The rows below the stop of the downward scan stay below.
<1>8. ASSUME NEW k \in down + 1..Len(list)
      PROVE  compareTo(list[i], list[k]) < 0
  <2>1. down + 1 \in i + 1..Len(list) /\ k \in i + 1..Len(list) /\ down + 1 <= k
    BY <1>1, <1>6
  <2>2. down + 1 \notin D
    BY <1>5, <1>6
  <2>3. ~(compareTo(list[i], list[down + 1]) > 0)
    <3>1. PICK q \in i + 1..down + 1 : ~(compareTo(list[i], list[q]) > 0)
      BY <1>6, <2>1, <2>2
    <3>2. q = down + 1 \/ q \in i + 1..down
      BY <1>6, <3>1
    <3> QED
      BY <1>5, <3>1, <3>2
  <2>4. compareTo(list[i], list[down + 1]) < 0
    BY <1>1, <2>1, <2>3, CompareTotal
  <2>5. k = down + 1 \/ compareTo(list[down + 1], list[k]) < 0
    BY <1>1, <2>1
  <2> QED
    BY <1>1, <2>1, <2>4, <2>5, CompareTransitive
<1>9. CASE up # i
  <2>1. j = up /\ up < i /\ i \in Nat /\ up \in Nat
    BY <1>1, <1>2, <1>6, <1>9
  <2>2. ASSUME NEW k \in up..Len(list), k # i
        PROVE  compareTo(list[i], list[k]) < 0
    <3>1. compareTo(list[i], list[up]) < 0
      BY <1>4, <2>1
    <3>2. k = up \/ compareTo(list[up], list[k]) < 0
      BY <1>1, <1>6, <2>1, <2>2
    <3> QED
      BY <1>1, <1>6, <2>1, <3>1, <3>2, CompareTransitive
  <2>3. j \in 1..Len(list)
    BY <1>1, <1>6, <2>1
  <2>4. ASSUME NEW k \in 1..Len(list) \ {i}
        PROVE  /\ k < j \/ (k = j /\ i < j) => compareTo(list[k], list[i]) < 0
               /\ k > j \/ (k = j /\ j < i) => compareTo(list[i], list[k]) < 0
    BY <1>1, <1>7, <2>1, <2>2
  <2> QED
    BY <2>3, <2>4 DEF j
<1>10. CASE up = i
  <2>1. j = down /\ i <= down /\ i \in Nat /\ down \in Nat
    BY <1>1, <1>2, <1>6, <1>10
  <2>2. ASSUME NEW k \in i + 1..down
        PROVE  compareTo(list[k], list[i]) < 0
    BY <1>1, <1>5, <1>6, CompareTotal
  <2>3. j \in 1..Len(list)
    BY <1>1, <1>6, <2>1
  <2>4. ASSUME NEW k \in 1..Len(list) \ {i}
        PROVE  /\ k < j \/ (k = j /\ i < j) => compareTo(list[k], list[i]) < 0
               /\ k > j \/ (k = j /\ j < i) => compareTo(list[i], list[k]) < 0
    BY <1>1, <1>7, <1>8, <1>10, <2>1, <2>2
  <2> QED
    BY <2>3, <2>4 DEF j
<1> QED
  BY <1>9, <1>10

(***************************************************************************)
(* QList::move permutes the rows.                                          *)
(***************************************************************************)
LEMMA MovePermutes ==
    ASSUME NEW list \in Seq(Row), NEW i \in 1..Len(list), NEW j \in 1..Len(list)
    PROVE  LET new == Move(list, i, j)
           IN  /\ \A k \in 1..Len(list) : \E m \in 1..Len(list) : new[k] = list[m]
               /\ \A k \in 1..Len(list) : \E m \in 1..Len(list) : new[m] = list[k]
<1> DEFINE new == Move(list, i, j)
<1>1. /\ Len(list) \in Nat
      /\ \A k \in 1..Len(list) :
            new[k] = IF k = j THEN list[i]
                     ELSE IF i <= k /\ k < j THEN list[k + 1]
                     ELSE IF j < k /\ k <= i THEN list[k - 1]
                     ELSE list[k]
  BY MoveProperties
<1> HIDE DEF new
<1>2. ASSUME NEW k \in 1..Len(list)
      PROVE  \E m \in 1..Len(list) : new[k] = list[m]
  BY <1>1
<1>3. ASSUME NEW k \in 1..Len(list)
      PROVE  \E m \in 1..Len(list) : new[m] = list[k]
  <2>1. CASE k = i
    BY <1>1, <2>1
  <2>2. CASE i < k /\ k <= j
    <3> DEFINE m == k - 1
    <3>1. m \in 1..Len(list) /\ i <= m /\ m < j /\ m + 1 = k /\ m # j
      BY <1>1, <2>2
    <3> HIDE DEF m
    <3>2. new[m] = list[m + 1]
      BY <1>1, <3>1
    <3> QED
      BY <3>1, <3>2
  <2>3. CASE j <= k /\ k < i
    <3> DEFINE m == k + 1
    <3>1. /\ m \in 1..Len(list) /\ j < m /\ m <= i /\ m - 1 = k
          /\ m # j /\ ~(i <= m /\ m < j)
      BY <1>1, <2>3
    <3> HIDE DEF m
    <3>2. new[m] = list[m - 1]
      BY <1>1, <3>1
    <3> QED
      BY <3>1, <3>2
  <2>4. CASE ~(k = i) /\ ~(i < k /\ k <= j) /\ ~(j <= k /\ k < i)
    BY <1>1, <2>4
  <2> QED
    BY <2>1, <2>2, <2>3, <2>4
<1> QED
  BY <1>2, <1>3 DEF new

(***************************************************************************)
(* updateChatOrder restores the order of a list of which one row got a new *)
(* position.                                                               *)
(***************************************************************************)
LEMMA MoveSorted ==
    ASSUME NEW list \in Seq(Row), NEW i \in 1..Len(list),
           \A p, q \in 1..Len(list) \ {i} :
                p < q => compareTo(list[p], list[q]) < 0
    PROVE  InOrder(Move(list, i, MovedPos(list, i)))
<1> DEFINE j == MovedPos(list, i)
           new == Move(list, i, j)
<1>1. /\ j \in 1..Len(list)
      /\ \A k \in 1..Len(list) \ {i} :
            /\ k < j \/ (k = j /\ i < j) => compareTo(list[k], list[i]) < 0
            /\ k > j \/ (k = j /\ j < i) => compareTo(list[i], list[k]) < 0
  BY MovedPosCorrect
<1> HIDE DEF j
<1>2. /\ new \in Seq(Row) /\ Len(new) = Len(list)
      /\ \A k \in 1..Len(list) :
            new[k] = IF k = j THEN list[i]
                     ELSE IF i <= k /\ k < j THEN list[k + 1]
                     ELSE IF j < k /\ k <= i THEN list[k - 1]
                     ELSE list[k]
  BY <1>1, MoveProperties
<1> HIDE DEF new
<1>3. Len(list) \in Nat /\ DOMAIN new = 1..Len(list)
  BY <1>2
\* Where the row of a position other than j was before the move.
<1> DEFINE old(k) == IF i <= k /\ k < j THEN k + 1
                     ELSE IF j < k /\ k <= i THEN k - 1 ELSE k
<1>4. ASSUME NEW k \in 1..Len(list), k # j
      PROVE  /\ old(k) \in 1..Len(list) \ {i} /\ new[k] = list[old(k)]
             /\ k < j => old(k) < j \/ (old(k) = j /\ i < j)
             /\ k > j => old(k) > j \/ (old(k) = j /\ j < i)
  BY <1>1, <1>2, <1>3, <1>4
<1>5. ASSUME NEW p \in 1..Len(list), NEW q \in 1..Len(list), p < q
      PROVE  compareTo(new[p], new[q]) < 0
  <2>1. CASE p = j
    <3>1. q # j /\ q > j /\ new[p] = list[i]
      BY <1>1, <1>2, <1>5, <2>1
    <3> QED
      BY <1>1, <1>4, <3>1
  <2>2. CASE q = j
    <3>1. p # j /\ p < j /\ new[q] = list[i]
      BY <1>1, <1>2, <1>5, <2>2
    <3> QED
      BY <1>1, <1>4, <3>1
  <2>3. CASE p # j /\ q # j
    <3>1. old(p) < old(q)
      BY <1>1, <1>3, <1>5, <2>3
    <3> QED
      BY <1>4, <2>3, <3>1
  <2> QED
    BY <2>1, <2>2, <2>3
<1> QED
  BY <1>3, <1>5 DEF InOrder, new, j

-----------------------------------------------------------------------------
(***************************************************************************)
(* The three ways rows change.  Each keeps the list typed and sorted, the  *)
(* index exact, and changes the set of chats as its name says.             *)
(***************************************************************************)
ChatsOf(list) == {list[k].chat : k \in DOMAIN list}

LEMMA IndexInjective ==
    ASSUME NEW list \in Seq(Row), NEW map, IsIndexOf(map, list)
    PROVE  \A i, j \in 1..Len(list) : list[i].chat = list[j].chat => i = j
  BY DEF IsIndexOf

LEMMA RowAdded ==
    ASSUME NEW list \in Seq(Row), NEW map, NEW row \in Row,
           IsIndexOf(map, list), InOrder(list), row.chat \notin ChatsOf(list)
    PROVE  LET pos == InsertionPos(list, row)
               new == InsertAt(list, pos, row)
           IN  /\ new \in Seq(Row)
               /\ InOrder(new)
               /\ IsIndexOf(Reindexed(map, new, pos, Len(list) + 1), new)
               /\ ChatsOf(new) = ChatsOf(list) \cup {row.chat}
<1> DEFINE pos == InsertionPos(list, row)
           new == InsertAt(list, pos, row)
<1>1. pos \in 1..Len(list) + 1
  BY InsertionPosCorrect
<1>2. InOrder(new)
  BY InsertSorted
<1> HIDE DEF pos
<1>3. /\ new \in Seq(Row) /\ Len(new) = Len(list) + 1
      /\ \A k \in 1..Len(list) + 1 :
            new[k] = IF k < pos THEN list[k]
                     ELSE IF k = pos THEN row ELSE list[k - 1]
  BY <1>1, InsertAtProperties
<1> HIDE DEF new
<1>4. /\ Len(list) \in Nat /\ DOMAIN list = 1..Len(list)
      /\ DOMAIN new = 1..Len(list) + 1 /\ pos \in Nat
  BY <1>1, <1>3
\* Where a row other than the new one was before.
<1> DEFINE old(k) == IF k < pos THEN k ELSE k - 1
<1>5. ASSUME NEW k \in 1..Len(list) + 1, k # pos
      PROVE  old(k) \in 1..Len(list) /\ new[k] = list[old(k)]
  BY <1>1, <1>3, <1>4, <1>5
<1>6. new[pos] = row
  BY <1>1, <1>3
<1>7. \A i, j \in 1..Len(list) : list[i].chat = list[j].chat => i = j
  BY IndexInjective
<1>8. \A k \in 1..Len(list) : list[k].chat # row.chat
  BY <1>4 DEF ChatsOf
<1>9. ASSUME NEW p \in 1..Len(list) + 1, NEW q \in 1..Len(list) + 1,
             new[p].chat = new[q].chat
      PROVE  p = q
  <2>1. CASE p = pos \/ q = pos
    BY <1>5, <1>6, <1>8, <1>9, <2>1
  <2>2. CASE p # pos /\ q # pos
    <3>1. old(p) = old(q)
      BY <1>5, <1>7, <1>9, <2>2
    <3> QED
      BY <1>4, <2>2, <3>1
  <2> QED
    BY <2>1, <2>2
<1>10. ChatsOf(new) = ChatsOf(list) \cup {row.chat}
  <2>1. ASSUME NEW k \in 1..Len(list)
        PROVE  \E m \in 1..Len(list) + 1 : new[m] = list[k]
    <3>1. CASE k < pos
      BY <1>3, <1>4, <3>1
    <3>2. CASE k >= pos
      <4> DEFINE m == k + 1
      <4>1. m \in 1..Len(list) + 1 /\ ~(m < pos) /\ m # pos /\ m - 1 = k
        BY <1>4, <3>2
      <4> HIDE DEF m
      <4> QED
        BY <1>3, <4>1
    <3> QED
      BY <1>4, <3>1, <3>2
  <2>2. ASSUME NEW k \in 1..Len(list) + 1
        PROVE  new[k].chat \in ChatsOf(list) \cup {row.chat}
    BY <1>4, <1>5, <1>6 DEF ChatsOf
  <2>3. ASSUME NEW c \in ChatsOf(list)
        PROVE  c \in ChatsOf(new)
    <3>1. PICK k \in 1..Len(list) : c = list[k].chat
      BY <1>4 DEF ChatsOf
    <3>2. PICK m \in 1..Len(list) + 1 : new[m] = list[k]
      BY <2>1
    <3> QED
      BY <1>4, <3>1, <3>2 DEF ChatsOf
  <2>4. ASSUME NEW c \in ChatsOf(new)
        PROVE  c \in ChatsOf(list) \cup {row.chat}
    BY <1>4, <2>2 DEF ChatsOf
  <2>5. row.chat \in ChatsOf(new)
    BY <1>1, <1>4, <1>6 DEF ChatsOf
  <2> QED
    BY <2>3, <2>4, <2>5
<1>11. IsIndexOf(Reindexed(map, new, pos, Len(list) + 1), new)
  <2>1. DOMAIN map \subseteq {new[k].chat : k \in 1..Len(new)}
    BY <1>3, <1>4, <1>10 DEF IsIndexOf, ChatsOf
  <2>2. ASSUME NEW k \in 1..Len(new), k \notin pos..Len(list) + 1
        PROVE  new[k].chat \in DOMAIN map /\ map[new[k].chat] = k
    <3>1. k \in 1..Len(list) /\ k < pos
      BY <1>1, <1>3, <1>4, <2>2
    <3> QED
      BY <1>3, <1>4, <3>1 DEF IsIndexOf
  <2>3. \A p, q \in 1..Len(new) : new[p].chat = new[q].chat => p = q
    BY <1>3, <1>9
  <2>4. 1 <= pos /\ Len(list) + 1 \in Nat /\ Len(list) + 1 <= Len(new)
    BY <1>1, <1>3, <1>4
  <2> QED
    BY <1>3, <1>4, <2>1, <2>2, <2>3, <2>4, ReindexExact
<1> QED
  BY <1>2, <1>3, <1>10, <1>11 DEF new, pos

LEMMA RowRemoved ==
    ASSUME NEW list \in Seq(Row), NEW map, NEW i \in 1..Len(list),
           IsIndexOf(map, list), InOrder(list)
    PROVE  LET new == RemoveAt(list, i)
               rest == [d \in DOMAIN map \ {list[i].chat} |-> map[d]]
           IN  /\ new \in Seq(Row)
               /\ InOrder(new)
               /\ IsIndexOf(Reindexed(rest, new, i, Len(new)), new)
               /\ ChatsOf(new) = ChatsOf(list) \ {list[i].chat}
<1> DEFINE new == RemoveAt(list, i)
           rest == [d \in DOMAIN map \ {list[i].chat} |-> map[d]]
           old(k) == IF k < i THEN k ELSE k + 1
<1>1. InOrder(new)
  BY RemoveSorted
<1>2. /\ new \in Seq(Row) /\ Len(new) = Len(list) - 1
      /\ \A k \in 1..Len(list) - 1 :
            new[k] = IF k < i THEN list[k] ELSE list[k + 1]
  BY RemoveAtProperties
<1> HIDE DEF new
<1>3. /\ Len(list) \in Nat /\ DOMAIN list = 1..Len(list)
      /\ DOMAIN new = 1..Len(list) - 1 /\ Len(new) \in Nat
  BY <1>2
<1>4. ASSUME NEW k \in 1..Len(list) - 1
      PROVE  old(k) \in 1..Len(list) \ {i} /\ new[k] = list[old(k)]
  BY <1>2, <1>3
<1>5. \A p, q \in 1..Len(list) : list[p].chat = list[q].chat => p = q
  BY IndexInjective
<1>6. ASSUME NEW p \in 1..Len(list) - 1, NEW q \in 1..Len(list) - 1,
             new[p].chat = new[q].chat
      PROVE  p = q
  <2>1. old(p) = old(q)
    BY <1>4, <1>5, <1>6
  <2> QED
    BY <1>3, <2>1
<1>7. ChatsOf(new) = ChatsOf(list) \ {list[i].chat}
  <2>1. ASSUME NEW c \in ChatsOf(new)
        PROVE  c \in ChatsOf(list) \ {list[i].chat}
    <3>1. PICK k \in 1..Len(list) - 1 : c = new[k].chat
      BY <1>3 DEF ChatsOf
    <3> QED
      BY <1>3, <1>4, <1>5, <3>1, SMTT(30) DEF ChatsOf
  <2>2. ASSUME NEW c \in ChatsOf(list), c # list[i].chat
        PROVE  c \in ChatsOf(new)
    <3>1. PICK k \in 1..Len(list) : c = list[k].chat /\ k # i
      BY <1>3, <2>2 DEF ChatsOf
    <3>2. PICK m \in 1..Len(list) - 1 : new[m] = list[k]
      <4>1. CASE k < i
        BY <1>2, <1>3, <4>1
      <4>2. CASE k > i
        <5> DEFINE m == k - 1
        <5>1. m \in 1..Len(list) - 1 /\ ~(m < i) /\ m + 1 = k
          BY <1>3, <4>2
        <5> HIDE DEF m
        <5> QED
          BY <1>2, <5>1
      <4> QED
        BY <1>3, <3>1, <4>1, <4>2
    <3> QED
      BY <1>3, <3>1, <3>2 DEF ChatsOf
  <2> QED
    BY <2>1, <2>2
<1>8. IsIndexOf(Reindexed(rest, new, i, Len(new)), new)
  <2>1. DOMAIN rest \subseteq {new[k].chat : k \in 1..Len(new)}
    BY <1>2, <1>3, <1>7 DEF IsIndexOf, ChatsOf
  <2>2. ASSUME NEW k \in 1..Len(new), k \notin i..Len(new)
        PROVE  new[k].chat \in DOMAIN rest /\ rest[new[k].chat] = k
    <3>1. k \in 1..Len(list) /\ k < i /\ new[k] = list[k]
      BY <1>2, <1>3, <2>2
    <3>2. new[k].chat \in DOMAIN map /\ map[new[k].chat] = k
      BY <1>3, <3>1 DEF IsIndexOf
    <3>3. new[k].chat # list[i].chat
      BY <1>3, <1>5, <3>1
    <3> QED
      BY <3>2, <3>3
  <2>3. \A p, q \in 1..Len(new) : new[p].chat = new[q].chat => p = q
    BY <1>2, <1>6
  <2>4. i \in Nat /\ 1 <= i /\ Len(new) <= Len(new)
    BY <1>3
  <2> HIDE DEF rest
  <2> QED
    BY <1>2, <1>3, <2>1, <2>2, <2>3, <2>4, ReindexExact
<1> QED
  BY <1>1, <1>2, <1>7, <1>8 DEF new

LEMMA RowMoved ==
    ASSUME NEW list \in Seq(Row), NEW map, NEW i \in 1..Len(list),
           IsIndexOf(map, list),
           \A p, q \in 1..Len(list) \ {i} :
                p < q => compareTo(list[p], list[q]) < 0
    PROVE  LET j == MovedPos(list, i)
               new == Move(list, i, j)
           IN  /\ j \in 1..Len(list)
               /\ new \in Seq(Row)
               /\ InOrder(new)
               /\ IsIndexOf(IF i = j THEN map
                            ELSE Reindexed(map, new, Min({i, j}), Max({i, j})),
                            new)
               /\ ChatsOf(new) = ChatsOf(list)
<1> DEFINE j == MovedPos(list, i)
           new == Move(list, i, j)
<1>1. j \in 1..Len(list) /\ InOrder(new)
  BY MovedPosCorrect, MoveSorted
<1> HIDE DEF j
<1>2. /\ new \in Seq(Row) /\ Len(new) = Len(list)
      /\ \A k \in 1..Len(list) :
            new[k] = IF k = j THEN list[i]
                     ELSE IF i <= k /\ k < j THEN list[k + 1]
                     ELSE IF j < k /\ k <= i THEN list[k - 1]
                     ELSE list[k]
  BY <1>1, MoveProperties
<1>3. /\ \A k \in 1..Len(list) : \E m \in 1..Len(list) : new[k] = list[m]
      /\ \A k \in 1..Len(list) : \E m \in 1..Len(list) : new[m] = list[k]
  BY <1>1, MovePermutes
<1> HIDE DEF new
<1>4. /\ Len(list) \in Nat /\ DOMAIN list = 1..Len(list)
      /\ DOMAIN new = 1..Len(list)
  BY <1>2
<1>5. ChatsOf(new) = ChatsOf(list)
  <2>1. ASSUME NEW k \in 1..Len(list)
        PROVE  new[k].chat \in ChatsOf(list) /\ list[k].chat \in ChatsOf(new)
    <3>1. PICK m \in 1..Len(list) : new[k] = list[m]
      BY <1>3
    <3>2. PICK n \in 1..Len(list) : new[n] = list[k]
      BY <1>3
    <3> QED
      BY <1>4, <3>1, <3>2 DEF ChatsOf
  <2>2. ChatsOf(new) \subseteq ChatsOf(list)
    BY <1>4, <2>1 DEF ChatsOf
  <2>3. ChatsOf(list) \subseteq ChatsOf(new)
    BY <1>4, <2>1 DEF ChatsOf
  <2> QED
    BY <2>2, <2>3
<1>6. \A p, q \in 1..Len(list) : list[p].chat = list[q].chat => p = q
  BY IndexInjective
\* Two rows above one another are the rows of two chats.
<1>7. \A p, q \in 1..Len(list) : new[p].chat = new[q].chat => p = q
  <2> DEFINE old(k) == IF k = j THEN i
                       ELSE IF i <= k /\ k < j THEN k + 1
                       ELSE IF j < k /\ k <= i THEN k - 1 ELSE k
  <2>1. ASSUME NEW k \in 1..Len(list)
        PROVE  old(k) \in 1..Len(list) /\ new[k] = list[old(k)]
    BY <1>1, <1>2, <1>4
  <2>2. ASSUME NEW p \in 1..Len(list), NEW q \in 1..Len(list), old(p) = old(q)
        PROVE  p = q
    BY <1>1, <1>4, <2>2
  <2>3. ASSUME NEW p \in 1..Len(list), NEW q \in 1..Len(list),
               new[p].chat = new[q].chat
        PROVE  old(p) = old(q)
    <3> HIDE DEF old
    <3>1. list[old(p)].chat = list[old(q)].chat
      BY <2>1, <2>3, Zenon
    <3> QED
      BY <1>6, <2>1, <3>1, Zenon
  <2> HIDE DEF old
  <2> QED
    BY <2>2, <2>3, Zenon
<1>8. CASE i = j
  <2>1. \A k \in 1..Len(list) : new[k] = list[k]
    BY <1>1, <1>2, <1>4, <1>8
  <2>2. IsIndexOf(map, new)
    BY <1>4, <1>5, <2>1 DEF IsIndexOf, ChatsOf
  <2> QED
    BY <1>1, <1>2, <1>5, <1>8, <2>2 DEF new, j
<1>9. CASE i # j
  <2> DEFINE lo == Min({i, j})
             hi == Max({i, j})
  <2>1. /\ lo \in {i, j} /\ hi \in {i, j}
        /\ lo <= i /\ lo <= j /\ i <= hi /\ j <= hi
    <3>1. {i, j} \subseteq Nat /\ {i, j} # {} /\ {i, j} \subseteq 0..Len(list)
      BY <1>1, <1>4
    <3>2. lo \in {i, j} /\ \A y \in {i, j} : lo <= y
      BY <3>1, MinOfPositions
    <3>3. hi \in {i, j} /\ \A y \in {i, j} : hi >= y
      BY <1>4, <3>1, MaxOfPositions
    <3> HIDE DEF lo, hi
    <3> QED
      BY <1>1, <1>4, <3>2, <3>3
  <2> HIDE DEF lo, hi
  <2>2. lo \in Nat /\ hi \in Nat /\ 1 <= lo /\ hi <= Len(new)
    BY <1>1, <1>2, <1>4, <2>1
  <2>3. ASSUME NEW k \in 1..Len(new), k \notin lo..hi
        PROVE  new[k].chat \in DOMAIN map /\ map[new[k].chat] = k
    <3>1. k \in 1..Len(list) /\ (k < lo \/ k > hi)
      BY <1>1, <1>2, <1>4, <2>2, <2>3
    <3>2. k # j /\ ~(i <= k /\ k < j) /\ ~(j < k /\ k <= i)
      BY <1>1, <1>4, <2>1, <2>2, <3>1
    <3>3. new[k] = list[k]
      BY <1>2, <3>1, <3>2
    <3> QED
      BY <1>4, <3>1, <3>3 DEF IsIndexOf
  <2>4. DOMAIN map \subseteq {new[k].chat : k \in 1..Len(new)}
    BY <1>2, <1>4, <1>5 DEF IsIndexOf, ChatsOf
  <2>5. IsIndexOf(Reindexed(map, new, lo, hi), new)
    BY <1>2, <1>7, <2>2, <2>3, <2>4, ReindexExact
  <2> QED
    BY <1>1, <1>2, <1>5, <1>9, <2>5 DEF new, j, lo, hi
<1> QED
  BY <1>8, <1>9

-----------------------------------------------------------------------------
(***************************************************************************)
(* The invariant, action by action.                                        *)
(***************************************************************************)

\* An exact index of typed rows is itself typed.
LEMMA IndexTyped ==
    ASSUME NEW list \in Seq(Row), NEW map, IsIndexOf(map, list)
    PROVE  /\ DOMAIN map \subseteq Chats
           /\ \A c \in DOMAIN map : map[c] \in Nat /\ map[c] \in 1..Len(list)
           /\ \A c \in DOMAIN map : list[map[c]].chat = c
           /\ DOMAIN map = ChatsOf(list)
<1>1. DOMAIN list = 1..Len(list) /\ Len(list) \in Nat
      /\ \A k \in 1..Len(list) : list[k] \in Row
  OBVIOUS
<1>2. DOMAIN map = ChatsOf(list)
  BY DEF IsIndexOf, ChatsOf
<1>3. ASSUME NEW c \in DOMAIN map
      PROVE  c \in Chats /\ map[c] \in 1..Len(list) /\ list[map[c]].chat = c
  <2>1. PICK k \in 1..Len(list) : c = list[k].chat
    BY <1>1, <1>2 DEF ChatsOf
  <2>2. map[c] = k
    BY <1>1, <2>1 DEF IsIndexOf
  <2> QED
    BY <1>1, <2>1, <2>2 DEF Row
<1> QED
  BY <1>1, <1>2, <1>3

LEMMA InitIInv == Init => IInv
<1> SUFFICES ASSUME Init PROVE IInv
  OBVIOUS
<1>1. chatList \in Seq(Row) /\ DOMAIN chatList = {}
  BY DEF Init
<1>2. DOMAIN chatIndexMap = {}
  BY DEF Init
<1>3. TypeOK
  <2>1. loads \in 0..MaxLoads
    BY ChatListAssumption DEF Init
  <2> QED
    BY <1>1, <1>2, <2>1 DEF Init, TypeOK, Sessions
<1>4. IndexMapExact /\ Sorted /\ RowsAreListed
  BY <1>1, <1>2
  DEF Init, IndexMapExact, IsIndexOf, Sorted, InOrder, RowsAreListed, RowChats
<1> QED
  BY <1>3, <1>4 DEF IInv

LEMMA AddedStep ==
    ASSUME IInv, NEW c \in Chats, NEW o \in Orders, NEW p \in BOOLEAN,
           handleChatAddedToList(c, o, p)
    PROVE  IInv'
<1> DEFINE row == [chat |-> c, order |-> o, isPinned |-> p]
           pos == InsertionPos(chatList, row)
           new == InsertAt(chatList, pos, row)
           map == Reindexed(chatIndexMap, new, pos, Len(chatList) + 1)
<1>1. row \in Row /\ row.chat = c
  BY DEF Row
<1>2. /\ chatList \in Seq(Row) /\ IsIndexOf(chatIndexMap, chatList)
      /\ InOrder(chatList) /\ RowChats = ChatsOf(chatList)
      /\ RowChats \subseteq listed
  BY DEF IInv, TypeOK, IndexMapExact, Sorted, RowsAreListed, RowChats, ChatsOf
<1>3. c \notin listed /\ listed' = listed \cup {c}
  BY DEF handleChatAddedToList
<1>4. row.chat \notin ChatsOf(chatList)
  BY <1>1, <1>2, <1>3
<1>5. chatList' = new /\ chatIndexMap' = map
  BY DEF handleChatAddedToList
<1> HIDE DEF row
<1>6. /\ new \in Seq(Row) /\ InOrder(new) /\ IsIndexOf(map, new)
      /\ ChatsOf(new) = ChatsOf(chatList) \cup {row.chat}
  BY <1>1, <1>2, <1>4, RowAdded
<1> HIDE DEF new, map
<1>7. TypeOK'
  <2>1. /\ DOMAIN chatIndexMap' \subseteq Chats
        /\ \A d \in DOMAIN chatIndexMap' : chatIndexMap'[d] \in Nat
    BY <1>5, <1>6, IndexTyped
  <2>2. chatList' \in Seq(Row) /\ listed' \subseteq Chats
    BY <1>3, <1>5, <1>6 DEF IInv, TypeOK
  <2> QED
    BY <2>1, <2>2
    DEF IInv, TypeOK, handleChatAddedToList, tryEnableRefreshTimer, loadVars
<1>8. IndexMapExact' /\ Sorted'
  BY <1>5, <1>6 DEF IndexMapExact, Sorted
<1>9. RowsAreListed'
  <2>1. RowChats' = RowChats \cup {c}
    BY <1>1, <1>2, <1>5, <1>6 DEF RowChats, ChatsOf
  <2>2. session' = session /\ session # "closing"
    BY DEF handleChatAddedToList
  <2> QED
    BY <1>3, <2>1, <2>2 DEF IInv, RowsAreListed
<1> QED
  BY <1>7, <1>8, <1>9 DEF IInv

LEMMA RemovedStep ==
    ASSUME IInv, NEW c \in Chats, handleChatRemovedFromList(c)
    PROVE  IInv'
<1>1. /\ chatList \in Seq(Row) /\ IsIndexOf(chatIndexMap, chatList)
      /\ InOrder(chatList) /\ RowChats = ChatsOf(chatList)
      /\ RowChats \subseteq listed
  BY DEF IInv, TypeOK, IndexMapExact, Sorted, RowsAreListed, RowChats, ChatsOf
<1>2. /\ listed' = listed \ {c} /\ session' = session /\ session # "closing"
      /\ UNCHANGED <<timerVars, loadVars>>
  BY DEF handleChatRemovedFromList
<1>3. CASE c \in DOMAIN chatIndexMap
  <2> DEFINE i == chatIndexMap[c]
             rest == [d \in DOMAIN chatIndexMap \ {c} |-> chatIndexMap[d]]
             new == RemoveAt(chatList, i)
             map == Reindexed(rest, new, i, Len(new))
  <2>1. chatList' = new /\ chatIndexMap' = map
    BY <1>3 DEF handleChatRemovedFromList
  <2>2. i \in 1..Len(chatList) /\ chatList[i].chat = c
    BY <1>1, <1>3, IndexTyped
  <2> HIDE DEF i
  <2>3. /\ new \in Seq(Row) /\ InOrder(new) /\ IsIndexOf(map, new)
        /\ ChatsOf(new) = ChatsOf(chatList) \ {c}
    BY <1>1, <2>2, RowRemoved
  <2> HIDE DEF new, map
  <2>4. TypeOK'
    <3>1. /\ DOMAIN chatIndexMap' \subseteq Chats
          /\ \A d \in DOMAIN chatIndexMap' : chatIndexMap'[d] \in Nat
      BY <2>1, <2>3, IndexTyped
    <3>2. chatList' \in Seq(Row) /\ listed' \subseteq Chats
      BY <1>2, <2>1, <2>3 DEF IInv, TypeOK
    <3> QED
      BY <1>2, <3>1, <3>2 DEF IInv, TypeOK, timerVars, loadVars
  <2>5. IndexMapExact' /\ Sorted'
    BY <2>1, <2>3 DEF IndexMapExact, Sorted
  <2>6. RowsAreListed'
    <3>1. RowChats' = RowChats \ {c}
      BY <1>1, <2>1, <2>3 DEF RowChats, ChatsOf
    <3> QED
      BY <1>2, <3>1 DEF IInv, RowsAreListed
  <2> QED
    BY <2>4, <2>5, <2>6 DEF IInv
<1>4. CASE c \notin DOMAIN chatIndexMap
  <2>1. UNCHANGED rowVars
    BY <1>4 DEF handleChatRemovedFromList
  <2>2. c \notin RowChats /\ RowChats' = RowChats
    BY <1>1, <1>4, <2>1, IndexTyped DEF RowChats, rowVars
  <2>3. TypeOK' /\ IndexMapExact' /\ Sorted'
    BY <1>2, <2>1
    DEF IInv, TypeOK, IndexMapExact, Sorted, rowVars, timerVars, loadVars
  <2>4. RowsAreListed'
    BY <1>2, <2>2 DEF IInv, RowsAreListed
  <2> QED
    BY <2>3, <2>4 DEF IInv
<1> QED
  BY <1>3, <1>4

LEMMA PositionStep ==
    ASSUME IInv, NEW c \in Chats, NEW o \in Orders, NEW p \in BOOLEAN,
           handleChatPositionUpdated(c, o, p)
    PROVE  IInv'
<1> DEFINE i == chatIndexMap[c]
           row == [chat |-> c, order |-> o, isPinned |-> p]
           list == [chatList EXCEPT ![i] = row]
           j == MovedPos(list, i)
           new == Move(list, i, j)
           map == IF i = j THEN chatIndexMap
                  ELSE Reindexed(chatIndexMap, new, Min({i, j}), Max({i, j}))
<1>1. /\ chatList \in Seq(Row) /\ IsIndexOf(chatIndexMap, chatList)
      /\ InOrder(chatList) /\ RowChats = ChatsOf(chatList)
  BY DEF IInv, TypeOK, IndexMapExact, Sorted, RowChats, ChatsOf
<1>2. i \in 1..Len(chatList) /\ chatList[i].chat = c
  BY <1>1, IndexTyped DEF handleChatPositionUpdated
<1>3. chatList' = new /\ chatIndexMap' = map
  BY DEF handleChatPositionUpdated, updateChatOrder
<1> HIDE DEF i
<1>4. /\ list \in Seq(Row) /\ Len(list) = Len(chatList)
      /\ \A k \in 1..Len(list) : list[k].chat = chatList[k].chat
      /\ \A k \in 1..Len(list) : k # i => list[k] = chatList[k]
  <2>1. row \in Row /\ row.chat = c
    BY DEF Row
  <2> HIDE DEF row
  <2> QED
    BY <1>1, <1>2, <2>1
<1> HIDE DEF list
<1>5. IsIndexOf(chatIndexMap, list) /\ ChatsOf(list) = ChatsOf(chatList)
  <2>1. DOMAIN list = 1..Len(list) /\ DOMAIN chatList = DOMAIN list
    BY <1>1, <1>4
  <2>2. ChatsOf(list) = ChatsOf(chatList)
    BY <1>4, <2>1 DEF ChatsOf
  <2> QED
    BY <1>1, <1>4, <2>1, <2>2 DEF IsIndexOf, ChatsOf
<1>6. \A k, m \in 1..Len(list) \ {i} :
        k < m => compareTo(list[k], list[m]) < 0
  BY <1>1, <1>4 DEF InOrder
<1>7. /\ new \in Seq(Row) /\ InOrder(new) /\ IsIndexOf(map, new)
      /\ ChatsOf(new) = ChatsOf(list)
  BY <1>2, <1>4, <1>5, <1>6, RowMoved
<1> HIDE DEF new, map
<1>8. UNCHANGED <<timerVars, loadVars, listed, session>> /\ session # "closing"
  BY DEF handleChatPositionUpdated
<1>9. TypeOK'
  <2>1. /\ DOMAIN chatIndexMap' \subseteq Chats
        /\ \A d \in DOMAIN chatIndexMap' : chatIndexMap'[d] \in Nat
    BY <1>3, <1>7, IndexTyped
  <2> QED
    BY <1>3, <1>7, <1>8, <2>1 DEF IInv, TypeOK, timerVars, loadVars
<1>10. IndexMapExact' /\ Sorted'
  BY <1>3, <1>7 DEF IndexMapExact, Sorted
<1>11. RowsAreListed'
  <2>1. RowChats' = RowChats
    BY <1>1, <1>3, <1>5, <1>7 DEF RowChats, ChatsOf
  <2> QED
    BY <1>8, <2>1 DEF IInv, RowsAreListed
<1> QED
  BY <1>9, <1>10, <1>11 DEF IInv

\* The handlers that touch the rows only to clear them, or not at all.
LEMMA OtherStep ==
    ASSUME IInv,
           \/ SessionStep \/ load \/ handleReady \/ LoadReply
           \/ \E e \in BOOLEAN : setRefreshTimerEnabled(e)
           \/ UNCHANGED vars
    PROVE  IInv'
<1>1. CASE LoggingOut \/ Closing
  <2>1. /\ chatList' = <<>> /\ chatIndexMap' = <<>> /\ loading' = FALSE
        /\ UNCHANGED <<timerVars, listed, loads, allLoaded>>
        /\ session' \in {"loggingOut", "closing"}
    BY <1>1 DEF LoggingOut, Closing, Reset
  <2>2. chatList' \in Seq(Row) /\ DOMAIN chatList' = {} /\ DOMAIN chatIndexMap' = {}
    BY <2>1
  <2>3. TypeOK'
    BY <2>1, <2>2 DEF IInv, TypeOK, timerVars, Sessions
  <2>4. IndexMapExact' /\ Sorted' /\ RowsAreListed'
    BY <2>1, <2>2
    DEF IndexMapExact, IsIndexOf, Sorted, InOrder, RowsAreListed, RowChats
  <2> QED
    BY <2>3, <2>4 DEF IInv
<1>2. CASE Closed
  <2> loads' \in 0..MaxLoads
    BY <1>2, ChatListAssumption DEF Closed
  <2>1. TypeOK' /\ IndexMapExact' /\ Sorted'
    BY <1>2
    DEF Closed, IInv, TypeOK, IndexMapExact, Sorted, rowVars, timerVars, Sessions
  <2>2. chatList' = <<>> /\ listed' = {} /\ session' = "open"
    BY <1>2 DEF Closed, IInv, RowsAreListed, rowVars
  <2>3. DOMAIN chatList' = {}
    BY <2>2
  <2>4. RowChats' = {}
    BY <2>3 DEF RowChats
  <2>5. RowsAreListed'
    BY <2>2, <2>4 DEF RowsAreListed
  <2> QED
    BY <2>1, <2>5 DEF IInv
<1>3. CASE \/ load \/ handleReady \/ LoadReply
           \/ \E e \in BOOLEAN : setRefreshTimerEnabled(e)
           \/ UNCHANGED vars
  <2>1. UNCHANGED <<rowVars, listed, session>>
    BY <1>3
    DEF load, handleReady, LoadReply, handleChatsLoaded, AllChatsLoaded,
        LoadFailed, setRefreshTimerEnabled, vars
  <2>2. IndexMapExact' /\ Sorted' /\ RowsAreListed'
    BY <2>1
    DEF IInv, IndexMapExact, Sorted, RowsAreListed, RowChats, rowVars
  <2>3. TypeOK'
    <3>1. /\ loading' \in BOOLEAN /\ allLoaded' \in BOOLEAN
          /\ refreshTimerEnabled' \in BOOLEAN /\ timerActive' \in BOOLEAN
      BY <1>3
      DEF load, handleReady, LoadReply, handleChatsLoaded, AllChatsLoaded,
          LoadFailed, setRefreshTimerEnabled, tryEnableRefreshTimer, vars,
          timerVars, loadVars, IInv, TypeOK
    <3>2. loads' \in 0..MaxLoads
      <4>1. loads \in 0..MaxLoads /\ MaxLoads \in Nat
        BY ChatListAssumption DEF IInv, TypeOK
      <4>2. \/ loads' = loads
            \/ loads < MaxLoads /\ loads' = loads + 1
            \/ loads > 0 /\ loads' = loads - 1
        BY <1>3
        DEF load, handleReady, LoadReply, handleChatsLoaded, AllChatsLoaded,
            LoadFailed, setRefreshTimerEnabled, vars, loadVars
      <4> QED
        BY <4>1, <4>2
    <3> QED
      BY <2>1, <3>1, <3>2 DEF IInv, TypeOK, rowVars
  <2> QED
    BY <2>2, <2>3 DEF IInv
<1> QED
  BY <1>1, <1>2, <1>3 DEF SessionStep

LEMMA NextIInv == IInv /\ [Next]_vars => IInv'
<1> SUFFICES ASSUME IInv, [Next]_vars PROVE IInv'
  OBVIOUS
<1>1. CASE TDLibUpdate
  BY <1>1, AddedStep, RemovedStep, PositionStep DEF TDLibUpdate
<1>2. CASE ~TDLibUpdate
  BY <1>2, OtherStep DEF Next
<1> QED
  BY <1>1, <1>2

-----------------------------------------------------------------------------
(***************************************************************************)
(* The variables of a chat list keep their types, whatever TDLib sends.    *)
(***************************************************************************)
THEOREM TypeCorrect == Spec => []TypeOK
<1>1. IInv => TypeOK
  BY DEF IInv
<1> QED
  BY <1>1, InitIInv, NextIInv, PTL DEF Spec

(***************************************************************************)
(* chatIndexMap is exact: patching only the damaged part of it in the      *)
(* insertion, the removal and the move of a row is enough.                 *)
(***************************************************************************)
THEOREM IndexMapCorrect == Spec => []IndexMapExact
<1>1. IInv => IndexMapExact
  BY DEF IInv
<1> QED
  BY <1>1, InitIInv, NextIInv, PTL DEF Spec

(***************************************************************************)
(* The rows stay in compareTo order under the linear insertion of          *)
(* handleChatAddedToList and the two scans of updateChatOrder.             *)
(***************************************************************************)
THEOREM SortedCorrect == Spec => []Sorted
<1>1. IInv => Sorted
  BY DEF IInv
<1> QED
  BY <1>1, InitIInv, NextIInv, PTL DEF Spec

(***************************************************************************)
(* No chat is lost, shown twice, or left over from an earlier session:     *)
(* the rows are the chats that TDLib has put in the list.                  *)
(***************************************************************************)
THEOREM RowsCorrect == Spec => []RowsAreListed
<1>1. IInv => RowsAreListed
  BY DEF IInv
<1> QED
  BY <1>1, InitIInv, NextIInv, PTL DEF Spec

-----------------------------------------------------------------------------
(***************************************************************************)
(* The view of the list (ChatListView).  RowsOf is the list without its    *)
(* order: what a handler must leave alone for every chat but its own.      *)
(***************************************************************************)
RowsOf(list) == {list[k] : k \in DOMAIN list}
EntriesOf(map, list) ==
    [c \in DOMAIN map |-> [order |-> list[map[c]].order,
                           isPinned |-> list[map[c]].isPinned]]
ViewOf(list) == [i \in DOMAIN list |-> list[i].chat]

\* Inserting, taking out and moving rows loses no other row.
LEMMA RowsKeptByInsert ==
    ASSUME NEW list \in Seq(Row), NEW pos \in 1..Len(list) + 1, NEW row \in Row
    PROVE  RowsOf(list) \cup {row} \subseteq RowsOf(InsertAt(list, pos, row))
<1> DEFINE new == InsertAt(list, pos, row)
<1>1. /\ new \in Seq(Row) /\ Len(new) = Len(list) + 1
      /\ \A k \in 1..Len(list) + 1 :
            new[k] = IF k < pos THEN list[k]
                     ELSE IF k = pos THEN row ELSE list[k - 1]
  BY InsertAtProperties
<1> HIDE DEF new
<1>2. Len(list) \in Nat /\ DOMAIN list = 1..Len(list)
      /\ DOMAIN new = 1..Len(list) + 1
  BY <1>1
<1>3. ASSUME NEW k \in 1..Len(list)
      PROVE  \E m \in DOMAIN new : new[m] = list[k]
  <2>1. CASE k < pos
    <3>1. k \in DOMAIN new /\ new[k] = list[k]
      BY <1>1, <1>2, <2>1
    <3> QED
      BY <3>1
  <2>2. CASE k >= pos
    <3> DEFINE m == k + 1
    <3>1. m \in 1..Len(list) + 1 /\ ~(m < pos) /\ m # pos /\ m - 1 = k
      BY <1>2, <2>2
    <3> HIDE DEF m
    <3> QED
      BY <1>1, <1>2, <3>1
  <2> QED
    BY <1>2, <2>1, <2>2
<1>4. new[pos] = row /\ pos \in DOMAIN new
  BY <1>1, <1>2
<1> QED
  BY <1>2, <1>3, <1>4 DEF RowsOf, new

LEMMA RowsKeptByRemove ==
    ASSUME NEW list \in Seq(Row), NEW i \in 1..Len(list),
           NEW k \in 1..Len(list), k # i
    PROVE  list[k] \in RowsOf(RemoveAt(list, i))
<1> DEFINE new == RemoveAt(list, i)
<1>1. /\ new \in Seq(Row) /\ Len(new) = Len(list) - 1
      /\ \A m \in 1..Len(list) - 1 :
            new[m] = IF m < i THEN list[m] ELSE list[m + 1]
  BY RemoveAtProperties
<1> HIDE DEF new
<1>2. Len(list) \in Nat /\ DOMAIN new = 1..Len(list) - 1
  BY <1>1
<1>3. CASE k < i
  <2>1. k \in DOMAIN new /\ new[k] = list[k]
    BY <1>1, <1>2, <1>3
  <2> QED
    BY <2>1 DEF RowsOf, new
<1>4. CASE k > i
  <2> DEFINE m == k - 1
  <2>1. m \in 1..Len(list) - 1 /\ ~(m < i) /\ m + 1 = k
    BY <1>2, <1>4
  <2> HIDE DEF m
  <2>2. m \in DOMAIN new /\ new[m] = list[k]
    BY <1>1, <1>2, <2>1
  <2> QED
    BY <2>2 DEF RowsOf, new
<1> QED
  BY <1>2, <1>3, <1>4

LEMMA RowsKeptByMove ==
    ASSUME NEW list \in Seq(Row), NEW i \in 1..Len(list), NEW j \in 1..Len(list)
    PROVE  RowsOf(list) \subseteq RowsOf(Move(list, i, j))
<1> DEFINE new == Move(list, i, j)
<1>1. new \in Seq(Row) /\ Len(new) = Len(list)
  BY MoveProperties
<1>2. \A k \in 1..Len(list) : \E m \in 1..Len(list) : new[m] = list[k]
  BY MovePermutes
<1> HIDE DEF new
<1>3. DOMAIN list = 1..Len(list) /\ DOMAIN new = 1..Len(list)
  BY <1>1
<1> QED
  BY <1>2, <1>3, Zenon DEF RowsOf, new

\* An exact index finds the row of every chat.
LEMMA RowFound ==
    ASSUME NEW list \in Seq(Row), NEW map, IsIndexOf(map, list),
           NEW r \in RowsOf(list)
    PROVE  r.chat \in DOMAIN map /\ list[map[r.chat]] = r
  BY DEF IsIndexOf, RowsOf

\* A sorted list with an exact index is a view of its entries.
LEMMA ViewOfEntries ==
    ASSUME NEW list \in Seq(Row), NEW map, IsIndexOf(map, list), InOrder(list)
    PROVE  View!IsViewOf(ViewOf(list), EntriesOf(map, list))
<1> DEFINE v == ViewOf(list)
           e == EntriesOf(map, list)
<1>1. DOMAIN list = 1..Len(list) /\ Len(list) \in Nat
      /\ \A k \in 1..Len(list) : list[k] \in Row
  OBVIOUS
<1>2. DOMAIN v = DOMAIN list /\ \A i \in DOMAIN list : v[i] = list[i].chat
  BY DEF ViewOf
<1>3. DOMAIN e = DOMAIN map
      /\ \A i \in DOMAIN list :
            list[i].chat \in DOMAIN map /\ e[list[i].chat].order = list[i].order
  BY DEF EntriesOf, IsIndexOf
<1>4. DOMAIN map = {list[i].chat : i \in DOMAIN list}
  BY DEF IsIndexOf
<1> HIDE DEF v, e
<1>5. {v[i] : i \in DOMAIN v} = DOMAIN e
  BY <1>2, <1>3, <1>4
<1>6. ASSUME NEW i \in DOMAIN v, NEW j \in DOMAIN v, i < j
      PROVE  View!Above(v[i], v[j], e)
  <2>1. compareTo(list[i], list[j]) < 0 /\ i \in 1..Len(list) /\ j \in 1..Len(list)
    BY <1>1, <1>2, <1>6 DEF InOrder
  <2>2. list[i].chat # list[j].chat
    BY <1>1, <2>1, <1>6 DEF IsIndexOf
  <2>3. /\ list[i].order \in Int /\ list[j].order \in Int
        /\ list[i].chat \in Int /\ list[j].chat \in Int
    BY <1>1, <2>1, ChatListAssumption DEF Row
  <2>4. \/ list[i].order > list[j].order
        \/ list[i].order = list[j].order /\ list[i].chat > list[j].chat
    BY <2>1, <2>2, <2>3 DEF compareTo
  <2> QED
    BY <1>1, <1>2, <1>3, <2>1, <2>4 DEF View!Above
<1> QED
  BY <1>5, <1>6 DEF View!IsViewOf, v, e

\* The entries after a step, chat by chat: entries changed for c only.
LEMMA EntriesKept ==
    ASSUME NEW list \in Seq(Row), NEW map, IsIndexOf(map, list),
           NEW new \in Seq(Row), NEW nmap, IsIndexOf(nmap, new),
           NEW d \in DOMAIN map, list[map[d]] \in RowsOf(new)
    PROVE  d \in DOMAIN nmap /\ EntriesOf(nmap, new)[d] = EntriesOf(map, list)[d]
<1>1. list[map[d]].chat = d
  BY IndexTyped
<1>2. d \in DOMAIN nmap /\ new[nmap[d]] = list[map[d]]
  BY <1>1, RowFound
<1> QED
  BY <1>2 DEF EntriesOf

LEMMA AddedImplementsPut ==
    ASSUME IInv, NEW c \in Chats, NEW o \in Orders, NEW p \in BOOLEAN,
           handleChatAddedToList(c, o, p)
    PROVE  View!Put(c, [order |-> o, isPinned |-> p])
<1> DEFINE row == [chat |-> c, order |-> o, isPinned |-> p]
           pos == InsertionPos(chatList, row)
<1>1. row \in Row /\ row.chat = c /\ row.order = o /\ row.isPinned = p
  BY DEF Row
<1>2. /\ chatList \in Seq(Row) /\ IsIndexOf(chatIndexMap, chatList)
      /\ InOrder(chatList) /\ RowChats = ChatsOf(chatList)
  BY DEF IInv, TypeOK, IndexMapExact, Sorted, RowChats, ChatsOf
<1>3. /\ chatList' \in Seq(Row) /\ IsIndexOf(chatIndexMap', chatList')
      /\ InOrder(chatList') /\ RowChats' = ChatsOf(chatList')
  BY AddedStep DEF IInv, TypeOK, IndexMapExact, Sorted, RowChats, ChatsOf
<1>4. chatList' = InsertAt(chatList, pos, row)
  BY DEF handleChatAddedToList
<1> HIDE DEF row
<1>5. pos \in 1..Len(chatList) + 1
  BY <1>1, <1>2, InsertionPosCorrect
<1> HIDE DEF pos
<1>6. RowsOf(chatList) \cup {row} \subseteq RowsOf(chatList')
  BY <1>1, <1>2, <1>4, <1>5, RowsKeptByInsert
<1>7. DOMAIN chatIndexMap' = DOMAIN chatIndexMap \cup {c}
  <2>1. ChatsOf(chatList') = ChatsOf(chatList) \cup {c}
    <3>1. row.chat \notin ChatsOf(chatList)
      BY <1>1, <1>2 DEF handleChatAddedToList, IInv, RowsAreListed
    <3> QED
      BY <1>1, <1>2, <1>4, <3>1, RowAdded DEF pos
  <2> QED
    BY <1>2, <1>3, <2>1, IndexTyped
<1>8. /\ entries = EntriesOf(chatIndexMap, chatList)
      /\ entries' = EntriesOf(chatIndexMap', chatList')
      /\ view' = ViewOf(chatList')
  BY DEF entries, view, EntriesOf, ViewOf
<1>9. ASSUME NEW d \in DOMAIN chatIndexMap, d # c
      PROVE  entries'[d] = entries[d]
  <2>1. chatList[chatIndexMap[d]] \in RowsOf(chatList)
    BY <1>2, IndexTyped DEF RowsOf
  <2> QED
    BY <1>2, <1>3, <1>6, <1>8, <2>1, EntriesKept
<1>10. entries'[c] = [order |-> o, isPinned |-> p]
  <2>1. c \in DOMAIN chatIndexMap' /\ chatList'[chatIndexMap'[c]] = row
    BY <1>1, <1>3, <1>6, RowFound
  <2> QED
    BY <1>1, <1>8, <2>1 DEF EntriesOf
<1>11. View!IsViewOf(view', entries')
  BY <1>3, <1>8, ViewOfEntries
<1>12. /\ DOMAIN entries = DOMAIN chatIndexMap
       /\ DOMAIN entries' = DOMAIN chatIndexMap'
       /\ entries' = [d \in DOMAIN entries' |-> entries'[d]]
  BY <1>8 DEF EntriesOf
<1>13. entries' = [d \in DOMAIN entries \cup {c} |->
                    IF d = c THEN [order |-> o, isPinned |-> p] ELSE entries[d]]
  BY <1>7, <1>9, <1>10, <1>12
<1> QED
  BY <1>11, <1>13 DEF View!Put

LEMMA RemovedImplementsDrop ==
    ASSUME IInv, NEW c \in Chats, handleChatRemovedFromList(c)
    PROVE  View!Drop(c) \/ UNCHANGED View!vars
<1>1. /\ chatList \in Seq(Row) /\ IsIndexOf(chatIndexMap, chatList)
      /\ InOrder(chatList) /\ RowChats = ChatsOf(chatList)
  BY DEF IInv, TypeOK, IndexMapExact, Sorted, RowChats, ChatsOf
<1>2. /\ chatList' \in Seq(Row) /\ IsIndexOf(chatIndexMap', chatList')
      /\ InOrder(chatList') /\ RowChats' = ChatsOf(chatList')
  BY RemovedStep DEF IInv, TypeOK, IndexMapExact, Sorted, RowChats, ChatsOf
<1>3. CASE c \in DOMAIN chatIndexMap
  <2> DEFINE i == chatIndexMap[c]
  <2>1. chatList' = RemoveAt(chatList, i)
    BY <1>3 DEF handleChatRemovedFromList
  <2>2. i \in 1..Len(chatList) /\ chatList[i].chat = c
    BY <1>1, <1>3, IndexTyped
  <2>3. DOMAIN chatIndexMap' = DOMAIN chatIndexMap \ {c}
    <3> HIDE DEF i
    <3>1. ChatsOf(chatList') = ChatsOf(chatList) \ {c}
      BY <1>1, <2>1, <2>2, RowRemoved
    <3> QED
      BY <1>1, <1>2, <3>1, IndexTyped
  <2>4. /\ entries = EntriesOf(chatIndexMap, chatList)
        /\ entries' = EntriesOf(chatIndexMap', chatList')
        /\ view' = ViewOf(chatList')
    BY DEF entries, view, EntriesOf, ViewOf
  <2>5. ASSUME NEW d \in DOMAIN chatIndexMap, d # c
        PROVE  entries'[d] = entries[d]
    <3> DEFINE k == chatIndexMap[d]
    <3>1. k \in 1..Len(chatList) /\ chatList[k].chat = d
      BY <1>1, IndexTyped
    <3>2. k # i
      BY <2>2, <2>5, <3>1
    <3> HIDE DEF i, k
    <3>3. chatList[k] \in RowsOf(chatList')
      BY <1>1, <2>1, <2>2, <3>1, <3>2, RowsKeptByRemove
    <3> QED
      BY <1>1, <1>2, <2>4, <3>3, EntriesKept DEF k
  <2>6. View!IsViewOf(view', entries')
    BY <1>2, <2>4, ViewOfEntries
  <2>7. /\ DOMAIN entries = DOMAIN chatIndexMap
        /\ DOMAIN entries' = DOMAIN chatIndexMap'
        /\ entries' = [d \in DOMAIN entries' |-> entries'[d]]
    BY <2>4 DEF EntriesOf
  <2>8. entries' = [d \in DOMAIN entries \ {c} |-> entries[d]]
    BY <2>3, <2>5, <2>7
  <2>9. View!Drop(c)
    BY <1>3, <2>6, <2>7, <2>8 DEF View!Drop
  <2> QED
    BY <2>9
<1>4. CASE c \notin DOMAIN chatIndexMap
  <2>1. UNCHANGED <<chatList, chatIndexMap>>
    BY <1>4 DEF handleChatRemovedFromList, rowVars
  <2> QED
    BY <2>1 DEF View!vars, entries, view
<1> QED
  BY <1>3, <1>4

LEMMA PositionImplementsPut ==
    ASSUME IInv, NEW c \in Chats, NEW o \in Orders, NEW p \in BOOLEAN,
           handleChatPositionUpdated(c, o, p)
    PROVE  View!Put(c, [order |-> o, isPinned |-> p])
<1> DEFINE i == chatIndexMap[c]
           row == [chat |-> c, order |-> o, isPinned |-> p]
           list == [chatList EXCEPT ![i] = row]
           j == MovedPos(list, i)
<1>1. /\ chatList \in Seq(Row) /\ IsIndexOf(chatIndexMap, chatList)
      /\ InOrder(chatList)
  BY DEF IInv, TypeOK, IndexMapExact, Sorted
<1>2. /\ chatList' \in Seq(Row) /\ IsIndexOf(chatIndexMap', chatList')
      /\ InOrder(chatList')
  BY PositionStep DEF IInv, TypeOK, IndexMapExact, Sorted
<1>3. i \in 1..Len(chatList) /\ chatList[i].chat = c /\ c \in DOMAIN chatIndexMap
  BY <1>1, IndexTyped DEF handleChatPositionUpdated
<1>4. chatList' = Move(list, i, j)
  BY DEF handleChatPositionUpdated, updateChatOrder
<1> HIDE DEF i
<1>5. row \in Row /\ row.chat = c /\ row.order = o /\ row.isPinned = p
  BY DEF Row
<1> HIDE DEF row
<1>6. /\ list \in Seq(Row) /\ Len(list) = Len(chatList) /\ list[i] = row
      /\ \A k \in 1..Len(list) : k # i => list[k] = chatList[k]
  BY <1>1, <1>3, <1>5
<1> HIDE DEF list
<1>7. \A k, m \in 1..Len(list) \ {i} :
        k < m => compareTo(list[k], list[m]) < 0
  BY <1>1, <1>6 DEF InOrder
<1>8. j \in 1..Len(list)
  BY <1>3, <1>6, <1>7, MovedPosCorrect
<1> HIDE DEF j
<1>9. RowsOf(list) \subseteq RowsOf(chatList')
  BY <1>3, <1>4, <1>6, <1>8, RowsKeptByMove
<1>10. row \in RowsOf(list) /\ \A k \in 1..Len(list) : list[k] \in RowsOf(list)
  BY <1>3, <1>6 DEF RowsOf
<1>11. DOMAIN chatIndexMap' = DOMAIN chatIndexMap
  <2>1. ChatsOf(chatList') = ChatsOf(list)
    <3>1. IsIndexOf(chatIndexMap, list)
      <4>1. \A k \in 1..Len(list) : list[k].chat = chatList[k].chat
        BY <1>3, <1>5, <1>6
      <4>2. DOMAIN list = 1..Len(list) /\ DOMAIN chatList = 1..Len(list)
        BY <1>1, <1>6
      <4>3. {list[k].chat : k \in DOMAIN list}
                = {chatList[k].chat : k \in DOMAIN chatList}
        BY <4>1, <4>2
      <4> QED
        BY <1>1, <4>1, <4>2, <4>3 DEF IsIndexOf
    <3> QED
      BY <1>3, <1>4, <1>6, <1>7, <3>1, RowMoved DEF j
  <2>2. ChatsOf(list) = ChatsOf(chatList)
    <3>1. DOMAIN list = 1..Len(list) /\ DOMAIN chatList = 1..Len(list)
      BY <1>1, <1>6
    <3>2. \A k \in 1..Len(list) : list[k].chat = chatList[k].chat
      BY <1>3, <1>5, <1>6
    <3> QED
      BY <3>1, <3>2 DEF ChatsOf
  <2> QED
    BY <1>1, <1>2, <2>1, <2>2, IndexTyped
<1>12. /\ entries = EntriesOf(chatIndexMap, chatList)
       /\ entries' = EntriesOf(chatIndexMap', chatList')
       /\ view' = ViewOf(chatList')
  BY DEF entries, view, EntriesOf, ViewOf
<1>13. ASSUME NEW d \in DOMAIN chatIndexMap, d # c
       PROVE  entries'[d] = entries[d]
  <2> DEFINE k == chatIndexMap[d]
  <2>1. k \in 1..Len(chatList) /\ chatList[k].chat = d
    BY <1>1, IndexTyped
  <2>2. k # i
    BY <1>3, <1>13, <2>1
  <2> HIDE DEF k
  <2>3. chatList[k] \in RowsOf(chatList')
    BY <1>6, <1>9, <1>10, <2>1, <2>2
  <2> QED
    BY <1>1, <1>2, <1>12, <2>3, EntriesKept DEF k
<1>14. entries'[c] = [order |-> o, isPinned |-> p]
  <2>1. c \in DOMAIN chatIndexMap' /\ chatList'[chatIndexMap'[c]] = row
    BY <1>2, <1>5, <1>9, <1>10, RowFound
  <2> QED
    BY <1>5, <1>12, <2>1 DEF EntriesOf
<1>15. View!IsViewOf(view', entries')
  BY <1>2, <1>12, ViewOfEntries
<1>16. /\ DOMAIN entries = DOMAIN chatIndexMap
       /\ DOMAIN entries' = DOMAIN chatIndexMap'
       /\ entries' = [d \in DOMAIN entries' |-> entries'[d]]
  BY <1>12 DEF EntriesOf
<1>17. entries' = [d \in DOMAIN entries \cup {c} |->
                    IF d = c THEN [order |-> o, isPinned |-> p] ELSE entries[d]]
  BY <1>3, <1>11, <1>13, <1>14, <1>16
<1> QED
  BY <1>15, <1>17 DEF View!Put

\* Every other handler clears the list or leaves the rows alone.
LEMMA OtherImplementsClear ==
    ASSUME \/ SessionStep \/ load \/ handleReady \/ LoadReply
           \/ \E e \in BOOLEAN : setRefreshTimerEnabled(e)
           \/ UNCHANGED vars
    PROVE  View!Clear \/ UNCHANGED View!vars
<1>1. CASE LoggingOut \/ Closing
  <2>1. chatList' = <<>> /\ chatIndexMap' = <<>>
    BY <1>1 DEF LoggingOut, Closing, Reset
  <2>2. entries' = <<>> /\ view' = <<>>
    BY <2>1 DEF entries, view
  <2> QED
    BY <2>2 DEF View!Clear
<1>2. CASE ~(LoggingOut \/ Closing)
  <2>1. UNCHANGED <<chatList, chatIndexMap>>
    BY <1>2
    DEF SessionStep, Closed, load, handleReady, LoadReply, handleChatsLoaded,
        AllChatsLoaded, LoadFailed, setRefreshTimerEnabled, vars, rowVars
  <2> QED
    BY <2>1 DEF View!vars, entries, view
<1> QED
  BY <1>1, <1>2

LEMMA NextImplementsView == IInv /\ [Next]_vars => [View!Next]_View!vars
<1> SUFFICES ASSUME IInv, [Next]_vars PROVE View!Next \/ UNCHANGED View!vars
  OBVIOUS
<1>1. ASSUME NEW c \in Chats, NEW o \in Orders, NEW p \in BOOLEAN,
             handleChatAddedToList(c, o, p) \/ handleChatPositionUpdated(c, o, p)
      PROVE  View!Next
  <2>1. View!Put(c, [order |-> o, isPinned |-> p])
    BY <1>1, AddedImplementsPut, PositionImplementsPut
  <2>2. [order |-> o, isPinned |-> p] \in View!Entry
    BY DEF View!Entry
  <2> QED
    BY <2>1, <2>2 DEF View!Next
<1>2. ASSUME NEW c \in Chats, handleChatRemovedFromList(c)
      PROVE  View!Next \/ UNCHANGED View!vars
  BY <1>2, RemovedImplementsDrop DEF View!Next
<1>3. CASE ~TDLibUpdate
  <2>1. View!Clear \/ UNCHANGED View!vars
    BY <1>3, OtherImplementsClear DEF Next
  <2> QED
    BY <2>1 DEF View!Next
<1> QED
  BY <1>1, <1>2, <1>3 DEF TDLibUpdate

(***************************************************************************)
(* A chat list implements ChatListView: whatever TDLib sends, the rows are *)
(* the chats of the list in order, and an insertion, removal or move       *)
(* changes the entry of the one chat it is about and of no other.          *)
(***************************************************************************)
THEOREM Refinement == Spec => ImplementsView
<1>1. Init => View!Init
  <2> SUFFICES ASSUME Init PROVE entries = <<>> /\ view = <<>>
    BY DEF View!Init
  <2>1. chatList = <<>> /\ chatIndexMap = <<>>
    BY DEF Init
  <2> QED
    BY <2>1 DEF entries, view
<1> QED
  BY <1>1, InitIInv, NextIInv, NextImplementsView, PTL
  DEF Spec, ImplementsView, View!Spec

-----------------------------------------------------------------------------
(***************************************************************************)
(* The tabs (ChatFoldersModel).  The helpers of handleChatFoldersUpdated   *)
(* work on a record s of the rows and the two caches.  TabsExact says what *)
(* is true of it between the steps of a handler that never left the list.  *)
(***************************************************************************)
Tab == Folders \cup {Main}

TabParts(s) ==
    /\ DOMAIN s = {"rows", "map", "main", "broken"}
    /\ s = [x \in DOMAIN s |-> s[x]]

TabIndex(map, rows) ==
    /\ \A i \in 1..Len(rows) : rows[i] # Main =>
        rows[i] \in DOMAIN map /\ map[rows[i]] = i
    /\ \A f \in DOMAIN map : f # Main => \E i \in 1..Len(rows) : rows[i] = f

TabMap(map) == DOMAIN map \subseteq Tab /\ \A f \in DOMAIN map : map[f] \in Nat

Once(rows) == \A i, j \in 1..Len(rows) : rows[i] = rows[j] => i = j

TabsTyped(s) ==
    /\ TabParts(s) /\ s.rows \in Seq(Tab) /\ TabMap(s.map)
    /\ s.main \in Nat /\ s.broken \in BOOLEAN

TabsExact(s) ==
    /\ TabsTyped(s) /\ s.broken = FALSE
    /\ Once(s.rows) /\ TabIndex(s.map, s.rows)

\* The entries of the rows from..to are set in the map, the others are kept.
\* Nothing is said of an entry for the main list: it is never read.
Patched(new, old, rows, from, to) ==
    /\ \A f \in DOMAIN new : \/ f \in DOMAIN old /\ new[f] = old[f]
                             \/ \E i \in from..to : rows[i] = f /\ new[f] = i
    /\ \A i \in from..to : rows[i] # Main =>
        rows[i] \in DOMAIN new /\ new[rows[i]] = i
    /\ \A f \in DOMAIN old :
        f # Main /\ (\A i \in from..to : rows[i] # f) => f \in DOMAIN new /\ new[f] = old[f]

LEMMA InsertedPatches ==
    ASSUME NEW map, NEW rows, NEW from \in Nat, NEW to \in Int,
           \A i, j \in from..to : rows[i] = rows[j] => i = j
    PROVE  Patched(Inserted(map, rows, from, to), map, rows, from, to)
<1> DEFINE new == Inserted(map, rows, from, to)
           here(f) == {i \in from..to : rows[i] = f}
<1>1. /\ DOMAIN new = DOMAIN map \cup {rows[i] : i \in from..to}
      /\ \A f \in DOMAIN new : new[f] = IF here(f) = {} THEN map[f] ELSE Max(here(f))
  BY DEF Inserted
<1>2. ASSUME NEW i \in from..to
      PROVE  Max(here(rows[i])) = i /\ here(rows[i]) # {}
  <2>1. here(rows[i]) = {i}
    OBVIOUS
  <2>2. {i} \subseteq 0..i /\ i \in Nat
    OBVIOUS
  <2>3. Max({i}) \in {i}
    BY <2>2, MaxOfPositions
  <2> QED
    BY <2>1, <2>3
<1>3. ASSUME NEW f, \A i \in from..to : rows[i] # f
      PROVE  here(f) = {}
  BY <1>3
<1> HIDE DEF new, here
<1>4. ASSUME NEW i \in from..to
      PROVE  rows[i] \in DOMAIN new /\ new[rows[i]] = i
  BY <1>1, <1>2
<1>5. ASSUME NEW f \in DOMAIN map, \A i \in from..to : rows[i] # f
      PROVE  f \in DOMAIN new /\ new[f] = map[f]
  BY <1>1, <1>3, <1>5
<1>6. ASSUME NEW f \in DOMAIN new
      PROVE  \/ f \in DOMAIN map /\ new[f] = map[f]
             \/ \E i \in from..to : rows[i] = f /\ new[f] = i
  BY <1>1, <1>4, <1>5
<1> QED
  BY <1>1, <1>4, <1>5, <1>6 DEF Patched, new

LEMMA UpdatePatches ==
    ASSUME NEW s, TabsTyped(s), NEW from \in 1..Len(s.rows) + 1, NEW to \in 0..Len(s.rows),
           Once(s.rows), NEW r, r = updateChatFolderIndexes(s, from, to)
    PROVE  /\ TabsTyped(r) /\ r.rows = s.rows /\ r.broken = s.broken
           /\ Patched(r.map, s.map, s.rows, from, to)
<1> DEFINE rows == s.rows
           new == Inserted(s.map, rows, from, to)
           moved == {i \in from..to : rows[i] = Main}
           map == [f \in DOMAIN s.map \cup (DOMAIN new \ {Main}) |->
                    IF f = Main THEN s.map[f] ELSE new[f]]
           main == IF moved = {} THEN s.main ELSE Max(moved)
<1>1. /\ TabParts(s) /\ rows \in Seq(Tab) /\ TabMap(s.map)
      /\ s.main \in Nat /\ s.broken \in BOOLEAN
  BY DEF TabsTyped
<1>2. Len(rows) \in Nat /\ from \in Nat /\ to \in Int /\ from..to \subseteq 1..Len(rows)
  BY <1>1
<1>3. r = [s EXCEPT !.map = map, !.main = main]
  BY Zenon DEF updateChatFolderIndexes
<1>4. main \in Nat
  <2>1. moved \subseteq 0..Len(rows)
    BY <1>2
  <2> HIDE DEF moved
  <2>2. moved # {} => Max(moved) \in moved
    BY <1>2, <2>1, MaxOfPositions
  <2>3. \A i \in 0..Len(rows) : i \in Nat
    BY <1>2
  <2>4. CASE moved = {}
    BY <1>1, <2>4
  <2>5. CASE moved # {}
    <3>1. Max(moved) \in Nat
      BY <2>1, <2>2, <2>3, <2>5, Zenon
    <3> QED
      BY <2>5, <3>1
  <2> QED
    BY <2>4, <2>5
<1> HIDE DEF map, main
<1>5. TabParts(r) /\ r.rows = rows /\ r.map = map /\ r.main = main /\ r.broken = s.broken
  BY <1>1, <1>3 DEF TabParts
<1>6. /\ Patched(new, s.map, rows, from, to)
      /\ DOMAIN new = DOMAIN s.map \cup {rows[i] : i \in from..to}
  <2>1. \A i, j \in from..to : rows[i] = rows[j] => i = j
    BY <1>2 DEF Once
  <2>2. DOMAIN new = DOMAIN s.map \cup {rows[i] : i \in from..to}
    BY DEF Inserted
  <2>3. Patched(new, s.map, rows, from, to)
    BY ONLY <1>2, <2>1, InsertedPatches
  <2> QED
    BY <2>2, <2>3
<1> HIDE DEF new
<1>7. /\ DOMAIN map = DOMAIN s.map \cup (DOMAIN new \ {Main})
      /\ \A f \in DOMAIN map : map[f] = IF f = Main THEN s.map[f] ELSE new[f]
  BY DEF map
<1>8. \A i \in from..to : rows[i] \in Tab
  BY <1>1, <1>2
<1> HIDE DEF rows, moved
<1>9. Patched(map, s.map, rows, from, to)
  <2>1. ASSUME NEW f \in DOMAIN map
        PROVE  \/ f \in DOMAIN s.map /\ map[f] = s.map[f]
               \/ \E i \in from..to : rows[i] = f /\ map[f] = i
    <3>1. CASE f = Main
      BY <1>7, <3>1
    <3>2. CASE f # Main
      <4>1. f \in DOMAIN new /\ map[f] = new[f]
        BY <1>6, <1>7, <3>2
      <4> QED
        BY <1>6, <4>1 DEF Patched
    <3> QED
      BY <3>1, <3>2
  <2>2. ASSUME NEW i \in from..to, rows[i] # Main
        PROVE  rows[i] \in DOMAIN map /\ map[rows[i]] = i
    BY <1>6, <1>7, <2>2 DEF Patched
  <2>3. ASSUME NEW f \in DOMAIN s.map, f # Main, \A i \in from..to : rows[i] # f
        PROVE  f \in DOMAIN map /\ map[f] = s.map[f]
    BY <1>6, <1>7, <2>3 DEF Patched
  <2> QED
    BY <2>1, <2>2, <2>3 DEF Patched
<1>10. TabMap(map)
  <2>1. DOMAIN map \subseteq Tab
    BY <1>1, <1>6, <1>7, <1>8 DEF TabMap
  <2>2. \A i \in from..to : i \in Nat
    BY <1>2
  <2>3. \A f \in DOMAIN s.map : s.map[f] \in Nat
    BY <1>1 DEF TabMap
  <2>4. \A f \in DOMAIN map : map[f] \in Nat
    BY <1>9, <2>2, <2>3, Zenon DEF Patched
  <2> QED
    BY <2>1, <2>4 DEF TabMap
<1> QED
  BY <1>1, <1>4, <1>5, <1>9, <1>10 DEF TabsTyped, rows

\* A patched map is exact when the rows outside of the patch had their entry
\* and no other folder has one.
LEMMA PatchedExact ==
    ASSUME NEW s, NEW old, TabsTyped(s), s.broken = FALSE, Once(s.rows),
           NEW from \in Int, NEW to \in Int, Patched(s.map, old, s.rows, from, to),
           from..to \subseteq 1..Len(s.rows),
           \A i \in (1..Len(s.rows)) \ (from..to) : s.rows[i] # Main =>
                s.rows[i] \in DOMAIN old /\ old[s.rows[i]] = i,
           \A f \in DOMAIN old : f # Main => \E i \in 1..Len(s.rows) : s.rows[i] = f
    PROVE  TabsExact(s)
<1> DEFINE n == Len(s.rows)
           rows == s.rows
           map == s.map
<1> HIDE DEF n, rows, map
<1>1. ASSUME NEW i \in 1..n, rows[i] # Main
      PROVE  rows[i] \in DOMAIN map /\ map[rows[i]] = i
  <2>1. CASE i \in from..to
    BY <1>1, <2>1 DEF Patched, rows, map
  <2>2. CASE i \notin from..to
    <3>1. rows[i] \in DOMAIN old /\ old[rows[i]] = i
      BY <1>1, <2>2 DEF rows, n
    <3>2. \A j \in from..to : rows[j] # rows[i]
      BY <2>2 DEF Once, rows, n
    <3> QED
      BY <1>1, <3>1, <3>2 DEF Patched, rows, map
  <2> QED
    BY <2>1, <2>2
<1>2. ASSUME NEW f \in DOMAIN map, f # Main
      PROVE  \E i \in 1..n : rows[i] = f
  <2>1. \/ f \in DOMAIN old
        \/ \E i \in from..to : rows[i] = f
    BY DEF Patched, rows, map
  <2> QED
    BY <1>2, <2>1 DEF rows, n
<1> QED
  BY <1>1, <1>2 DEF TabsExact, TabIndex, n, rows, map

\* QList::move: which row ends up where.
MovedRows(new, rows, from, to) ==
    /\ new \in Seq(Tab) /\ Len(new) = Len(rows)
    /\ \A k \in 1..Len(rows) :
        new[k] = IF k = to THEN rows[from]
                 ELSE IF from <= k /\ k < to THEN rows[k + 1]
                 ELSE IF to < k /\ k <= from THEN rows[k - 1]
                 ELSE rows[k]

\* The place that a row is moved to.
Place(k, from, to) ==
    IF k = from THEN to
    ELSE IF from < k /\ k <= to THEN k - 1
    ELSE IF to <= k /\ k < from THEN k + 1
    ELSE k

LEMMA MovedPlaces ==
    ASSUME NEW rows \in Seq(Tab), NEW from \in 1..Len(rows), NEW to \in 1..Len(rows),
           NEW new, MovedRows(new, rows, from, to)
    PROVE  /\ \A k \in 1..Len(rows) : /\ Place(k, from, to) \in 1..Len(rows)
                                      /\ new[Place(k, from, to)] = rows[k]
           /\ \A k \in 1..Len(rows) : \E j \in 1..Len(rows) : Place(j, from, to) = k
           /\ Once(rows) => Once(new)
<1> DEFINE n == Len(rows)
<1>1. n \in Nat
  OBVIOUS
<1>2. Len(new) = n /\ \A k \in 1..n :
        new[k] = IF k = to THEN rows[from]
                 ELSE IF from <= k /\ k < to THEN rows[k + 1]
                 ELSE IF to < k /\ k <= from THEN rows[k - 1]
                 ELSE rows[k]
  BY DEF MovedRows
<1>3. from \in 1..n /\ to \in 1..n
  OBVIOUS
<1> HIDE DEF n
<1>4. ASSUME NEW k \in 1..n
      PROVE  Place(k, from, to) \in 1..n
  BY <1>1, <1>3 DEF Place
<1>5. ASSUME NEW k \in 1..n
      PROVE  new[Place(k, from, to)] = rows[k]
  <2> DEFINE j == Place(k, from, to)
  <2>1. j \in 1..n
    BY <1>4
  <2>2. \/ j = to /\ k = from
        \/ j # to /\ from <= j /\ j < to /\ k = j + 1
        \/ j # to /\ to < j /\ j <= from /\ k = j - 1
        \/ j # to /\ ~(from <= j /\ j < to) /\ ~(to < j /\ j <= from) /\ k = j
    BY <1>1, <1>3 DEF Place
  <2> HIDE DEF j
  <2>3. new[j] = rows[k]
    BY <1>1, <1>2, <1>3, <2>1, <2>2
  <2> QED
    BY <2>3 DEF j
<1>6. ASSUME NEW k \in 1..n
      PROVE  \E j \in 1..n : Place(j, from, to) = k
  <2>1. CASE k = to
    BY <1>3, <2>1 DEF Place
  <2>2. CASE k # to /\ from <= k /\ k < to
    <3>1. k + 1 \in 1..n /\ Place(k + 1, from, to) = k
      BY <1>1, <1>3, <2>2 DEF Place
    <3> QED
      BY <3>1
  <2>3. CASE k # to /\ to < k /\ k <= from
    <3>1. k - 1 \in 1..n /\ Place(k - 1, from, to) = k
      BY <1>1, <1>3, <2>3 DEF Place
    <3> QED
      BY <3>1
  <2>4. CASE k # to /\ ~(from <= k /\ k < to) /\ ~(to < k /\ k <= from)
    <3>1. Place(k, from, to) = k
      BY <1>1, <1>3, <2>4 DEF Place
    <3> QED
      BY <3>1
  <2> QED
    BY <2>1, <2>2, <2>3, <2>4
<1>7. ASSUME Once(rows)
      PROVE  Once(new)
  <2> SUFFICES ASSUME NEW i \in 1..n, NEW j \in 1..n, new[i] = new[j]
               PROVE  i = j
    BY <1>2 DEF Once
  <2>1. PICK a \in 1..n : Place(a, from, to) = i
    BY <1>6
  <2>2. PICK b \in 1..n : Place(b, from, to) = j
    BY <1>6
  <2>3. rows[a] = rows[b]
    BY <1>5, <2>1, <2>2
  <2>4. a = b
    BY <1>7, <2>3 DEF Once, n
  <2> QED
    BY <2>1, <2>2, <2>4
<1> QED
  BY <1>4, <1>5, <1>6, <1>7 DEF n

\* finishMove leaves the moved row alone: its entry must be right before.
LEMMA MoveRowExact ==
    ASSUME NEW s, TabsTyped(s), s.broken = FALSE, Once(s.rows),
           NEW from \in 1..Len(s.rows), NEW to \in 1..Len(s.rows),
           \A i \in 1..Len(s.rows) : i # from /\ s.rows[i] # Main =>
                s.rows[i] \in DOMAIN s.map /\ s.map[s.rows[i]] = i,
           s.rows[from] # Main =>
                s.rows[from] \in DOMAIN s.map /\ s.map[s.rows[from]] = to,
           \A f \in DOMAIN s.map : f # Main => \E i \in 1..Len(s.rows) : s.rows[i] = f,
           NEW r, r = MoveRow(s, from, to)
    PROVE  TabsExact(r) /\ MovedRows(r.rows, s.rows, from, to)
<1> DEFINE rows == s.rows
           n == Len(rows)
           new == InsertAt(RemoveAt(rows, from), to, rows[from])
           moved == [s EXCEPT !.rows = new]
           a == IF to < from THEN to + 1 ELSE from
           b == IF to < from THEN from ELSE to - 1
<1>1. TabParts(s) /\ rows \in Seq(Tab) /\ TabMap(s.map) /\ s.main \in Nat
  BY DEF TabsTyped
<1>2. n \in Nat /\ DOMAIN rows = 1..n
  BY <1>1
<1>3. MovedRows(new, rows, from, to)
  <2>1. /\ new \in Seq(Tab) /\ Len(new) = Len(rows)
        /\ \A k \in 1..Len(rows) :
            new[k] = IF k = to THEN rows[from]
                     ELSE IF from <= k /\ k < to THEN rows[k + 1]
                     ELSE IF to < k /\ k <= from THEN rows[k - 1]
                     ELSE rows[k]
    <3>1. from \in 1..Len(rows) /\ to \in 1..Len(rows) /\ rows \in Seq(Tab)
      BY <1>1
    <3> HIDE DEF rows
    <3> QED
      BY ONLY <3>1, ListMove, ZenonT(30)
  <2> HIDE DEF new
  <2> QED
    BY <2>1 DEF MovedRows
<1> HIDE DEF new
<1>4. new \in Seq(Tab) /\ Len(new) = n /\ \A k \in 1..n :
        new[k] = IF k = to THEN rows[from]
                 ELSE IF from <= k /\ k < to THEN rows[k + 1]
                 ELSE IF to < k /\ k <= from THEN rows[k - 1]
                 ELSE rows[k]
  BY <1>3 DEF MovedRows
<1>5. /\ \A k \in 1..n : Place(k, from, to) \in 1..n /\ new[Place(k, from, to)] = rows[k]
      /\ Once(new)
  <2>1. from \in 1..Len(rows) /\ to \in 1..Len(rows) /\ rows \in Seq(Tab) /\ Once(rows)
    BY <1>1
  <2> HIDE DEF rows
  <2> QED
    BY ONLY <1>3, <2>1, MovedPlaces DEF n
<1>6. /\ TabParts(moved) /\ moved.rows = new /\ moved.map = s.map
      /\ moved.main = s.main /\ moved.broken = s.broken
  BY <1>1 DEF TabParts
<1>7. r = updateChatFolderIndexes(moved, a, b)
  <2>1. from \in DOMAIN rows /\ to \in DOMAIN rows
    BY <1>2
  <2> QED
    BY <2>1, Zenon DEF MoveRow, new
<1> HIDE DEF moved, rows, n
<1>8. TabsTyped(moved) /\ Once(moved.rows) /\ Len(moved.rows) = n
  BY <1>1, <1>4, <1>5, <1>6 DEF TabsTyped
<1>9. from \in 1..n /\ to \in 1..n
  BY DEF n, rows
<1>10. a \in 1..n + 1 /\ b \in 0..n /\ a \in Int /\ b \in Int /\ a..b \subseteq 1..n
  BY <1>2, <1>9
<1>11. \A i \in (1..n) \ (a..b) : i = to \/ (i # from /\ new[i] = rows[i])
  BY <1>2, <1>4, <1>9
<1>12. new[to] = rows[from]
  BY <1>4, <1>9
<1> HIDE DEF a, b
<1>13. /\ TabsTyped(r) /\ r.rows = new /\ r.broken = FALSE
       /\ Patched(r.map, s.map, new, a, b)
  <2>1. a \in 1..Len(moved.rows) + 1 /\ b \in 0..Len(moved.rows)
    BY <1>8, <1>10
  <2>2. /\ TabsTyped(r) /\ r.rows = moved.rows /\ r.broken = moved.broken
        /\ Patched(r.map, moved.map, moved.rows, a, b)
    BY <1>7, <1>8, <2>1, UpdatePatches
  <2> QED
    BY <1>6, <2>2
<1>14. ASSUME NEW i \in (1..n) \ (a..b), new[i] # Main
       PROVE  new[i] \in DOMAIN s.map /\ s.map[new[i]] = i
  <2>1. CASE i = to
    BY <1>12, <1>14, <2>1 DEF rows
  <2>2. CASE i # to
    <3>1. i # from /\ new[i] = rows[i]
      BY <1>11, <2>2
    <3> QED
      BY <1>14, <3>1 DEF rows, n
  <2> QED
    BY <2>1, <2>2
<1>15. ASSUME NEW f \in DOMAIN s.map, f # Main
       PROVE  \E i \in 1..n : new[i] = f
  <2>1. PICK i \in 1..n : rows[i] = f
    BY <1>15 DEF rows, n
  <2> QED
    BY <1>5, <2>1
<1>16. Len(r.rows) = n
  BY <1>4, <1>13
<1>17. TabsExact(r)
  <2> DEFINE old == s.map
  <2>1. TabsTyped(r) /\ r.broken = FALSE /\ Once(r.rows) /\ Patched(r.map, old, r.rows, a, b)
    BY <1>5, <1>13
  <2>2. a \in Int /\ b \in Int /\ a..b \subseteq 1..Len(r.rows)
    BY <1>10, <1>16
  <2>3. \A i \in (1..Len(r.rows)) \ (a..b) : r.rows[i] # Main =>
            r.rows[i] \in DOMAIN old /\ old[r.rows[i]] = i
    BY <1>13, <1>14, <1>16
  <2>4. \A f \in DOMAIN old : f # Main => \E i \in 1..Len(r.rows) : r.rows[i] = f
    BY <1>13, <1>15, <1>16
  <2> HIDE DEF old
  <2> QED
    BY ONLY <2>1, <2>2, <2>3, <2>4, PatchedExact
<1> QED
  BY <1>3, <1>13, <1>17 DEF rows

\* removeRange inside of the list, and the cases in which it does nothing or
\* leaves the list.
LEMMA RemoveRangeExact ==
    ASSUME NEW s, TabsExact(s), NEW first \in 1..Len(s.rows), NEW last \in first..Len(s.rows),
           NEW r, r = removeRange(s, first, last)
    PROVE  TabsExact(r) /\ r.rows = Cut(s.rows, first - 1, last) /\ r.main = s.main
<1> DEFINE rows == s.rows
           n == Len(rows)
           gone == {rows[i] : i \in first..last}
           kept == [f \in DOMAIN s.map \ gone |-> s.map[f]]
           new == Cut(rows, first - 1, last)
           d == last - (first - 1)
           map == Inserted(kept, new, first, Len(new))
<1>1. /\ TabsTyped(s) /\ s.broken = FALSE /\ Once(rows) /\ TabIndex(s.map, rows)
      /\ TabParts(s) /\ rows \in Seq(Tab) /\ TabMap(s.map) /\ s.main \in Nat
  BY DEF TabsTyped, TabsExact
<1>2. n \in Nat /\ first \in 1..n /\ last \in first..n /\ first <= last
  BY <1>1
<1>3. r = [s EXCEPT !.rows = new, !.map = map]
  <2>1. ~(first < 1 \/ first > last \/ s.broken) /\ ~(last > Len(s.rows))
    BY <1>1, <1>2
  <2> QED
    BY <2>1, Zenon DEF removeRange, Cut
<1> HIDE DEF map
<1>4. TabParts(r) /\ r.rows = new /\ r.map = map /\ r.main = s.main /\ r.broken = FALSE
  BY <1>1, <1>3 DEF TabParts
<1>5. /\ new \in Seq(Tab) /\ Len(new) = n - d
      /\ \A k \in 1..n - d : new[k] = IF k <= first - 1 THEN rows[k] ELSE rows[k + d]
  <2>1. first - 1 \in 0..Len(rows) /\ last \in (first - 1)..Len(rows)
    BY <1>2
  <2> HIDE DEF n
  <2> QED
    BY <1>1, <2>1, RangeCut, ZenonT(30) DEF n
<1> HIDE DEF new, rows, n, kept
<1>6. \A i, j \in 1..n : rows[i] = rows[j] => i = j
  BY <1>1 DEF Once, n
<1>7. ASSUME NEW i \in 1..n - d, NEW j \in 1..n - d, new[i] = new[j]
      PROVE  i = j
  <2>1. /\ i \in 1..n /\ j \in 1..n
        /\ i > first - 1 => i + d \in 1..n
        /\ j > first - 1 => j + d \in 1..n
    BY <1>2
  <2>2. /\ i <= first - 1 => new[i] = rows[i]
        /\ i > first - 1 => new[i] = rows[i + d]
    BY <1>2, <1>5
  <2>3. /\ j <= first - 1 => new[j] = rows[j]
        /\ j > first - 1 => new[j] = rows[j + d]
    BY <1>2, <1>5
  <2> QED
    <3>1. CASE i <= first - 1 /\ j <= first - 1
      BY <1>6, <1>7, <2>1, <2>2, <2>3, <3>1
    <3>2. CASE i > first - 1 /\ j > first - 1
      <4>1. rows[i + d] = rows[j + d]
        BY <1>7, <2>2, <2>3, <3>2, Zenon
      <4>2. i + d = j + d
        BY <1>6, <2>1, <3>2, <4>1
      <4> QED
        BY <1>2, <4>2
    <3>3. CASE i <= first - 1 /\ j > first - 1
      <4>1. rows[i] = rows[j + d]
        BY <1>7, <2>2, <2>3, <3>3, Zenon
      <4>2. i = j + d
        BY <1>6, <2>1, <3>3, <4>1
      <4> QED
        BY <1>2, <3>3, <4>2
    <3>4. CASE i > first - 1 /\ j <= first - 1
      <4>1. rows[i + d] = rows[j]
        BY <1>7, <2>2, <2>3, <3>4, Zenon
      <4>2. i + d = j
        BY <1>6, <2>1, <3>4, <4>1
      <4> QED
        BY <1>2, <3>4, <4>2
    <3> QED
      BY <1>2, <3>1, <3>2, <3>3, <3>4
<1>8. Once(new)
  BY <1>5, <1>7 DEF Once
<1>9. Patched(map, kept, new, first, Len(new))
  <2>1. \A i, j \in first..Len(new) : new[i] = new[j] => i = j
    <3>1. \A i \in first..Len(new) : i \in 1..n - d
      BY <1>2, <1>5
    <3> QED
      BY <1>7, <3>1
  <2>2. first \in Nat /\ Len(new) \in Int
    BY <1>2, <1>5
  <2> QED
    BY ONLY <2>1, <2>2, InsertedPatches DEF map
<1>10. /\ DOMAIN kept = DOMAIN s.map \ gone
       /\ \A f \in DOMAIN kept : kept[f] = s.map[f]
  BY DEF kept
<1>11. TabMap(map)
  <2>1. \A f \in DOMAIN kept : f \in Tab /\ kept[f] \in Nat
    BY <1>1, <1>10 DEF TabMap
  <2>2. \A i \in first..Len(new) : new[i] \in Tab /\ i \in Nat
    BY <1>2, <1>5
  <2>3. \A f \in DOMAIN map : f \in Tab /\ map[f] \in Nat
    BY <1>9, <2>1, <2>2, Zenon DEF Patched
  <2> QED
    BY <2>3 DEF TabMap
<1>12. ASSUME NEW i \in (1..Len(new)) \ (first..Len(new)), new[i] # Main
       PROVE  new[i] \in DOMAIN kept /\ kept[new[i]] = i
  <2>1. i \in 1..n /\ i <= first - 1 /\ i \in 1..n - d
    BY <1>2, <1>5
  <2>2. new[i] = rows[i]
    BY <1>5, <2>1
  <2>3. rows[i] \in DOMAIN s.map /\ s.map[rows[i]] = i
    BY <1>1, <1>12, <2>1, <2>2 DEF TabIndex, n
  <2>4. rows[i] \notin gone
    <3>1. \A j \in first..last : j \in 1..n /\ j # i
      BY <1>2, <2>1
    <3> QED
      BY <1>6, <2>1, <3>1
  <2> QED
    BY <1>10, <2>2, <2>3, <2>4
<1>13. ASSUME NEW f \in DOMAIN kept, f # Main
       PROVE  \E i \in 1..Len(new) : new[i] = f
  <2>1. f \in DOMAIN s.map /\ f \notin gone
    BY <1>10
  <2>2. PICK i \in 1..n : rows[i] = f
    BY <1>1, <1>13, <2>1 DEF TabIndex, n
  <2>3. i \notin first..last
    BY <2>1, <2>2
  <2>4. CASE i < first
    <3>1. i \in 1..n - d /\ i <= first - 1
      BY <1>2, <2>4
    <3> QED
      BY <1>5, <2>2, <3>1
  <2>5. CASE i > last
    <3>1. i - d \in 1..n - d /\ ~(i - d <= first - 1) /\ (i - d) + d = i
      BY <1>2, <2>5
    <3>2. new[i - d] = rows[(i - d) + d]
      BY <1>5, <3>1
    <3> QED
      BY <1>5, <2>2, <3>1, <3>2
  <2> QED
    BY <1>2, <2>3, <2>4, <2>5
<1>14. TabsTyped(r) /\ Once(r.rows)
  BY <1>1, <1>4, <1>5, <1>8, <1>11 DEF TabsTyped
<1>15. /\ first \in Int /\ Len(new) \in Int
       /\ first..Len(new) \subseteq 1..Len(new)
  BY <1>2, <1>5
<1>16. TabsExact(r)
  <2> DEFINE to == Len(new)
  <2>1. /\ TabsTyped(r) /\ r.broken = FALSE /\ Once(r.rows)
        /\ Patched(r.map, kept, r.rows, first, to)
    BY <1>4, <1>9, <1>14
  <2>2. first \in Int /\ to \in Int /\ first..to \subseteq 1..Len(r.rows)
    BY <1>4, <1>15
  <2>3. \A i \in (1..Len(r.rows)) \ (first..to) : r.rows[i] # Main =>
            r.rows[i] \in DOMAIN kept /\ kept[r.rows[i]] = i
    BY <1>4, <1>12
  <2>4. \A f \in DOMAIN kept : f # Main => \E i \in 1..Len(r.rows) : r.rows[i] = f
    BY <1>4, <1>13
  <2> HIDE DEF to
  <2> QED
    BY ONLY <2>1, <2>2, <2>3, <2>4, PatchedExact
<1> QED
  BY <1>4, <1>16 DEF new, rows

LEMMA RemoveRangeIdle ==
    ASSUME NEW s, NEW first \in Int, NEW last \in Int, first < 1 \/ first > last \/ s.broken = TRUE
    PROVE  removeRange(s, first, last) = s
<1>1. first < 1 \/ first > last \/ s.broken
  BY Zenon
<1> QED
  BY <1>1, Zenon DEF removeRange

LEMMA IndexOfRow ==
    ASSUME NEW rows \in Seq(Tab), Once(rows), NEW f, NEW p, p = IndexOf(rows, f)
    PROVE  \/ p = 0 /\ \A i \in 1..Len(rows) : rows[i] # f
           \/ p \in 1..Len(rows) /\ rows[p] = f
<1> DEFINE here == {i \in DOMAIN rows : rows[i] = f}
<1>1. Len(rows) \in Nat /\ DOMAIN rows = 1..Len(rows)
  OBVIOUS
<1>2. p = IF here = {} THEN 0 ELSE Max(here)
  BY Zenon DEF IndexOf
<1>3. here \subseteq 0..Len(rows)
  BY <1>1
<1>4. /\ here = {} => \A i \in 1..Len(rows) : rows[i] # f
      /\ \A i \in here : i \in 1..Len(rows) /\ rows[i] = f
  BY <1>1
<1> HIDE DEF here
<1>5. here # {} => Max(here) \in here
  BY <1>1, <1>3, MaxOfPositions
<1> QED
  BY <1>2, <1>4, <1>5

\* One round of the loop that removes the removed folders.
RemoveRound(t, i, folders) ==
    IF t.rows[i] \in {Main} \cup ToSet(folders) THEN t ELSE removeRange(t, i, i)

\* The loop: each round is made from the one before.
RemoveLoop(f, s, folders) ==
    LET n == Len(s.rows)
    IN  /\ f[0] = s
        /\ \A k \in 1..n : f[k] = RemoveRound(f[k - 1], n - k + 1, folders)
        /\ RemoveRemoved(s, folders) = f[n]

\* The rounds exist.
LEMMA RemoveRounds ==
    ASSUME NEW s, Len(s.rows) \in Nat, NEW folders
    PROVE  \E f : RemoveLoop(f, s, folders)
<1> DEFINE n == Len(s.rows)
           start == s
           Round(t, k) == RemoveRound(t, n - k + 1, folders)
           Rounds(f, m) == [k \in 0..m |-> IF k = 0 THEN start ELSE Round(f[k - 1], k)]
           Defined(m) == \E f : f = Rounds(f, m)
           T == {m \in 0..n : Defined(m)}
<1>1. n \in Nat
  OBVIOUS
<1> HIDE DEF n
<1>2. Defined(0)
  <2> DEFINE f == [k \in 0..0 |-> start]
  <2>1. f = Rounds(f, 0)
    <3> HIDE DEF start, Round
    <3> QED
      OBVIOUS
  <2> HIDE DEF f, Rounds
  <2> QED
    BY <2>1
<1>3. ASSUME NEW m \in 0..n, m # n, Defined(m)
      PROVE  Defined(m + 1)
  <2> HIDE DEF start, Round
  <2>1. PICK f : f = Rounds(f, m)
    BY <1>3
  <2> DEFINE g == [k \in 0..m + 1 |-> IF k = m + 1 THEN Round(f[m], m + 1) ELSE f[k]]
  <2>2. ASSUME NEW k \in 0..m + 1
        PROVE  g[k] = Rounds(g, m + 1)[k]
    <3>1. CASE k = 0
      BY <1>1, <1>3, <2>1, <3>1
    <3>2. CASE k \in 1..m
      <4>1. k - 1 \in 0..m /\ k \in 0..m /\ k # m + 1 /\ k - 1 # m + 1
        BY <1>1, <1>3, <3>2
      <4>2. g[k] = f[k] /\ g[k - 1] = f[k - 1]
        BY <1>1, <4>1
      <4>3. Rounds(g, m + 1)[k] = Round(g[k - 1], k)
        BY <1>1, <3>2, <4>1
      <4>4. Rounds(f, m)[k] = Round(f[k - 1], k)
        BY <1>1, <3>2, <4>1
      <4> HIDE DEF g, Rounds
      <4> QED
        BY <2>1, <4>2, <4>3, <4>4
    <3>3. CASE k = m + 1
      <4>1. g[m + 1] = Round(f[m], m + 1) /\ g[m] = f[m]
        BY <1>1, <1>3
      <4>2. Rounds(g, m + 1)[m + 1] = Round(g[(m + 1) - 1], m + 1)
        BY <1>1, <1>3
      <4>3. (m + 1) - 1 = m
        BY <1>1
      <4> HIDE DEF g, Rounds
      <4> QED
        BY <3>3, <4>1, <4>2, <4>3
    <3> QED
      BY <1>1, <1>3, <3>1, <3>2, <3>3
  <2>3. g = Rounds(g, m + 1)
    BY <2>2
  <2> HIDE DEF g, Rounds
  <2> QED
    BY <2>3
<1>4. Defined(n)
  <2> HIDE DEF Defined
  <2>1. 0 \in T /\ \A m \in 0..n : m # n /\ m \in T => m + 1 \in T
    BY <1>1, <1>2, <1>3
  <2> HIDE DEF T
  <2>2. \A m \in 0..n : m \in T
    BY <1>1, <2>1, CountingUp, Zenon
  <2> QED
    BY <1>1, <2>2 DEF T
<1>5. PICK f : /\ f = Rounds(f, n)
               /\ RemoveRemoved(s, folders) = f[n]
  BY <1>4, Zenon DEF RemoveRemoved, RemoveRound, n
<1> DEFINE g == Rounds(f, n)
<1>6. g[0] = start /\ \A k \in 1..n : g[k] = Round(f[k - 1], k)
  <2> HIDE DEF start, Round
  <2> QED
    BY <1>1
<1> HIDE DEF Rounds, g
<1>7. f = g
  BY <1>5, Zenon DEF g
<1> QED
  BY <1>5, <1>6, <1>7, Zenon DEF n, RemoveLoop

\* The loop that places the folders.
PlaceLoop(f, s, folders, mainPosition) ==
    LET n == Len(folders)
    IN  /\ f[0] = MoveMain(RemoveRemoved([s EXCEPT !.main = 0], folders), mainPosition)
        /\ \A k \in 1..n : f[k] = PlaceFolder(f[k - 1], folders, mainPosition, k)
        /\ Rearranged(s, folders, mainPosition) = [f[n] EXCEPT !.main = mainPosition + 1]

LEMMA PlaceRounds ==
    ASSUME NEW s, NEW folders, Len(folders) \in Nat, NEW mainPosition
    PROVE  \E f : PlaceLoop(f, s, folders, mainPosition)
<1> DEFINE n == Len(folders)
           start == MoveMain(RemoveRemoved([s EXCEPT !.main = 0], folders), mainPosition)
           Round(t, k) == PlaceFolder(t, folders, mainPosition, k)
           Rounds(f, m) == [k \in 0..m |-> IF k = 0 THEN start ELSE Round(f[k - 1], k)]
           Defined(m) == \E f : f = Rounds(f, m)
           T == {m \in 0..n : Defined(m)}
<1>1. n \in Nat
  OBVIOUS
<1> HIDE DEF n
<1>2. Defined(0)
  <2> DEFINE f == [k \in 0..0 |-> start]
  <2>1. f = Rounds(f, 0)
    <3> HIDE DEF start, Round
    <3> QED
      OBVIOUS
  <2> HIDE DEF f, Rounds
  <2> QED
    BY <2>1
<1>3. ASSUME NEW m \in 0..n, m # n, Defined(m)
      PROVE  Defined(m + 1)
  <2> HIDE DEF start, Round
  <2>1. PICK f : f = Rounds(f, m)
    BY <1>3
  <2> DEFINE g == [k \in 0..m + 1 |-> IF k = m + 1 THEN Round(f[m], m + 1) ELSE f[k]]
  <2>2. ASSUME NEW k \in 0..m + 1
        PROVE  g[k] = Rounds(g, m + 1)[k]
    <3>1. CASE k = 0
      BY <1>1, <1>3, <2>1, <3>1
    <3>2. CASE k \in 1..m
      <4>1. k - 1 \in 0..m /\ k \in 0..m /\ k # m + 1 /\ k - 1 # m + 1
        BY <1>1, <1>3, <3>2
      <4>2. g[k] = f[k] /\ g[k - 1] = f[k - 1]
        BY <1>1, <4>1
      <4>3. Rounds(g, m + 1)[k] = Round(g[k - 1], k)
        BY <1>1, <3>2, <4>1
      <4>4. Rounds(f, m)[k] = Round(f[k - 1], k)
        BY <1>1, <3>2, <4>1
      <4> HIDE DEF g, Rounds
      <4> QED
        BY <2>1, <4>2, <4>3, <4>4
    <3>3. CASE k = m + 1
      <4>1. g[m + 1] = Round(f[m], m + 1) /\ g[m] = f[m]
        BY <1>1, <1>3
      <4>2. Rounds(g, m + 1)[m + 1] = Round(g[(m + 1) - 1], m + 1)
        BY <1>1, <1>3
      <4>3. (m + 1) - 1 = m
        BY <1>1
      <4> HIDE DEF g, Rounds
      <4> QED
        BY <3>3, <4>1, <4>2, <4>3
    <3> QED
      BY <1>1, <1>3, <3>1, <3>2, <3>3
  <2>3. g = Rounds(g, m + 1)
    BY <2>2
  <2> HIDE DEF g, Rounds
  <2> QED
    BY <2>3
<1>4. Defined(n)
  <2> HIDE DEF Defined
  <2>1. 0 \in T /\ \A m \in 0..n : m # n /\ m \in T => m + 1 \in T
    BY <1>1, <1>2, <1>3
  <2> HIDE DEF T
  <2>2. \A m \in 0..n : m \in T
    BY <1>1, <2>1, CountingUp, Zenon
  <2> QED
    BY <1>1, <2>2 DEF T
<1>5. PICK f : /\ f = Rounds(f, n)
               /\ Rearranged(s, folders, mainPosition) = [f[n] EXCEPT !.main = mainPosition + 1]
  BY <1>4, Zenon DEF Rearranged, n
<1> DEFINE g == Rounds(f, n)
<1>6. g[0] = start /\ \A k \in 1..n : g[k] = Round(f[k - 1], k)
  <2> HIDE DEF start, Round
  <2> QED
    BY <1>1
<1> HIDE DEF Rounds, g
<1>7. f = g
  BY <1>5, Zenon DEF g
<1> QED
  BY <1>5, <1>6, <1>7, Zenon DEF n, PlaceLoop

\* After k rounds of the first loop: the rows that it has not reached are as
\* before, those it has are the main list or folders that stay, and a main
\* list that comes first stays there.
Swept(t, s, stay, k) ==
    /\ TabsExact(t) /\ Len(s.rows) - k <= Len(t.rows)
    /\ \A j \in 1..Len(s.rows) - k : t.rows[j] = s.rows[j]
    /\ \A j \in 1..Len(t.rows) : j > Len(s.rows) - k => t.rows[j] \in stay
    /\ 1 <= Len(s.rows) /\ s.rows[1] = Main => 1 <= Len(t.rows) /\ t.rows[1] = Main

LEMMA SweepStep ==
    ASSUME NEW s, TabsTyped(s), NEW folders, NEW k \in 1..Len(s.rows),
           NEW t, Swept(t, s, {Main} \cup ToSet(folders), k - 1),
           NEW u, u = RemoveRound(t, Len(s.rows) - k + 1, folders)
    PROVE  Swept(u, s, {Main} \cup ToSet(folders), k)
<1> DEFINE stay == {Main} \cup ToSet(folders)
           n == Len(s.rows)
           l == Len(t.rows)
           rows == t.rows
           i == n - k + 1
<1>1. Main \in stay
  OBVIOUS
<1>2. s.rows \in Seq(Tab) /\ t.rows \in Seq(Tab)
  BY DEF TabsTyped, Swept, TabsExact
<1>3. n \in Nat /\ l \in Nat /\ k \in 1..n
  BY <1>2
<1>4. /\ TabsExact(t) /\ n - (k - 1) <= l
      /\ \A j \in 1..n - (k - 1) : rows[j] = s.rows[j]
      /\ \A j \in 1..l : j > n - (k - 1) => rows[j] \in stay
      /\ 1 <= n /\ s.rows[1] = Main => 1 <= l /\ rows[1] = Main
  BY DEF Swept
<1> HIDE DEF l, n, rows, stay
<1>5. i \in 1..l /\ n - (k - 1) = i /\ n - k = i - 1
  BY <1>3, <1>4
<1>6. CASE rows[i] \in stay
  <2>1. u = t
    BY <1>6, Zenon DEF RemoveRound, rows, n, stay
  <2>2. n - k <= l
    BY <1>3, <1>5
  <2>3. \A j \in 1..n - k : rows[j] = s.rows[j]
    BY <1>3, <1>4, <1>5
  <2>4. \A j \in 1..l : j > n - k => rows[j] \in stay
    BY <1>3, <1>4, <1>5, <1>6
  <2> QED
    BY <1>4, <2>1, <2>2, <2>3, <2>4 DEF Swept, n, l, rows, stay
<1>7. CASE rows[i] \notin stay
  <2> DEFINE new == u.rows
  <2>1. u = removeRange(t, i, i)
    BY <1>7, Zenon DEF RemoveRound, rows, n, stay
  <2>2. i \in 1..Len(t.rows) /\ i \in i..Len(t.rows)
    BY <1>3, <1>5 DEF l, rows
  <2>3. TabsExact(u) /\ new = Cut(rows, i - 1, i)
    <3> HIDE DEF i
    <3> QED
      BY <1>4, <2>1, <2>2, RemoveRangeExact DEF rows
  <2>4. /\ Len(new) = l - (i - (i - 1))
        /\ \A j \in 1..l - (i - (i - 1)) :
            new[j] = IF j <= i - 1 THEN rows[j] ELSE rows[j + (i - (i - 1))]
    <3> DEFINE a == i - 1
               b == i
    <3>1. rows \in Seq(Tab) /\ a \in 0..Len(rows) /\ b \in a..Len(rows)
      BY <1>2, <1>3, <1>5 DEF l, rows
    <3> HIDE DEF a, b
    <3>2. /\ Len(Cut(rows, a, b)) = Len(rows) - (b - a)
          /\ \A j \in 1..Len(rows) - (b - a) :
                Cut(rows, a, b)[j] = IF j <= a THEN rows[j] ELSE rows[j + (b - a)]
      BY ONLY <3>1, RangeCut
    <3>3. new = Cut(rows, a, b) /\ l = Len(rows)
      BY <2>3 DEF a, b, l, rows
    <3> HIDE DEF new, l
    <3>4. /\ Len(new) = l - (b - a)
          /\ \A j \in 1..l - (b - a) :
                new[j] = IF j <= a THEN rows[j] ELSE rows[j + (b - a)]
      BY ONLY <3>2, <3>3
    <3> QED
      BY <3>4 DEF a, b
  <2>5. i - (i - 1) = 1
    BY <1>3, <1>5
  <2>6. /\ Len(new) = l - 1
        /\ \A j \in 1..l - 1 : new[j] = IF j <= i - 1 THEN rows[j] ELSE rows[j + 1]
    <3> HIDE DEF new, i
    <3> QED
      BY ONLY <2>4, <2>5
  <2> HIDE DEF new
  <2>7. n - k <= l - 1
    BY <1>3, <1>5
  <2>8. ASSUME NEW j \in 1..n - k
        PROVE  new[j] = s.rows[j]
    <3>1. j \in 1..l - 1 /\ j <= i - 1 /\ j \in 1..n - (k - 1)
      BY <1>3, <1>5
    <3> QED
      BY <1>4, <2>6, <3>1
  <2>9. ASSUME NEW j \in 1..l - 1, j > n - k
        PROVE  new[j] \in stay
    <3>1. j + 1 \in 1..l /\ j + 1 > n - (k - 1) /\ ~(j <= i - 1)
      BY <1>3, <1>5, <2>9
    <3> QED
      BY <1>4, <2>6, <3>1
  <2>10. ASSUME 1 <= n, s.rows[1] = Main
         PROVE  1 <= l - 1 /\ new[1] = Main
    <3>1. 1 <= l /\ rows[1] = Main
      BY <1>4, <2>10
    <3>2. i # 1
      BY <1>1, <1>7, <3>1
    <3>3. 1 \in 1..l - 1 /\ 1 <= i - 1
      BY <1>3, <1>5, <3>2
    <3> QED
      BY <2>6, <3>1, <3>3
  <2> QED
    BY <2>3, <2>6, <2>7, <2>8, <2>9, <2>10 DEF Swept, n, new, stay
<1> QED
  BY <1>6, <1>7

\* The first loop leaves the rows of the main list and of folders that stay.
LEMMA SweepExact ==
    ASSUME NEW s, TabsExact(s), NEW folders, NEW r, r = RemoveRemoved(s, folders)
    PROVE  /\ TabsExact(r)
           /\ \A j \in 1..Len(r.rows) : r.rows[j] \in {Main} \cup ToSet(folders)
           /\ 1 <= Len(s.rows) /\ s.rows[1] = Main => 1 <= Len(r.rows) /\ r.rows[1] = Main
<1> DEFINE n == Len(s.rows)
           stay == {Main} \cup ToSet(folders)
<1>1. TabsTyped(s) /\ s.rows \in Seq(Tab)
  BY DEF TabsExact, TabsTyped
<1>2. n \in Nat
  BY <1>1
<1>3. PICK f : RemoveLoop(f, s, folders)
  BY <1>2, RemoveRounds
<1>4. /\ f[0] = s /\ r = f[n]
      /\ \A k \in 1..n : f[k] = RemoveRound(f[k - 1], n - k + 1, folders)
  BY <1>3 DEF RemoveLoop
<1> DEFINE T == {k \in 0..n : Swept(f[k], s, stay, k)}
<1>5. 0 \in T
  <2>1. n - 0 = n
    BY <1>2
  <2>2. Swept(s, s, stay, 0)
    BY <1>2, <2>1 DEF Swept
  <2> QED
    BY <1>2, <1>4, <2>2
<1>6. ASSUME NEW k \in 0..n, k # n, k \in T
      PROVE  k + 1 \in T
  <2>1. k + 1 \in 1..n /\ (k + 1) - 1 = k
    BY <1>2, <1>6
  <2>2. f[k + 1] = RemoveRound(f[k], n - (k + 1) + 1, folders)
    BY <1>4, <2>1
  <2>3. Swept(f[k], s, stay, (k + 1) - 1)
    BY <1>6, <2>1
  <2>4. Swept(f[k + 1], s, stay, k + 1)
    BY ONLY <1>1, <2>1, <2>2, <2>3, SweepStep
  <2> QED
    BY <2>1, <2>4
<1>7. \A k \in 0..n : k \in T
  <2> HIDE DEF T, n
  <2> QED
    BY ONLY <1>2, <1>5, <1>6, CountingUp
<1>8. Swept(r, s, stay, n)
  <2>1. n \in 0..n
    BY <1>2
  <2>2. n \in T
    BY <1>7, <2>1, Zenon
  <2> QED
    BY <1>4, <2>2
<1>9. r.rows \in Seq(Tab) /\ TabsExact(r)
  BY <1>8 DEF Swept, TabsExact, TabsTyped
<1>10. n - n = 0 /\ \A j \in 1..Len(r.rows) : j > 0
  BY <1>2, <1>9
<1>11. \A j \in 1..Len(r.rows) : r.rows[j] \in stay
  BY <1>8, <1>10 DEF Swept
<1> QED
  BY <1>8, <1>9, <1>11 DEF Swept

\* qMin
LEMMA LesserOf ==
    ASSUME NEW a \in Nat, NEW b \in Nat
    PROVE  Min({a, b}) = IF a <= b THEN a ELSE b
<1>1. {a, b} \subseteq Nat /\ {a, b} # {}
  OBVIOUS
<1>2. Min({a, b}) \in {a, b} /\ \A y \in {a, b} : Min({a, b}) <= y
  BY <1>1, MinOfPositions
<1> QED
  BY <1>2

\* The main list is at its place, or the handler has left the list.
LEMMA MoveMainExact ==
    ASSUME NEW s, TabsExact(s), NEW p \in Nat, NEW r, r = MoveMain(s, p)
    PROVE  /\ \/ TabsTyped(r) /\ r.rows = s.rows /\ r.broken = TRUE
              \/ /\ TabsExact(r) /\ p + 1 \in 1..Len(r.rows) /\ r.rows[p + 1] = Main
                 /\ \A j \in 1..Len(r.rows) : \E k \in 1..Len(s.rows) : r.rows[j] = s.rows[k]
           /\ p = 0 /\ 1 <= Len(s.rows) /\ s.rows[1] = Main => r = s
<1> DEFINE rows == s.rows
           n == Len(rows)
           old == IndexOf(rows, Main)
           new == Min({p, n}) + 1
           t == [s EXCEPT !.main = new]
<1>1. /\ TabsTyped(s) /\ s.broken = FALSE /\ Once(rows) /\ TabIndex(s.map, rows)
      /\ TabParts(s) /\ rows \in Seq(Tab) /\ TabMap(s.map)
  BY DEF TabsExact, TabsTyped
<1>2. n \in Nat /\ DOMAIN rows = 1..n
  BY <1>1
<1>3. new = IF p <= n THEN p + 1 ELSE n + 1
  BY <1>2, LesserOf
<1>4. r = IF old = new THEN s ELSE MoveRow(t, old, new)
  BY Zenon DEF MoveMain
<1>5. \/ old = 0 /\ \A i \in 1..n : rows[i] # Main
      \/ old \in 1..n /\ rows[old] = Main
  <2> HIDE DEF rows
  <2> QED
    BY ONLY <1>1, IndexOfRow DEF n
<1> HIDE DEF old, new
<1>6. new \in Nat
  BY <1>2, <1>3
<1>7. /\ TabParts(t) /\ t.rows = rows /\ t.map = s.map /\ t.main = new /\ t.broken = FALSE
  BY <1>1 DEF TabParts
<1> HIDE DEF t, rows
<1>8. TabsTyped(t)
  BY <1>1, <1>6, <1>7 DEF TabsTyped
<1>9. CASE old = new
  <2>1. new = p + 1 /\ p + 1 \in 1..n
    BY <1>2, <1>3, <1>5, <1>9
  <2>2. rows[p + 1] = Main
    BY <1>5, <1>9, <2>1
  <2> QED
    BY <1>4, <1>9, <2>1, <2>2 DEF rows
<1>10. CASE old # new /\ (old \notin 1..n \/ new \notin 1..n)
  <2>1. r = [t EXCEPT !.broken = TRUE]
    BY <1>2, <1>4, <1>7, <1>10, Zenon DEF MoveRow
  <2>2. /\ TabParts(r) /\ r.rows = rows /\ r.map = s.map /\ r.main = new /\ r.broken = TRUE
    BY <1>7, <2>1 DEF TabParts
  <2>3. TabsTyped(r)
    BY <1>1, <1>6, <2>2 DEF TabsTyped
  <2>4. ~(p = 0 /\ 1 <= n /\ rows[1] = Main)
    <3> SUFFICES ASSUME p = 0, 1 <= n, rows[1] = Main PROVE FALSE
      OBVIOUS
    <3>1. 1 \in 1..n /\ new = 1
      BY <1>2, <1>3
    <3>2. old = 1
      BY <1>1, <1>5, <3>1 DEF Once, n
    <3> QED
      BY <1>10, <3>1, <3>2
  <2> QED
    BY <2>2, <2>3, <2>4 DEF rows, n
<1>11. CASE old # new /\ old \in 1..n /\ new \in 1..n
  <2>1. rows[old] = Main /\ new = p + 1
    BY <1>2, <1>3, <1>5, <1>11
  <2>2. r = MoveRow(t, old, new)
    BY <1>4, <1>11
  <2>3. /\ \A i \in 1..n : i # old /\ rows[i] # Main => rows[i] \in DOMAIN s.map /\ s.map[rows[i]] = i
        /\ \A f \in DOMAIN s.map : f # Main => \E i \in 1..n : rows[i] = f
    BY <1>1 DEF TabIndex, n
  <2>4. TabsExact(r) /\ MovedRows(r.rows, rows, old, new)
    <3>1. t.broken = FALSE /\ Once(t.rows) /\ old \in 1..Len(t.rows) /\ new \in 1..Len(t.rows)
      BY <1>1, <1>7, <1>11 DEF n
    <3>2. /\ \A i \in 1..Len(t.rows) : i # old /\ t.rows[i] # Main =>
                t.rows[i] \in DOMAIN t.map /\ t.map[t.rows[i]] = i
          /\ \A f \in DOMAIN t.map : f # Main => \E i \in 1..Len(t.rows) : t.rows[i] = f
      BY <1>7, <2>3 DEF n
    <3>3. t.rows[old] # Main =>
            t.rows[old] \in DOMAIN t.map /\ t.map[t.rows[old]] = new
      BY <1>7, <2>1
    <3>4. TabsExact(r) /\ MovedRows(r.rows, t.rows, old, new)
      BY ONLY <1>8, <2>2, <3>1, <3>2, <3>3, MoveRowExact
    <3> QED
      BY <1>7, <3>4
  <2>5. Len(r.rows) = n /\ r.rows[new] = Main
    BY <1>11, <2>1, <2>4 DEF MovedRows, n
  <2>6. ASSUME NEW j \in 1..n
        PROVE  \E k \in 1..n : r.rows[j] = rows[k]
    <3>1. \/ r.rows[j] = rows[old]
          \/ j + 1 \in 1..n /\ r.rows[j] = rows[j + 1]
          \/ j - 1 \in 1..n /\ r.rows[j] = rows[j - 1]
          \/ r.rows[j] = rows[j]
      BY <1>2, <1>11, <2>4 DEF MovedRows, n
    <3> QED
      BY <1>11, <3>1
  <2>7. ~(p = 0 /\ 1 <= n /\ rows[1] = Main)
    <3> SUFFICES ASSUME p = 0, 1 <= n, rows[1] = Main PROVE FALSE
      OBVIOUS
    <3>1. 1 \in 1..n /\ new = 1
      BY <1>2, <2>1
    <3>2. old = 1
      BY <1>1, <1>11, <2>1, <3>1 DEF Once, n
    <3> QED
      BY <1>11, <3>1, <3>2
  <2> QED
    BY <1>11, <2>1, <2>4, <2>5, <2>6, <2>7 DEF rows, n
<1> QED
  BY <1>9, <1>10, <1>11

\* normalizedIndex: the place of the i-th folder if all are there.
Norm(i, p) == IF i - 1 >= p THEN i + 1 ELSE i

\* What the rounds of the last loop establish.  The folders placed so far are
\* in order, none of them below its place, and the main list is among the
\* rows, first if it was sent first.  A later round can move the main list
\* and pull placed folders up, but never push one down.
Placed(t, folders, p, i) ==
    /\ TabsExact(t)
    /\ \A a \in 1..Len(t.rows) : t.rows[a] \in {Main} \cup ToSet(folders)
    /\ \E a \in 1..Len(t.rows) : t.rows[a] = Main
    /\ \A j \in 1..i : \E a \in 1..Len(t.rows) : t.rows[a] = folders[j] /\ a <= Norm(j, p)
    /\ \A j, k \in 1..i : \A a, b \in 1..Len(t.rows) :
            j < k /\ t.rows[a] = folders[j] /\ t.rows[b] = folders[k] => a < b
    /\ p = 0 => t.rows[1] = Main

\* The row f is put to place; the others keep their order, and those above
\* bound are not pushed down.  q says where they are.
Carried(new, rows, f, place, bound, q) ==
    /\ place \in 1..Len(new) /\ place <= bound /\ new[place] = f
    /\ \A a \in 1..Len(new) : new[a] = f \/ \E b \in 1..Len(rows) : new[a] = rows[b]
    /\ \A a \in 1..Len(rows) : rows[a] # f =>
        /\ q[a] \in 1..Len(new) /\ new[q[a]] = rows[a]
        /\ a < bound => q[a] <= a /\ q[a] < place
    /\ \A a, b \in 1..Len(rows) : rows[a] # f /\ rows[b] # f /\ a < b => q[a] < q[b]

LEMMA CarriedKeepsPlaced ==
    ASSUME NEW folders \in Seq(Folders), Once(folders), NEW p \in Nat,
           NEW i \in 1..Len(folders), NEW t, Placed(t, folders, p, i - 1),
           NEW u, TabsExact(u), NEW place, NEW q,
           Carried(u.rows, t.rows, folders[i], place, Norm(i, p), q)
    PROVE  Placed(u, folders, p, i)
<1> DEFINE f == folders[i]
           rows == t.rows
           new == u.rows
           n == Len(rows)
           m == Len(new)
           stay == {Main} \cup ToSet(folders)
           bound == Norm(i, p)
<1>1. Len(folders) \in Nat /\ \A j \in 1..Len(folders) : folders[j] \in Folders
  OBVIOUS
<1>2. f # Main /\ f \in stay
  <2>1. f \in Folders /\ f \in ToSet(folders)
    BY <1>1 DEF ToSet
  <2> QED
    BY <2>1, FoldersAssumption DEF FoldersAssumption, Main
<1>3. rows \in Seq(Tab) /\ new \in Seq(Tab) /\ Once(new)
  BY DEF Placed, TabsExact, TabsTyped
<1>4. n \in Nat /\ m \in Nat
  BY <1>3
<1>5. /\ \A a \in 1..n : rows[a] \in stay
      /\ \E a \in 1..n : rows[a] = Main
      /\ \A j \in 1..i - 1 : \E a \in 1..n : rows[a] = folders[j] /\ a <= Norm(j, p)
      /\ p = 0 => rows[1] = Main
  BY DEF Placed
<1>6. \A j, k \in 1..i - 1 : \A a, b \in 1..n :
            j < k /\ rows[a] = folders[j] /\ rows[b] = folders[k] => a < b
  BY DEF Placed
<1>7. place \in 1..m /\ place <= bound /\ new[place] = f
  BY DEF Carried
<1>8. \A a \in 1..m : new[a] = f \/ \E b \in 1..n : new[a] = rows[b]
  BY DEF Carried
<1>9. \A a \in 1..n : rows[a] # f =>
        /\ q[a] \in 1..m /\ new[q[a]] = rows[a]
        /\ a < bound => q[a] <= a /\ q[a] < place
  BY DEF Carried
<1>10. \A a, b \in 1..n : rows[a] # f /\ rows[b] # f /\ a < b => q[a] < q[b]
  BY DEF Carried
<1>11. \A a, b \in 1..m : new[a] = new[b] => a = b
  BY <1>3 DEF Once
<1>12. \A j \in 1..i - 1 : /\ j \in 1..Len(folders) /\ folders[j] # f
                           /\ Norm(j, p) \in Nat /\ Norm(j, p) < bound
  BY <1>1 DEF Once, Norm
<1>13. bound \in Nat /\ (p = 0 => bound > 1)
  BY <1>1 DEF Norm
<1> HIDE DEF rows, new, n, m, stay, f, bound
<1>14. \A a \in 1..m : new[a] \in stay
  BY <1>2, <1>5, <1>8
<1>15. \E a \in 1..m : new[a] = Main
  <2>1. PICK a \in 1..n : rows[a] = Main
    BY <1>5
  <2> QED
    BY <1>2, <1>9, <2>1
<1>16. \* where a folder that was placed before is
       ASSUME NEW j \in 1..i - 1
       PROVE  \E a \in 1..n : /\ rows[a] = folders[j] /\ rows[a] # f /\ a <= Norm(j, p)
                              /\ q[a] \in 1..m /\ new[q[a]] = folders[j]
                              /\ q[a] <= a /\ q[a] < place
  <2>1. PICK a \in 1..n : rows[a] = folders[j] /\ a <= Norm(j, p)
    BY <1>5
  <2>2. a < bound
    BY <1>4, <1>12, <1>13, <2>1
  <2> QED
    BY <1>9, <1>12, <2>1, <2>2
<1>17. ASSUME NEW j \in 1..i
       PROVE  \E a \in 1..m : new[a] = folders[j] /\ a <= Norm(j, p)
  <2>1. CASE j = i
    BY <1>7, <2>1 DEF f, bound
  <2>2. CASE j \in 1..i - 1
    <3>1. PICK a \in 1..n : /\ a <= Norm(j, p) /\ q[a] \in 1..m
                            /\ new[q[a]] = folders[j] /\ q[a] <= a
      BY <1>16, <2>2
    <3>2. q[a] <= Norm(j, p)
      BY <1>4, <1>12, <2>2, <3>1
    <3> QED
      BY <3>1, <3>2
  <2> QED
    BY <1>1, <2>1, <2>2
<1>18. ASSUME NEW j \in 1..i, NEW k \in 1..i, NEW a \in 1..m, NEW b \in 1..m, j < k,
              new[a] = folders[j], new[b] = folders[k]
       PROVE  a < b
  <2>1. j \in 1..i - 1
    BY <1>1, <1>18
  <2>2. PICK c \in 1..n : /\ rows[c] = folders[j] /\ rows[c] # f /\ q[c] \in 1..m
                          /\ new[q[c]] = folders[j] /\ q[c] < place
    BY <1>16, <2>1
  <2>3. a = q[c]
    BY <1>11, <1>18, <2>2
  <2>4. CASE k = i
    <3>1. b = place
      BY <1>7, <1>11, <1>18, <2>4 DEF f
    <3> QED
      BY <2>2, <2>3, <3>1
  <2>5. CASE k \in 1..i - 1
    <3>1. PICK d \in 1..n : /\ rows[d] = folders[k] /\ rows[d] # f /\ q[d] \in 1..m
                            /\ new[q[d]] = folders[k]
      BY <1>16, <2>5
    <3>2. b = q[d]
      BY <1>11, <1>18, <3>1
    <3>3. c < d
      BY <1>6, <1>18, <2>1, <2>2, <2>5, <3>1
    <3> QED
      BY <1>10, <2>2, <2>3, <3>1, <3>2, <3>3
  <2> QED
    BY <1>1, <2>4, <2>5
<1>19. p = 0 => new[1] = Main
  <2> SUFFICES ASSUME p = 0 PROVE new[1] = Main
    OBVIOUS
  <2>1. rows[1] = Main /\ 1 < bound
    BY <1>5, <1>13
  <2>2. 1 \in 1..n
    BY <1>4, <1>5
  <2>3. q[1] \in 1..m /\ new[q[1]] = Main /\ q[1] <= 1
    BY <1>2, <1>9, <2>1, <2>2
  <2>4. q[1] = 1
    BY <1>4, <2>3
  <2> QED
    BY <2>3, <2>4
<1> QED
  BY <1>14, <1>15, <1>17, <1>18, <1>19 DEF Placed, new, m, stay

\* The rows have room for a folder that is moved: besides it they hold the
\* main list and the folders placed before.
LEMMA RoomToMove ==
    ASSUME NEW folders \in Seq(Folders), Once(folders), NEW p \in Nat,
           NEW i \in 1..Len(folders), NEW t, Placed(t, folders, p, i - 1),
           NEW old \in 1..Len(t.rows), t.rows[old] = folders[i]
    PROVE  Norm(i, p) \in 1..Len(t.rows)
<1> DEFINE rows == t.rows
           n == Len(rows)
           At(j) == CHOOSE a \in 1..n : rows[a] = IF j = 0 THEN Main ELSE folders[j]
           g == [j \in 0..i |-> At(j)]
<1>1. Len(folders) \in Nat /\ \A j \in 1..Len(folders) : folders[j] \in Folders
  OBVIOUS
<1>2. rows \in Seq(Tab)
  BY DEF Placed, TabsExact, TabsTyped
<1>3. n \in Nat
  BY <1>2
<1>4. ASSUME NEW j \in 0..i
      PROVE  At(j) \in 1..n /\ rows[At(j)] = IF j = 0 THEN Main ELSE folders[j]
  <2>1. \E a \in 1..n : rows[a] = IF j = 0 THEN Main ELSE folders[j]
    <3>1. CASE j = 0
      BY <3>1 DEF Placed
    <3>2. CASE j \in 1..i - 1
      <4>1. j # 0
        BY <1>1, <3>2
      <4> QED
        BY <3>2, <4>1 DEF Placed
    <3>3. CASE j = i
      <4>1. j # 0
        BY <1>1, <3>3
      <4> QED
        BY <3>3, <4>1
    <3> QED
      BY <1>1, <3>1, <3>2, <3>3
  <2> QED
    BY <2>1
<1> HIDE DEF At, n
<1>5. g \in [0..i -> 1..n] /\ \A j \in 0..i : g[j] = At(j)
  BY <1>4
<1> HIDE DEF g
<1>6. ASSUME NEW j \in 0..i, NEW k \in 0..i, j # k
      PROVE  g[j] # g[k]
  <2>1. \A l \in 0..i : l # 0 => l \in 1..Len(folders) /\ folders[l] # Main
    <3>1. \A l \in 0..i : l # 0 => l \in 1..Len(folders)
      BY <1>1
    <3> QED
      BY <1>1, <3>1, FoldersAssumption DEF FoldersAssumption, Main
  <2>2. j # 0 /\ k # 0 => folders[j] # folders[k]
    BY <1>6, <2>1 DEF Once
  <2>3. rows[At(j)] # rows[At(k)]
    BY <1>4, <1>6, <2>1, <2>2
  <2> QED
    BY <1>5, <2>3
<1>7. ~(n < i + 1)
  <2> SUFFICES ASSUME n < i + 1 PROVE FALSE
    OBVIOUS
  <2>1. IsFiniteSet(0..i) /\ Cardinality(0..i) = i + 1
    <3>1. 0 \in Int /\ i \in Int
      BY <1>1
    <3>2. /\ IsFiniteSet(0..i)
          /\ Cardinality(0..i) = IF 0 > i THEN 0 ELSE i - 0 + 1
      BY <3>1, FS_Interval
    <3> QED
      BY <1>1, <3>2
  <2>2. IsFiniteSet(1..n) /\ Cardinality(1..n) = n
    <3>1. 1 \in Int /\ n \in Int
      BY <1>3
    <3>2. /\ IsFiniteSet(1..n)
          /\ Cardinality(1..n) = IF 1 > n THEN 0 ELSE n - 1 + 1
      BY <3>1, FS_Interval
    <3> QED
      BY <1>3, <3>2
  <2>3. Cardinality(1..n) < Cardinality(0..i)
    BY <2>1, <2>2
  <2>4. \E j, k \in 0..i : j # k /\ g[j] = g[k]
    BY ONLY <1>5, <2>1, <2>2, <2>3, FS_PigeonHole, SMTT(30)
  <2> QED
    BY <1>6, <2>4
<1> QED
  BY <1>1, <1>3, <1>7 DEF Norm, n

\* A new folder is inserted.
LEMMA PlaceNew ==
    ASSUME NEW folders \in Seq(Folders), Once(folders), NEW p \in Nat,
           NEW i \in 1..Len(folders), NEW t, Placed(t, folders, p, i - 1),
           IndexOf(t.rows, folders[i]) = 0,
           NEW u, u = PlaceFolder(t, folders, p, i)
    PROVE  Placed(u, folders, p, i)
<1> DEFINE f == folders[i]
           rows == t.rows
           n == Len(rows)
           bound == Norm(i, p)
           target == Min({bound, n + 1})
           new == InsertAt(rows, target, f)
           v == [t EXCEPT !.rows = new]
           q == [a \in 1..n |-> IF a < target THEN a ELSE a + 1]
<1>1. /\ TabsTyped(t) /\ t.broken = FALSE /\ Once(rows) /\ TabIndex(t.map, rows)
      /\ TabParts(t) /\ rows \in Seq(Tab) /\ TabMap(t.map) /\ t.main \in Nat
  BY DEF Placed, TabsExact, TabsTyped
<1>2. n \in Nat /\ f \in Folders /\ i \in Nat
  BY <1>1
<1>3. f \in Tab /\ f # Main
  BY <1>2, FoldersAssumption DEF FoldersAssumption, Main, Tab
<1>4. \A a \in 1..n : rows[a] # f
  <2>1. 0 \notin 1..n
    BY <1>2
  <2> QED
    BY <1>1, <2>1, IndexOfRow
<1>5. bound \in Nat /\ bound >= 1 /\ bound # 0
  BY <1>2 DEF Norm
<1>6. u = updateChatFolderIndexes(v, target, Len(new))
  BY <1>1, <1>5, Zenon DEF PlaceFolder, Norm
<1> HIDE DEF bound
<1>7. target = IF bound <= n + 1 THEN bound ELSE n + 1
  BY <1>2, <1>5, LesserOf
<1> HIDE DEF target
<1>8. target \in 1..n + 1 /\ target <= bound
  BY <1>2, <1>5, <1>7
<1>9. /\ new \in Seq(Tab) /\ Len(new) = n + 1
      /\ \A k \in 1..n + 1 : new[k] = IF k < target THEN rows[k]
                                      ELSE IF k = target THEN f ELSE rows[k - 1]
  <2> HIDE DEF rows, f
  <2> QED
    BY ONLY <1>1, <1>3, <1>8, InsertAtProperties DEF n
<1> HIDE DEF new
<1>10. /\ TabParts(v) /\ v.rows = new /\ v.map = t.map /\ v.main = t.main /\ v.broken = FALSE
  BY <1>1 DEF TabParts
<1> HIDE DEF v, rows, f, n
<1>11. \A a, b \in 1..n : rows[a] = rows[b] => a = b
  BY <1>1 DEF Once, n
<1>12. Once(new)
  <2> SUFFICES ASSUME NEW a \in 1..n + 1, NEW b \in 1..n + 1, new[a] = new[b], a < b
               PROVE  FALSE
    BY <1>2, <1>9 DEF Once
  <2>1. \A k \in 1..n + 1 : /\ k < target => k \in 1..n /\ new[k] = rows[k]
                            /\ k = target => new[k] = f
                            /\ k > target => k - 1 \in 1..n /\ new[k] = rows[k - 1]
    BY <1>2, <1>8, <1>9
  <2>2. CASE b < target
    <3>1. a < target
      BY <1>2, <1>8, <2>2
    <3>2. rows[a] = rows[b] /\ a \in 1..n /\ b \in 1..n
      BY <2>1, <2>2, <3>1
    <3>3. a = b
      BY <1>11, <3>2
    <3> QED
      BY <1>2, <3>3
  <2>3. CASE b = target
    BY <1>4, <2>1, <2>3
  <2>4. CASE b > target /\ a < target
    <3>0. rows[a] = rows[b - 1] /\ a \in 1..n /\ b - 1 \in 1..n
      BY <2>1, <2>4
    <3>1. a = b - 1
      BY <1>11, <3>0
    <3> QED
      BY <1>2, <1>8, <2>4, <3>1
  <2>5. CASE b > target /\ a = target
    BY <1>4, <2>1, <2>5
  <2>6. CASE b > target /\ a > target
    <3>0. rows[a - 1] = rows[b - 1] /\ a - 1 \in 1..n /\ b - 1 \in 1..n
      BY <2>1, <2>6
    <3>1. a - 1 = b - 1
      BY <1>11, <3>0
    <3> QED
      BY <1>2, <3>1
  <2> QED
    BY <1>2, <1>8, <2>2, <2>3, <2>4, <2>5, <2>6
<1>13. TabsTyped(v) /\ Once(v.rows)
  BY <1>1, <1>9, <1>10, <1>12 DEF TabsTyped
<1>14. /\ TabsTyped(u) /\ u.rows = new /\ u.broken = FALSE
       /\ Patched(u.map, t.map, new, target, n + 1)
  <2>1. target \in 1..Len(v.rows) + 1 /\ n + 1 \in 0..Len(v.rows)
    BY <1>2, <1>8, <1>9, <1>10
  <2>2. u = updateChatFolderIndexes(v, target, n + 1)
    BY <1>6, <1>9
  <2> DEFINE to == n + 1
  <2>3. to \in 0..Len(v.rows) /\ u = updateChatFolderIndexes(v, target, to)
    BY <2>1, <2>2
  <2> HIDE DEF to
  <2>4. /\ TabsTyped(u) /\ u.rows = v.rows /\ u.broken = v.broken
        /\ Patched(u.map, v.map, v.rows, target, to)
    BY ONLY <1>13, <2>1, <2>3, UpdatePatches
  <2> QED
    BY <1>10, <2>4 DEF to
<1>15. TabsExact(u)
  <2> DEFINE to == n + 1
             old == t.map
  <2>1. TabsTyped(u) /\ u.broken = FALSE /\ Once(u.rows) /\ Patched(u.map, old, u.rows, target, to)
    BY <1>12, <1>14
  <2>2. target \in Int /\ to \in Int /\ target..to \subseteq 1..Len(u.rows)
    BY <1>2, <1>8, <1>9, <1>14
  <2>3. ASSUME NEW a \in (1..Len(u.rows)) \ (target..to), u.rows[a] # Main
        PROVE  u.rows[a] \in DOMAIN old /\ old[u.rows[a]] = a
    <3>1. a \in 1..n /\ a < target /\ a \in 1..n + 1
      BY <1>2, <1>8, <1>9, <1>14
    <3>2. u.rows[a] = rows[a]
      BY <1>9, <1>14, <3>1
    <3> QED
      BY <1>1, <2>3, <3>1, <3>2 DEF TabIndex, n
  <2>4. ASSUME NEW g \in DOMAIN old, g # Main
        PROVE  \E a \in 1..Len(u.rows) : u.rows[a] = g
    <3>1. PICK a \in 1..n : rows[a] = g
      BY <1>1, <2>4 DEF TabIndex, n
    <3>2. CASE a < target
      <4>1. a \in 1..n + 1 /\ new[a] = g
        BY <1>2, <1>9, <3>1, <3>2
      <4> QED
        BY <1>9, <1>14, <4>1
    <3>3. CASE a >= target
      <4>1. a + 1 \in 1..n + 1 /\ ~(a + 1 < target) /\ a + 1 # target /\ (a + 1) - 1 = a
        BY <1>2, <1>8, <3>3
      <4>2. new[a + 1] = g
        BY <1>9, <3>1, <4>1
      <4> QED
        BY <1>9, <1>14, <4>1, <4>2
    <3> QED
      BY <1>2, <1>8, <3>2, <3>3
  <2> HIDE DEF to, old
  <2> QED
    BY ONLY <2>1, <2>2, <2>3, <2>4, PatchedExact
<1>16. /\ \A a \in 1..n : q[a] = IF a < target THEN a ELSE a + 1
  OBVIOUS
<1> HIDE DEF q
<1>17. Carried(u.rows, rows, f, target, bound, q)
  <2>1. target \in 1..Len(new) /\ new[target] = f
    BY <1>2, <1>8, <1>9
  <2>2. ASSUME NEW a \in 1..Len(new)
        PROVE  new[a] = f \/ \E b \in 1..n : new[a] = rows[b]
    <3>1. \/ new[a] = f
          \/ a \in 1..n /\ new[a] = rows[a]
          \/ a - 1 \in 1..n /\ new[a] = rows[a - 1]
      BY <1>2, <1>8, <1>9
    <3> QED
      BY <3>1
  <2>3. ASSUME NEW a \in 1..n
        PROVE  /\ q[a] \in 1..Len(new) /\ new[q[a]] = rows[a]
               /\ a < bound => q[a] <= a /\ q[a] < target
    <3>1. CASE a < target
      BY <1>2, <1>8, <1>9, <1>16, <3>1
    <3>2. CASE a >= target
      <4>1. q[a] = a + 1 /\ a + 1 \in 1..n + 1 /\ (a + 1) - 1 = a
        BY <1>2, <1>8, <1>16, <3>2
      <4>2. new[a + 1] = rows[a]
        BY <1>2, <1>8, <1>9, <3>2, <4>1
      <4>3. ~(a < bound)
        BY <1>2, <1>5, <1>7, <3>2
      <4> QED
        BY <1>9, <4>1, <4>2, <4>3
    <3> QED
      BY <1>2, <1>8, <3>1, <3>2
  <2>4. \A a, b \in 1..n : a < b => q[a] < q[b]
    BY <1>2, <1>8, <1>16
  <2> QED
    BY <1>8, <1>14, <2>1, <2>2, <2>3, <2>4 DEF Carried, n
<1> QED
  BY <1>15, <1>17, CarriedKeepsPlaced DEF rows, f, bound

\* A folder that has a row is moved, or it is in its place.
LEMMA PlaceOld ==
    ASSUME NEW folders \in Seq(Folders), Once(folders), NEW p \in Nat,
           NEW i \in 1..Len(folders), NEW t, Placed(t, folders, p, i - 1),
           NEW old, old = IndexOf(t.rows, folders[i]),
           old \in 1..Len(t.rows), t.rows[old] = folders[i],
           NEW u, u = PlaceFolder(t, folders, p, i)
    PROVE  Placed(u, folders, p, i)
<1> DEFINE f == folders[i]
           rows == t.rows
           n == Len(rows)
           bound == Norm(i, p)
           target == Min({bound, n + 1})
           map == Inserted(t.map, [j \in {target} |-> f], target, target)
           v == [t EXCEPT !.map = map]
           q == [a \in 1..n |-> Place(a, old, bound)]
<1>1. /\ TabsExact(t) /\ TabsTyped(t) /\ t.broken = FALSE /\ Once(rows) /\ TabIndex(t.map, rows)
      /\ TabParts(t) /\ rows \in Seq(Tab) /\ TabMap(t.map) /\ t.main \in Nat
  BY DEF Placed, TabsExact, TabsTyped
<1>2. n \in Nat /\ f \in Folders /\ i \in Nat /\ old \in 1..n /\ rows[old] = f
  BY <1>1
<1>3. f \in Tab /\ f # Main
  BY <1>2, FoldersAssumption DEF FoldersAssumption, Main, Tab
<1>4. bound \in 1..n
  BY RoomToMove
<1>5. CASE old = bound
  <2>1. u = t
    BY <1>5, Zenon DEF PlaceFolder, Norm
  <2> DEFINE id == [a \in 1..n |-> a]
  <2>2. \A a \in 1..n : id[a] = a
    OBVIOUS
  <2> HIDE DEF id, rows, n, f, bound
  <2>3. Carried(rows, rows, f, old, bound, id)
    BY <1>2, <1>4, <1>5, <2>2, SMTT(30) DEF Carried, n
  <2> QED
    BY <1>1, <2>1, <2>3, CarriedKeepsPlaced DEF rows, f, bound
<1>6. CASE old # bound
  <2>1. u = MoveRow(v, old, target)
    <3>1. old # 0
      BY <1>2
    <3> QED
      BY <1>1, <1>6, <3>1, Zenon DEF PlaceFolder, Norm
  <2> HIDE DEF bound
  <2>2. target = bound
    <3>1. target = IF bound <= n + 1 THEN bound ELSE n + 1
      BY <1>2, <1>4, LesserOf
    <3> QED
      BY <1>2, <1>4, <3>1
  <2> HIDE DEF target
  <2> DEFINE one == [j \in {target} |-> f]
  <2>3. \A j \in target..target : j = target /\ one[j] = f
    BY <1>4, <2>2
  <2> HIDE DEF one
  <2>4. Patched(map, t.map, one, target, target)
    <3>1. target \in Nat /\ target \in Int
      BY <1>4, <2>2
    <3>2. \A j, k \in target..target : one[j] = one[k] => j = k
      BY <2>3
    <3> QED
      BY ONLY <3>1, <3>2, InsertedPatches DEF one
  <2> HIDE DEF map
  <2>5. target \in target..target
    BY <1>4, <2>2
  <2>6. f \in DOMAIN map /\ map[f] = target
    BY <1>3, <2>3, <2>4, <2>5 DEF Patched
  <2>7. \A g \in DOMAIN map : g = f \/ (g \in DOMAIN t.map /\ map[g] = t.map[g])
    BY <2>3, <2>4 DEF Patched
  <2>8. \A g \in DOMAIN t.map : g # Main /\ g # f => g \in DOMAIN map /\ map[g] = t.map[g]
    BY <2>3, <2>4 DEF Patched
  <2>9. /\ TabParts(v) /\ v.rows = rows /\ v.map = map /\ v.main = t.main /\ v.broken = FALSE
    BY <1>1 DEF TabParts
  <2> HIDE DEF v, rows, f, n
  <2>10. TabMap(map)
    <3>1. target \in Nat
      BY <1>4, <2>2
    <3> QED
      BY <1>1, <1>3, <2>6, <2>7, <3>1 DEF TabMap
  <2>11. TabsTyped(v)
    BY <1>1, <2>9, <2>10 DEF TabsTyped
  <2>12. ASSUME NEW a \in 1..n, a # old, rows[a] # Main
         PROVE  rows[a] \in DOMAIN map /\ map[rows[a]] = a
    <3>1. rows[a] # f
      BY <1>1, <1>2, <2>12 DEF Once, n
    <3>2. rows[a] \in DOMAIN t.map /\ t.map[rows[a]] = a
      BY <1>1, <2>12 DEF TabIndex, n
    <3> QED
      BY <2>8, <2>12, <3>1, <3>2
  <2>13. ASSUME NEW g \in DOMAIN map, g # Main
         PROVE  \E a \in 1..n : rows[a] = g
    <3>1. CASE g = f
      BY <1>2, <3>1
    <3>2. CASE g # f
      <4>1. g \in DOMAIN t.map
        BY <2>7, <3>2
      <4> QED
        BY <1>1, <2>13, <4>1 DEF TabIndex, n
    <3> QED
      BY <3>1, <3>2
  <2>14. TabsExact(u) /\ MovedRows(u.rows, rows, old, target)
    <3>1. /\ v.broken = FALSE /\ Once(v.rows)
          /\ old \in 1..Len(v.rows) /\ target \in 1..Len(v.rows)
      BY <1>1, <1>2, <1>4, <2>2, <2>9 DEF n
    <3>2. \A a \in 1..Len(v.rows) : a # old /\ v.rows[a] # Main =>
                v.rows[a] \in DOMAIN v.map /\ v.map[v.rows[a]] = a
      BY <2>9, <2>12 DEF n
    <3>3. v.rows[old] # Main =>
            v.rows[old] \in DOMAIN v.map /\ v.map[v.rows[old]] = target
      BY <1>2, <2>6, <2>9
    <3>4. \A g \in DOMAIN v.map : g # Main => \E a \in 1..Len(v.rows) : v.rows[a] = g
      BY <2>9, <2>13 DEF n
    <3>5. TabsExact(u) /\ MovedRows(u.rows, v.rows, old, target)
      BY ONLY <2>1, <2>11, <3>1, <3>2, <3>3, <3>4, MoveRowExact
    <3> QED
      BY <2>9, <3>5
  <2>15. Carried(u.rows, rows, f, bound, bound, q)
    <3> DEFINE new == u.rows
    <3>1. MovedRows(new, rows, old, bound)
      BY <2>2, <2>14
    <3>2. /\ \A k \in 1..n : Place(k, old, bound) \in 1..n /\ new[Place(k, old, bound)] = rows[k]
          /\ \A k \in 1..n : \E j \in 1..n : Place(j, old, bound) = k
      <4>1. rows \in Seq(Tab) /\ old \in 1..Len(rows) /\ bound \in 1..Len(rows)
        BY <1>1, <1>2, <1>4 DEF n
      <4> HIDE DEF new
      <4>2. \A k \in 1..Len(rows) : /\ Place(k, old, bound) \in 1..Len(rows)
                                    /\ new[Place(k, old, bound)] = rows[k]
        BY ONLY <3>1, <4>1, MovedPlaces
      <4>3. \A k \in 1..Len(rows) : \E j \in 1..Len(rows) : Place(j, old, bound) = k
        BY ONLY <3>1, <4>1, MovedPlaces
      <4> QED
        BY <4>2, <4>3 DEF n
    <3>3. Len(new) = n
      BY <3>1 DEF MovedRows, n
    <3> HIDE DEF new
    <3>4. \A a \in 1..n : q[a] = Place(a, old, bound)
      OBVIOUS
    <3> HIDE DEF q
    <3>5. new[bound] = f
      BY <1>2, <3>2 DEF Place
    <3>6. \A a \in 1..n : \E b \in 1..n : new[a] = rows[b]
      BY <3>2, SMTT(30)
    <3>7. ASSUME NEW a \in 1..n, rows[a] # f
          PROVE  /\ q[a] \in 1..n /\ new[q[a]] = rows[a]
                 /\ a < bound => q[a] <= a /\ q[a] < bound
      <4>1. a # old
        BY <1>2, <3>7
      <4>2. a < bound => Place(a, old, bound) <= a /\ Place(a, old, bound) < bound
        BY <1>2, <1>4, <4>1 DEF Place
      <4> QED
        BY <3>2, <3>4, <4>2
    <3>8. ASSUME NEW a \in 1..n, NEW b \in 1..n, rows[a] # f, rows[b] # f, a < b
          PROVE  q[a] < q[b]
      <4>1. a # old /\ b # old
        BY <1>2, <3>8
      <4>2. Place(a, old, bound) < Place(b, old, bound)
        BY <1>2, <1>4, <3>8, <4>1 DEF Place
      <4> QED
        BY <3>4, <4>2
    <3>9. bound <= bound
      BY <1>4
    <3> QED
      BY <1>4, <3>3, <3>5, <3>6, <3>7, <3>8, <3>9 DEF Carried, new, n
  <2> QED
    BY <2>14, <2>15, CarriedKeepsPlaced DEF rows, f, bound
<1> QED
  BY <1>5, <1>6

\* The rows are the folders in order, with the main list somewhere.
TabsInOrder(rows, folders) ==
    \E m \in 1..Len(rows) : rows[m] = Main /\ RemoveAt(rows, m) = folders

\* When all folders are placed, they and the main list are the rows.
LEMMA PlacedInOrder ==
    ASSUME NEW folders \in Seq(Folders), Once(folders), NEW p \in Nat,
           NEW t, Placed(t, folders, p, Len(folders))
    PROVE  TabsInOrder(t.rows, folders)
<1> DEFINE rows == t.rows
           n == Len(rows)
           c == Len(folders)
<1>1. rows \in Seq(Tab) /\ Once(rows)
  BY DEF Placed, TabsExact, TabsTyped
<1>2. n \in Nat /\ c \in Nat /\ \A j \in 1..c : folders[j] \in Folders
  BY <1>1
<1>3. \A j \in 1..c : folders[j] # Main
  BY <1>2, FoldersAssumption DEF FoldersAssumption, Main
<1>4. /\ \A a \in 1..n : rows[a] \in {Main} \cup ToSet(folders)
      /\ \A j \in 1..c : \E a \in 1..n : rows[a] = folders[j]
      /\ \E a \in 1..n : rows[a] = Main
  BY DEF Placed
<1>5. \A j, k \in 1..c : \A a, b \in 1..n :
            j < k /\ rows[a] = folders[j] /\ rows[b] = folders[k] => a < b
  BY DEF Placed
<1>6. \A a, b \in 1..n : rows[a] = rows[b] => a = b
  BY <1>1 DEF Once
<1>7. \A a \in 1..n : rows[a] # Main => \E j \in 1..c : rows[a] = folders[j]
  <2>1. \A x \in ToSet(folders) : \E j \in 1..c : x = folders[j]
    BY DEF ToSet
  <2> QED
    BY <1>4, <2>1
<1>8. PICK m \in 1..n : rows[m] = Main
  BY <1>4
<1> HIDE DEF c
<1> DEFINE q == RemoveAt(rows, m)
           Up(a) == IF a < m THEN a ELSE a + 1
           h == [j \in 1..c |-> CHOOSE a \in 1..n - 1 : q[a] = folders[j]]
<1>9. /\ q \in Seq(Tab) /\ Len(q) = n - 1
      /\ \A a \in 1..n - 1 : q[a] = rows[Up(a)] /\ Up(a) \in 1..n /\ Up(a) # m
  <2>1. /\ q \in Seq(Tab) /\ Len(q) = n - 1
        /\ \A a \in 1..n - 1 : q[a] = IF a < m THEN rows[a] ELSE rows[a + 1]
    BY <1>1, RemoveAtProperties
  <2> HIDE DEF q, n
  <2>2. ASSUME NEW a \in 1..n - 1
        PROVE  q[a] = rows[Up(a)] /\ Up(a) \in 1..n /\ Up(a) # m
    <3>1. CASE a < m
      BY <1>2, <2>1, <3>1
    <3>2. CASE ~(a < m)
      <4>1. q[a] = rows[a + 1] /\ Up(a) = a + 1
        BY <2>1, <3>2
      <4> QED
        BY <1>2, <3>2, <4>1
    <3> QED
      BY <3>1, <3>2
  <2> QED
    BY <2>1, <2>2
<1>10. \A a \in 1..n : a # m => \E b \in 1..n - 1 : Up(b) = a
  <2> SUFFICES ASSUME NEW a \in 1..n, a # m PROVE \E b \in 1..n - 1 : Up(b) = a
    OBVIOUS
  <2> HIDE DEF n
  <2>1. CASE a < m
    <3>1. a \in 1..n - 1 /\ Up(a) = a
      BY <1>2, <2>1
    <3> QED
      BY <3>1
  <2>2. CASE a > m
    <3>1. a - 1 \in 1..n - 1 /\ Up(a - 1) = a
      BY <1>2, <2>2
    <3> QED
      BY <3>1
  <2> QED
    BY <1>2, <2>1, <2>2
<1>11. \A a, b \in 1..n - 1 : Up(a) < Up(b) => a < b
  <2> HIDE DEF n
  <2> QED
    BY <1>2
<1>12. \A a, b \in 1..n - 1 : Up(a) = Up(b) => a = b
  <2> HIDE DEF n
  <2> QED
    BY <1>2
<1> HIDE DEF rows, n, q, Up
<1>13. ASSUME NEW j \in 1..c
       PROVE  h[j] \in 1..n - 1 /\ q[h[j]] = folders[j]
  <2>1. PICK a \in 1..n : rows[a] = folders[j]
    BY <1>4
  <2>2. a # m
    BY <1>3, <1>8, <2>1
  <2>3. PICK b \in 1..n - 1 : Up(b) = a
    BY <1>10, <2>2
  <2>4. q[b] = folders[j]
    BY <1>9, <2>1, <2>3
  <2> QED
    BY <2>4
<1>14. h \in [1..c -> 1..n - 1]
  BY <1>13
<1> HIDE DEF h
<1>15. ASSUME NEW j \in 1..c, NEW k \in 1..c, j < k
       PROVE  h[j] < h[k]
  <2>1. /\ rows[Up(h[j])] = folders[j] /\ Up(h[j]) \in 1..n
        /\ rows[Up(h[k])] = folders[k] /\ Up(h[k]) \in 1..n
    BY <1>9, <1>13
  <2>2. Up(h[j]) < Up(h[k])
    BY <1>5, <1>15, <2>1
  <2> QED
    BY <1>11, <1>13, <2>2
<1>16. ASSUME NEW a \in 1..n - 1
       PROVE  \E j \in 1..c : h[j] = a
  <2>1. Up(a) \in 1..n /\ Up(a) # m /\ q[a] = rows[Up(a)]
    BY <1>9
  <2>2. rows[Up(a)] # Main
    BY <1>6, <1>8, <2>1
  <2>3. PICK j \in 1..c : rows[Up(a)] = folders[j]
    BY <1>7, <2>1, <2>2
  <2>4. rows[Up(h[j])] = rows[Up(a)] /\ Up(h[j]) \in 1..n
    BY <1>9, <1>13, <2>3
  <2>5. Up(h[j]) = Up(a)
    BY <1>6, <2>1, <2>4
  <2> QED
    BY <1>12, <1>13, <2>5
<1>17. n - 1 \in Nat
  BY <1>2
<1>18. c = n - 1 /\ \A j \in 1..c : h[j] = j
  <2> DEFINE l == n - 1
  <2>1. c \in Nat /\ l \in Nat /\ h \in [1..c -> 1..l]
    BY <1>2, <1>14, <1>17
  <2>2. \A j, k \in 1..c : j < k => h[j] < h[k]
    BY <1>15
  <2>3. \A a \in 1..l : \E j \in 1..c : h[j] = a
    BY <1>16
  <2> HIDE DEF l
  <2>4. CountsUp(h, c, l)
    BY <2>1, <2>2, <2>3 DEF CountsUp
  <2>5. c = l /\ \A j \in 1..c : h[j] = j
    BY ONLY <2>4, IncreasingOnto
  <2> QED
    BY <2>5 DEF l
<1>19. q = folders
  <2>1. \A j \in 1..c : q[j] = folders[j]
    BY <1>13, <1>18
  <2>2. folders \in Seq(Tab)
    BY DEF Tab
  <2>3. Len(q) = Len(folders) /\ \A j \in 1..Len(q) : q[j] = folders[j]
    BY <1>9, <1>18, <2>1 DEF c
  <2> QED
    BY ONLY <1>9, <2>2, <2>3, SeqEqual
<1> QED
  BY <1>8, <1>19 DEF TabsInOrder, q, rows, n

\* handleChatFoldersUpdated as a whole.
LEMMA RearrangedExact ==
    ASSUME NEW s, TabsExact(s), NEW folders \in Seq(Folders), Once(folders),
           NEW p \in Nat, NEW r, r = Rearranged(s, folders, p)
    PROVE  /\ TabsTyped(r) /\ r.main = p + 1
           /\ \A a \in 1..Len(r.rows) : r.rows[a] \in {Main} \cup ToSet(folders)
           /\ r.broken = FALSE =>
                /\ TabsExact(r)
                /\ TabsInOrder(r.rows, folders)
           /\ p = 0 /\ 1 <= Len(s.rows) /\ s.rows[1] = Main =>
                r.broken = FALSE /\ r.rows[1] = Main
<1> DEFINE c == Len(folders)
           stay == {Main} \cup ToSet(folders)
           s0 == [s EXCEPT !.main = 0]
           removed == RemoveRemoved(s0, folders)
           first == 1 <= Len(s.rows) /\ s.rows[1] = Main
<1>1. c \in Nat /\ p + 1 \in Nat
  OBVIOUS
<1>2. PICK f : PlaceLoop(f, s, folders, p)
  BY <1>1, PlaceRounds
<1>3. /\ f[0] = MoveMain(removed, p)
      /\ \A k \in 1..c : f[k] = PlaceFolder(f[k - 1], folders, p, k)
      /\ r = [f[c] EXCEPT !.main = p + 1]
  BY <1>2, Zenon DEF PlaceLoop
<1>4. TabsExact(s0) /\ s0.rows = s.rows
  <2>1. /\ TabParts(s0) /\ s0.rows = s.rows /\ s0.map = s.map /\ s0.main = 0
        /\ s0.broken = s.broken
    BY DEF TabsExact, TabsTyped, TabParts
  <2> HIDE DEF s0
  <2>2. TabsTyped(s0)
    BY <2>1 DEF TabsExact, TabsTyped
  <2> QED
    BY <2>1, <2>2 DEF TabsExact
<1> HIDE DEF s0
<1>5. /\ TabsExact(removed)
      /\ \A j \in 1..Len(removed.rows) : removed.rows[j] \in stay
      /\ first => 1 <= Len(removed.rows) /\ removed.rows[1] = Main
  BY <1>4, SweepExact
<1> HIDE DEF removed, stay, first
<1> DEFINE t == f[0]
<1>6. /\ \/ TabsTyped(t) /\ t.rows = removed.rows /\ t.broken = TRUE
         \/ /\ TabsExact(t) /\ p + 1 \in 1..Len(t.rows) /\ t.rows[p + 1] = Main
            /\ \A j \in 1..Len(t.rows) : \E k \in 1..Len(removed.rows) :
                    t.rows[j] = removed.rows[k]
      /\ p = 0 /\ 1 <= Len(removed.rows) /\ removed.rows[1] = Main => t = removed
  BY <1>3, <1>5, MoveMainExact
<1> HIDE DEF t
<1>7. CASE t.broken = TRUE
  <2>1. TabsTyped(t) /\ t.rows = removed.rows
    BY <1>6, <1>7 DEF TabsExact
  <2>2. ~(p = 0 /\ first)
    <3> SUFFICES ASSUME p = 0, first PROVE FALSE
      OBVIOUS
    <3>1. t = removed
      BY <1>5, <1>6
    <3> QED
      BY <1>5, <1>7, <3>1 DEF TabsExact
  <2> DEFINE T == {k \in 0..c : f[k] = t}
  <2>3. 0 \in T
    BY <1>1 DEF t
  <2>4. ASSUME NEW k \in 0..c, k # c, k \in T
        PROVE  k + 1 \in T
    <3>1. k + 1 \in 1..c /\ (k + 1) - 1 = k /\ f[k] = t
      BY <1>1, <2>4
    <3>2. f[k + 1] = PlaceFolder(t, folders, p, k + 1)
      BY <1>3, <3>1
    <3>3. PlaceFolder(t, folders, p, k + 1) = t
      BY <1>7 DEF PlaceFolder
    <3> QED
      BY <1>1, <3>1, <3>2, <3>3
  <2>5. \A k \in 0..c : k \in T
    <3> HIDE DEF T, c
    <3> QED
      BY ONLY <1>1, <2>3, <2>4, CountingUp
  <2>6. f[c] = t
    <3>1. c \in 0..c
      BY <1>1
    <3> QED
      BY <2>5, <3>1
  <2>7. /\ TabParts(r) /\ r.rows = t.rows /\ r.map = t.map /\ r.main = p + 1
        /\ r.broken = TRUE
    BY <1>3, <1>7, <2>1, <2>6 DEF TabsTyped, TabParts
  <2>8. TabsTyped(r)
    BY <1>1, <2>1, <2>7 DEF TabsTyped
  <2>9. \A a \in 1..Len(r.rows) : r.rows[a] \in stay
    BY <1>5, <2>1, <2>7
  <2> QED
    BY <2>2, <2>7, <2>8, <2>9 DEF stay, first
<1>8. CASE t.broken # TRUE
  <2>1. /\ TabsExact(t) /\ p + 1 \in 1..Len(t.rows) /\ t.rows[p + 1] = Main
        /\ \A j \in 1..Len(t.rows) : \E k \in 1..Len(removed.rows) :
                t.rows[j] = removed.rows[k]
    BY <1>6, <1>8
  <2> DEFINE T == {k \in 0..c : Placed(f[k], folders, p, k)}
  <2>2. 0 \in T
    <3>1. \A a \in 1..Len(t.rows) : t.rows[a] \in stay
      BY <1>5, <2>1
    <3>2. p = 0 => t.rows[1] = Main
      BY <2>1
    <3>3. Placed(t, folders, p, 0)
      BY <2>1, <3>1, <3>2 DEF Placed, stay
    <3> QED
      BY <1>1, <3>3 DEF t
  <2>3. ASSUME NEW k \in 0..c, k # c, k \in T
        PROVE  k + 1 \in T
    <3> DEFINE i == k + 1
    <3>1. i \in 1..c /\ i - 1 = k /\ Placed(f[k], folders, p, i - 1)
      BY <1>1, <2>3
    <3>2. f[i] = PlaceFolder(f[k], folders, p, i)
      BY <1>3, <3>1
    <3> HIDE DEF i
    <3>3. f[k].rows \in Seq(Tab) /\ Once(f[k].rows)
      BY <3>1 DEF Placed, TabsExact, TabsTyped
    <3> DEFINE old == IndexOf(f[k].rows, folders[i])
    <3>4. old = 0 \/ (old \in 1..Len(f[k].rows) /\ f[k].rows[old] = folders[i])
      BY <3>3, IndexOfRow
    <3>5. Placed(f[i], folders, p, i)
      <4>1. CASE old = 0
        BY <3>1, <3>2, <4>1, PlaceNew
      <4>2. CASE old \in 1..Len(f[k].rows) /\ f[k].rows[old] = folders[i]
        BY <3>1, <3>2, <4>2, PlaceOld
      <4> QED
        BY <3>4, <4>1, <4>2
    <3> QED
      BY <1>1, <3>1, <3>5 DEF i
  <2>4. \A k \in 0..c : k \in T
    <3> HIDE DEF T, c
    <3> QED
      BY ONLY <1>1, <2>2, <2>3, CountingUp
  <2>5. Placed(f[c], folders, p, c)
    <3>1. c \in 0..c
      BY <1>1
    <3> QED
      BY <2>4, <3>1
  <2> DEFINE u == f[c]
  <2> HIDE DEF u
  <2>6. TabsExact(u) /\ u.rows \in Seq(Tab)
    BY <2>5 DEF Placed, TabsExact, TabsTyped, u
  <2>7. /\ TabParts(r) /\ r.rows = u.rows /\ r.map = u.map /\ r.main = p + 1
        /\ r.broken = FALSE
    <3>1. r = [u EXCEPT !.main = p + 1]
      BY <1>3 DEF u
    <3>2. TabParts(u) /\ u.broken = FALSE
      BY <2>6 DEF TabsExact, TabsTyped
    <3> QED
      BY ONLY <3>1, <3>2 DEF TabParts
  <2>8. TabsTyped(r)
    BY <1>1, <2>6, <2>7 DEF TabsTyped, TabsExact
  <2>9. TabsExact(r)
    BY <2>6, <2>7, <2>8 DEF TabsExact
  <2>10. \A a \in 1..Len(r.rows) : r.rows[a] \in stay
    BY <2>5, <2>7 DEF Placed, stay, u
  <2>11. TabsInOrder(u.rows, folders)
    BY <2>5, PlacedInOrder DEF u
  <2>12. p = 0 => r.rows[1] = Main
    BY <2>5, <2>7 DEF Placed, u
  <2> QED
    BY <2>7, <2>8, <2>9, <2>10, <2>11, <2>12 DEF stay, first
<1> QED
  BY <1>7, <1>8

-----------------------------------------------------------------------------
(***************************************************************************)
(* The steps of the tabs                                                   *)
(***************************************************************************)

\* What TDLib sends is a list in which no folder is twice, also when empty.
LEMMA ArrangementsAreLists ==
    /\ \A folders \in Arrangements : folders \in Seq(Folders) /\ Once(folders)
    /\ <<>> \in Arrangements
<1> DEFINE Lists(n) == {s \in [1..n -> Folders] : IsInjective(s)}
           k == Cardinality(Folders)
<1>1. k \in Nat
  BY FoldersAssumption, FS_CardinalityType DEF FoldersAssumption
<1>2. Arrangements = UNION {Lists(n) : n \in 0..k}
  BY DEF Arrangements
<1> HIDE DEF k
<1>3. ASSUME NEW folders \in Arrangements
      PROVE  folders \in Seq(Folders) /\ Once(folders)
  <2>1. PICK n \in 0..k : folders \in Lists(n)
    BY <1>2, <1>3
  <2>2. n \in Nat /\ folders \in [1..n -> Folders]
    BY <1>1, <2>1
  <2>3. folders \in Seq(Folders) /\ Len(folders) = n /\ DOMAIN folders = 1..n
    BY <2>2
  <2>4. IsInjective(folders)
    BY <2>1
  <2> QED
    BY <2>3, <2>4 DEF Once, IsInjective
<1>4. <<>> \in Arrangements
  <2>1. <<>> \in [1..0 -> Folders] /\ IsInjective(<<>>)
    BY DEF IsInjective
  <2>2. 0 \in 0..k
    BY <1>1
  <2> QED
    BY <1>2, <2>1, <2>2
<1> QED
  BY <1>3, <1>4

(***************************************************************************)
(* The inductive invariant of the tabs.  The order that was sent last is   *)
(* no help for the next one: what the loops need of the rows they start    *)
(* from is that every tab is there once and found through the map.         *)
(***************************************************************************)
TabsInv ==
    /\ TabsTypeOK
    /\ ~broken => TabsExact(Rows)
    /\ FoldersInOrder
    /\ RowsHaveModels
    /\ MainTabFirst

LEMMA RowsTyped ==
    ASSUME TabsTypeOK
    PROVE  TabsTyped(Rows) /\ Rows.rows = chatFolders /\ Rows.main = mainChatListIndex
<1>1. /\ DOMAIN Rows = {"rows", "map", "main", "broken"}
      /\ Rows = [x \in DOMAIN Rows |-> Rows[x]]
      /\ Rows.rows = chatFolders /\ Rows.map = chatFoldersIndexMap
      /\ Rows.main = mainChatListIndex /\ Rows.broken = FALSE
  BY DEF Rows
<1> QED
  BY <1>1 DEF TabsTypeOK, TabsTyped, TabParts, TabMap, Tab

LEMMA TabsInitInv == TabsInit => TabsInv
<1> SUFFICES ASSUME TabsInit PROVE TabsInv
  OBVIOUS
<1>1. TabsTypeOK
  <2>1. NothingTold \in [folders: Arrangements, mainPosition: {-1} \cup MainPositions]
    BY ArrangementsAreLists DEF NothingTold
  <2>2. chatFolders \in Seq(Folders \cup {Main})
    BY DEF TabsInit
  <2>3. DOMAIN chatFoldersIndexMap = {}
    BY DEF TabsInit
  <2> QED
    BY <2>1, <2>2, <2>3 DEF TabsInit, TabsTypeOK, TabsSessions
<1>2. Len(chatFolders) = 1 /\ chatFolders[1] = Main /\ DOMAIN chatFoldersIndexMap = {}
  BY DEF TabsInit
<1>3. TabsExact(Rows)
  <2>1. TabsTyped(Rows) /\ Rows.rows = chatFolders
    BY <1>1, RowsTyped
  <2>2. Rows.broken = FALSE /\ Rows.map = chatFoldersIndexMap
    BY DEF Rows
  <2>3. Once(chatFolders)
    BY <1>2 DEF Once
  <2>4. TabIndex(chatFoldersIndexMap, chatFolders)
    BY <1>2 DEF TabIndex
  <2> QED
    BY <2>1, <2>2, <2>3, <2>4 DEF TabsExact
<1>4. FoldersInOrder
  BY DEF TabsInit, FoldersInOrder
<1>5. RowsHaveModels
  BY <1>2 DEF TabsInit, RowsHaveModels, ToSet
<1>6. MainTabFirst
  BY DEF TabsInit, MainTabFirst, NothingTold
<1> QED
  BY <1>1, <1>3, <1>4, <1>5, <1>6 DEF TabsInv

\* A list that starts with the main list, with the folders as the rest.
LEMMA MainThenFolders ==
    ASSUME NEW rows \in Seq(Tab), Once(rows), NEW folders \in Seq(Tab),
           1 <= Len(rows), rows[1] = Main,
           NEW m \in 1..Len(rows), rows[m] = Main, RemoveAt(rows, m) = folders
    PROVE  rows = <<Main>> \o folders
<1> DEFINE n == Len(rows)
           new == <<Main>> \o folders
<1>1. n \in Nat /\ 1 \in 1..n
  OBVIOUS
<1>2. m = 1
  BY <1>1 DEF Once
<1>3. Len(folders) = n - 1 /\ \A a \in 1..n - 1 : folders[a] = rows[a + 1]
  <2>1. /\ Len(folders) = n - 1
        /\ \A a \in 1..n - 1 : folders[a] = IF a < m THEN rows[a] ELSE rows[a + 1]
    BY RemoveAtProperties
  <2>2. \A a \in 1..n - 1 : ~(a < 1)
    BY <1>1
  <2> QED
    BY <1>2, <2>1, <2>2
<1>4. /\ new \in Seq(Tab) /\ Len(new) = 1 + Len(folders) /\ new[1] = Main
      /\ \A a \in 1..Len(folders) : new[a + 1] = folders[a]
  BY DEF Tab
<1> HIDE DEF n, new
<1>5. ASSUME NEW k \in 1..n
      PROVE  rows[k] = new[k]
  <2>1. CASE k = 1
    BY <1>4, <2>1
  <2>2. CASE k # 1
    <3>1. k - 1 \in 1..n - 1 /\ (k - 1) + 1 = k
      BY <1>1, <2>2
    <3>2. new[(k - 1) + 1] = folders[k - 1] /\ folders[k - 1] = rows[(k - 1) + 1]
      BY <1>3, <1>4, <3>1
    <3> QED
      BY <3>1, <3>2
  <2> QED
    BY <2>1, <2>2
<1>6. Len(rows) = Len(new) /\ \A k \in 1..Len(rows) : rows[k] = new[k]
  BY <1>1, <1>3, <1>4, <1>5 DEF n
<1>7. rows = new
  BY ONLY rows \in Seq(Tab), <1>4, <1>6, SeqEqual
<1> QED
  BY <1>7 DEF new

LEMMA UpdatedTabs ==
    ASSUME TabsInv, ~broken, NEW folders \in Arrangements, NEW p \in MainPositions,
           handleChatFoldersUpdated(folders, p)
    PROVE  TabsInv'
<1> DEFINE r == Rearranged(Rows, folders, p)
<1>1. /\ TabsTypeOK /\ TabsExact(Rows) /\ RowsHaveModels /\ MainTabFirst
      /\ p \in Nat /\ folders \in Seq(Folders) /\ Once(folders)
  BY ArrangementsAreLists, FoldersAssumption DEF TabsInv, FoldersAssumption
<1>2. Rows.rows = chatFolders /\ r = Rearranged(Rows, folders, p)
  BY DEF Rows
<1>3. /\ chatFolders' = r.rows /\ chatFoldersIndexMap' = r.map
      /\ mainChatListIndex' = r.main /\ broken' = r.broken
      /\ chatModels' = chatModels \cup ToSet(folders)
      /\ told' = [folders |-> folders, mainPosition |-> p]
      /\ mainFirst' = (mainFirst /\ p = 0)
      /\ UNCHANGED <<tabsRefreshTimerEnabled, timerModels, tabsSession>>
  BY DEF handleChatFoldersUpdated, SetRows, tabsTimerVars
<1> HIDE DEF r
<1>4. /\ TabsTyped(r) /\ r.main = p + 1
      /\ \A a \in 1..Len(r.rows) : r.rows[a] \in {Main} \cup ToSet(folders)
  BY ONLY <1>1, <1>2, RearrangedExact
<1>5. r.broken = FALSE => TabsExact(r)
  BY ONLY <1>1, <1>2, RearrangedExact
<1>6. r.broken = FALSE => TabsInOrder(r.rows, folders)
  BY ONLY <1>1, <1>2, RearrangedExact
<1>7. p = 0 /\ 1 <= Len(Rows.rows) /\ Rows.rows[1] = Main =>
        r.broken = FALSE /\ r.rows[1] = Main
  BY ONLY <1>1, <1>2, RearrangedExact
<1>8. /\ TabParts(r) /\ r.rows \in Seq(Tab) /\ TabMap(r.map)
      /\ r.main \in Nat /\ r.broken \in BOOLEAN /\ DOMAIN r.rows = 1..Len(r.rows)
  BY <1>4 DEF TabsTyped
<1>9. TabsTypeOK'
  <2>1. chatFolders' \in Seq(Folders \cup {Main}) /\ mainChatListIndex' \in Nat
    BY <1>3, <1>8 DEF Tab
  <2>2. /\ DOMAIN chatFoldersIndexMap' \subseteq Folders \cup {Main}
        /\ \A f \in DOMAIN chatFoldersIndexMap' : chatFoldersIndexMap'[f] \in Nat
    BY <1>3, <1>8 DEF TabMap, Tab
  <2>3. ToSet(folders) \subseteq Folders
    BY <1>1 DEF ToSet
  <2>4. chatModels' \subseteq Folders /\ timerModels' \subseteq chatModels'
    BY <1>1, <1>3, <2>3 DEF TabsTypeOK
  <2>5. told' \in [folders: Arrangements, mainPosition: {-1} \cup MainPositions]
    BY <1>3
  <2>6. broken' \in BOOLEAN /\ tabsRefreshTimerEnabled' \in BOOLEAN /\ tabsSession' \in TabsSessions
    BY <1>1, <1>3, <1>8 DEF TabsTypeOK
  <2>7. mainFirst' \in BOOLEAN
    BY <1>3
  <2> QED
    BY <2>1, <2>2, <2>4, <2>5, <2>6, <2>7 DEF TabsTypeOK
<1>10. ~broken' => TabsExact(Rows')
  <2> SUFFICES ASSUME ~broken' PROVE TabsExact(Rows')
    OBVIOUS
  <2>1. r.broken = FALSE
    BY <1>3, <1>8
  <2>2. Rows' = r
    <3>1. Rows' = [rows |-> r.rows, map |-> r.map, main |-> r.main, broken |-> r.broken]
      BY <1>3, <2>1 DEF Rows
    <3> QED
      BY <1>8, <3>1 DEF TabParts
  <2> QED
    BY <1>5, <2>1, <2>2
<1>11. FoldersInOrder'
  <2> SUFFICES ASSUME ~broken'
               PROVE  \E m \in DOMAIN chatFolders' :
                        chatFolders'[m] = Main /\ RemoveAt(chatFolders', m) = told'.folders
    BY DEF FoldersInOrder
  <2>1. r.broken = FALSE /\ told'.folders = folders
    BY <1>3, <1>8
  <2> QED
    BY <1>3, <1>6, <1>8, <2>1 DEF TabsInOrder
<1>12. RowsHaveModels'
  <2>1. \A x \in ToSet(chatFolders') : x \in {Main} \cup ToSet(folders)
    BY <1>3, <1>4, <1>8 DEF ToSet
  <2> QED
    BY <1>3, <2>1 DEF RowsHaveModels
<1>13. MainTabFirst'
  <2> SUFFICES ASSUME mainFirst'
               PROVE  /\ ~broken' /\ chatFolders' = <<Main>> \o told'.folders
                      /\ mainChatListIndex' = 1
    BY DEF MainTabFirst
  <2>1. mainFirst /\ p = 0
    BY <1>3
  <2>2. chatFolders = <<Main>> \o told.folders /\ told.folders \in Seq(Folders)
    BY <1>1, <2>1, ArrangementsAreLists DEF MainTabFirst, TabsTypeOK
  <2>3. 1 <= Len(Rows.rows) /\ Rows.rows[1] = Main
    BY <1>2, <2>2
  <2>4. r.broken = FALSE /\ r.rows[1] = Main
    BY <1>7, <2>1, <2>3
  <2>5. PICK m \in 1..Len(r.rows) : r.rows[m] = Main /\ RemoveAt(r.rows, m) = folders
    BY <1>6, <2>4 DEF TabsInOrder
  <2>6. 1 <= Len(r.rows) /\ Once(r.rows) /\ folders \in Seq(Tab)
    BY <1>1, <1>5, <1>8, <2>4, <2>5 DEF TabsExact, Tab
  <2>7. r.rows = <<Main>> \o folders
    BY ONLY <1>8, <2>4, <2>5, <2>6, MainThenFolders
  <2> QED
    BY <1>3, <1>4, <2>1, <2>4, <2>7
<1> QED
  BY <1>9, <1>10, <1>11, <1>12, <1>13 DEF TabsInv

\* Every row of new is one of rows.
Within(new, rows) == \A a \in 1..Len(new) : \E b \in 1..Len(rows) : new[a] = rows[b]

\* removeRange on any range: it adds no row, and what it leaves is exact unless
\* it left the list.
LEMMA RemoveRangeKeeps ==
    ASSUME NEW s, TabsTyped(s), s.broken = FALSE => TabsExact(s),
           NEW first \in Int, NEW last \in Int, NEW r, r = removeRange(s, first, last)
    PROVE  TabsTyped(r) /\ (r.broken = FALSE => TabsExact(r)) /\ Within(r.rows, s.rows)
<1>1. s.rows \in Seq(Tab) /\ s.broken \in BOOLEAN /\ Len(s.rows) \in Nat
  BY DEF TabsTyped
<1>2. CASE first < 1 \/ first > last \/ s.broken = TRUE
  <2>1. r = s
    BY <1>2, RemoveRangeIdle
  <2> QED
    BY <2>1 DEF Within
<1>3. CASE first >= 1 /\ first <= last /\ last > Len(s.rows) /\ s.broken = FALSE
  <2>1. TabsTyped(r) /\ r.rows = s.rows /\ r.broken = TRUE
    <3>1. ~(first < 1) /\ ~(first > last) /\ ~s.broken
      BY <1>3
    <3>2. r = [s EXCEPT !.broken = TRUE]
      BY <1>3, <3>1, Zenon DEF removeRange
    <3>3. TabParts(s)
      BY DEF TabsTyped
    <3>4. /\ TabParts(r) /\ r.rows = s.rows /\ r.map = s.map
          /\ r.main = s.main /\ r.broken = TRUE
      BY <3>2, <3>3 DEF TabParts
    <3> QED
      BY <3>4 DEF TabsTyped
  <2> QED
    BY <2>1 DEF Within
<1>4. CASE first >= 1 /\ first <= last /\ last <= Len(s.rows) /\ s.broken = FALSE
  <2>1. TabsExact(s) /\ first \in 1..Len(s.rows) /\ last \in first..Len(s.rows)
    BY <1>1, <1>4
  <2>2. TabsExact(r) /\ r.rows = Cut(s.rows, first - 1, last)
    BY ONLY r = removeRange(s, first, last), <2>1, RemoveRangeExact
  <2>3. TabsTyped(r)
    BY <2>2 DEF TabsExact
  <2> DEFINE n == Len(s.rows)
             a == first - 1
             d == last - a
  <2>4. n \in Nat /\ a \in 0..n /\ last \in a..n /\ d \in 0..n
    BY <1>1, <2>1
  <2>5. /\ Len(r.rows) = n - d
        /\ \A k \in 1..n - d : r.rows[k] = IF k <= a THEN s.rows[k] ELSE s.rows[k + d]
    <3> DEFINE rows == s.rows
    <3>1. r.rows = Cut(rows, a, last)
      BY <2>2
    <3>2. rows \in Seq(Tab) /\ a \in 0..Len(rows) /\ last \in a..Len(rows)
      BY <1>1, <2>4
    <3> HIDE DEF a, rows
    <3>3. /\ Len(r.rows) = Len(rows) - (last - a)
          /\ \A k \in 1..Len(rows) - (last - a) :
                r.rows[k] = IF k <= a THEN rows[k] ELSE rows[k + (last - a)]
      BY ONLY <3>1, <3>2, RangeCut
    <3> QED
      BY <3>3 DEF rows
  <2> HIDE DEF n, a, d
  <2>6. ASSUME NEW k \in 1..n - d
        PROVE  \E b \in 1..n : r.rows[k] = s.rows[b]
    <3>1. k \in 1..n /\ k + d \in 1..n
      BY <2>4
    <3>2. r.rows[k] = s.rows[k] \/ r.rows[k] = s.rows[k + d]
      BY <2>5
    <3> QED
      BY <3>1, <3>2
  <2>7. Within(r.rows, s.rows)
    BY <2>5, <2>6 DEF Within, n
  <2> QED
    BY <2>2, <2>3, <2>7
<1>5. s.broken = TRUE \/ s.broken = FALSE
  BY <1>1
<1>6. \/ first < 1 \/ first > last \/ s.broken = TRUE
      \/ first >= 1 /\ first <= last /\ last > Len(s.rows) /\ s.broken = FALSE
      \/ first >= 1 /\ first <= last /\ last <= Len(s.rows) /\ s.broken = FALSE
  BY <1>1, <1>5
<1> QED
  BY <1>2, <1>3, <1>4, <1>6

LEMMA ClearedTabs ==
    ASSUME TabsInv, ~broken, ClearContent
    PROVE  TabsInv'
<1> DEFINE above == removeRange(Rows, 1, mainChatListIndex - 1)
           r == removeRange(above, mainChatListIndex + 1, Len(above.rows))
<1>1. TabsTypeOK /\ TabsExact(Rows) /\ RowsHaveModels /\ MainTabFirst
  BY DEF TabsInv
<1>2. /\ TabsTyped(Rows) /\ Rows.rows = chatFolders /\ Rows.main = mainChatListIndex
      /\ Rows.broken = FALSE
  BY <1>1, RowsTyped DEF TabsExact
<1>3. /\ chatFolders' = r.rows /\ chatFoldersIndexMap' = r.map
      /\ mainChatListIndex' = r.main /\ broken' = r.broken
      /\ told' = NothingTold /\ tabsSession' \in TabsSessions
      /\ UNCHANGED <<chatModels, tabsRefreshTimerEnabled, timerModels, mainFirst>>
  BY DEF ClearContent, TabsReset, SetRows, tabsTimerVars, TabsSessions
<1>4. mainChatListIndex \in Nat /\ chatFolders \in Seq(Tab)
  BY <1>1 DEF TabsTypeOK, Tab
<1>5. /\ 1 \in Int /\ mainChatListIndex - 1 \in Int /\ mainChatListIndex + 1 \in Int
      /\ above = removeRange(Rows, 1, mainChatListIndex - 1)
      /\ r = removeRange(above, mainChatListIndex + 1, Len(above.rows))
  BY <1>4
<1> HIDE DEF above, r
<1>6. /\ TabsTyped(above) /\ (above.broken = FALSE => TabsExact(above))
      /\ Within(above.rows, Rows.rows)
  BY ONLY <1>1, <1>2, <1>5, RemoveRangeKeeps
<1>7. Len(above.rows) \in Int
  BY <1>6 DEF TabsTyped
<1>8. /\ TabsTyped(r) /\ (r.broken = FALSE => TabsExact(r))
      /\ Within(r.rows, above.rows)
  BY ONLY <1>5, <1>6, <1>7, RemoveRangeKeeps
<1>9. /\ TabParts(r) /\ r.rows \in Seq(Tab) /\ TabMap(r.map)
      /\ r.main \in Nat /\ r.broken \in BOOLEAN /\ DOMAIN r.rows = 1..Len(r.rows)
  BY <1>8 DEF TabsTyped
<1>10. TabsTypeOK'
  <2>1. chatFolders' \in Seq(Folders \cup {Main}) /\ mainChatListIndex' \in Nat
    BY <1>3, <1>9 DEF Tab
  <2>2. /\ DOMAIN chatFoldersIndexMap' \subseteq Folders \cup {Main}
        /\ \A f \in DOMAIN chatFoldersIndexMap' : chatFoldersIndexMap'[f] \in Nat
    BY <1>3, <1>9 DEF TabMap, Tab
  <2>3. /\ chatModels' \subseteq Folders /\ timerModels' \subseteq chatModels'
        /\ tabsRefreshTimerEnabled' \in BOOLEAN /\ mainFirst' \in BOOLEAN
    BY <1>1, <1>3 DEF TabsTypeOK
  <2>4. NothingTold \in [folders: Arrangements, mainPosition: {-1} \cup MainPositions]
    BY ArrangementsAreLists DEF NothingTold
  <2>5. /\ told' \in [folders: Arrangements, mainPosition: {-1} \cup MainPositions]
        /\ broken' \in BOOLEAN /\ tabsSession' \in TabsSessions
    BY <1>3, <1>9, <2>4
  <2> QED
    BY <2>1, <2>2, <2>3, <2>5 DEF TabsTypeOK
<1>11. ~broken' => TabsExact(Rows')
  <2> SUFFICES ASSUME ~broken' PROVE TabsExact(Rows')
    OBVIOUS
  <2>1. r.broken = FALSE
    BY <1>3, <1>9
  <2>2. Rows' = r
    <3>1. Rows' = [rows |-> r.rows, map |-> r.map, main |-> r.main, broken |-> r.broken]
      BY <1>3, <2>1 DEF Rows
    <3> QED
      BY <1>9, <3>1 DEF TabParts
  <2> QED
    BY <1>8, <2>1, <2>2
<1>12. FoldersInOrder'
  BY <1>3 DEF FoldersInOrder
<1>13. RowsHaveModels'
  <2>1. ASSUME NEW a \in 1..Len(r.rows)
        PROVE  \E b \in 1..Len(chatFolders) : r.rows[a] = chatFolders[b]
    BY <1>2, <1>6, <1>8 DEF Within
  <2>2. ToSet(chatFolders') \subseteq ToSet(chatFolders)
    BY <1>3, <1>4, <1>9, <2>1 DEF ToSet
  <2> QED
    BY <1>1, <1>3, <2>2 DEF RowsHaveModels
<1>14. MainTabFirst'
  <2> SUFFICES ASSUME mainFirst
               PROVE  ~broken' /\ chatFolders' = <<Main>> \o <<>> /\ mainChatListIndex' = 1
    BY <1>3 DEF MainTabFirst, NothingTold
  <2> DEFINE n == Len(chatFolders)
  <2>1. /\ mainChatListIndex = 1 /\ chatFolders = <<Main>> \o told.folders
        /\ told.folders \in Seq(Folders)
    BY <1>1, ArrangementsAreLists DEF MainTabFirst, TabsTypeOK
  <2>2. n \in Nat /\ n >= 1 /\ chatFolders[1] = Main
    BY <2>1
  <2>3. above = Rows
    <3>1. above = removeRange(Rows, 1, 0) /\ 1 \in Int /\ 0 \in Int /\ 1 > 0
      BY <1>5, <2>1
    <3> QED
      BY ONLY <3>1, RemoveRangeIdle
  <2>4. r = removeRange(Rows, 2, n)
    BY <1>2, <1>5, <2>1, <2>3
  <2>5. <<Main>> \in Seq(Tab) /\ Len(<<Main>>) = 1 /\ <<Main>>[1] = Main /\ <<Main>> \o <<>> = <<Main>>
    BY DEF Tab
  <2> HIDE DEF n
  <2>6. CASE n = 1
    <3>1. 2 > n /\ 2 \in Int /\ n \in Int
      BY <2>6
    <3>2. r = Rows
      BY ONLY <2>4, <3>1, RemoveRangeIdle
    <3>3. Len(chatFolders) = 1
      BY <2>6 DEF n
    <3>4. chatFolders = <<Main>>
      BY ONLY <1>4, <2>2, <2>5, <3>3, SeqEqual
    <3> QED
      BY <1>2, <1>3, <2>1, <2>5, <3>2, <3>4
  <2>7. CASE n # 1
    <3>1. 2 \in 1..Len(Rows.rows) /\ n \in 2..Len(Rows.rows)
      BY <1>2, <2>2, <2>7 DEF n
    <3>2. TabsExact(r) /\ r.rows = Cut(Rows.rows, 2 - 1, n) /\ r.main = Rows.main
      BY ONLY <1>1, <2>4, <3>1, RemoveRangeExact
    <3>3. n - 1 \in Nat /\ 1 \in 0..Len(chatFolders) /\ n \in 1..Len(chatFolders)
      BY <2>2 DEF n
    <3>4. r.rows = Cut(chatFolders, 1, n)
      BY <1>2, <3>2
    <3>5. /\ Len(r.rows) = Len(chatFolders) - (n - 1)
          /\ \A k \in 1..Len(chatFolders) - (n - 1) :
                r.rows[k] = IF k <= 1 THEN chatFolders[k] ELSE chatFolders[k + (n - 1)]
      BY ONLY <1>4, <3>3, <3>4, RangeCut
    <3>6. Len(chatFolders) - (n - 1) = 1
      BY <2>2 DEF n
    <3>7. Len(r.rows) = 1 /\ r.rows[1] = Main
      BY <2>2, <3>5, <3>6
    <3>8. r.rows = <<Main>>
      BY ONLY <1>9, <2>5, <3>7, SeqEqual
    <3> QED
      BY <1>2, <1>3, <2>1, <2>5, <3>2, <3>8 DEF TabsExact
  <2> QED
    BY <2>6, <2>7
<1> QED
  BY <1>10, <1>11, <1>12, <1>13, <1>14 DEF TabsInv

\* The other steps leave the rows and what TDLib has sent alone.
LEMMA OtherTabs ==
    ASSUME TabsInv,
           \/ ~broken /\ \E f \in Folders : handleChatAddedToFolderList(f)
           \/ ~broken /\ \E e \in BOOLEAN : TabsSetRefreshTimerEnabled(e)
           \/ TabsClosed
           \/ UNCHANGED tabsVars
    PROVE  TabsInv'
<1>1. /\ UNCHANGED <<chatFolders, chatFoldersIndexMap, mainChatListIndex>>
      /\ UNCHANGED <<broken, told, mainFirst>>
      /\ chatModels' \subseteq Folders /\ chatModels \subseteq chatModels'
      /\ timerModels' \subseteq chatModels'
      /\ tabsRefreshTimerEnabled' \in BOOLEAN /\ tabsSession' \in TabsSessions
  <2>1. /\ chatModels \subseteq Folders /\ timerModels \subseteq chatModels
        /\ tabsRefreshTimerEnabled \in BOOLEAN /\ tabsSession \in TabsSessions
    BY DEF TabsInv, TabsTypeOK
  <2>2. ASSUME NEW f \in Folders, handleChatAddedToFolderList(f)
        PROVE  <1>1!:
    BY <2>1, <2>2 DEF handleChatAddedToFolderList, tabsRowVars, tabsTimerVars, toldVars
  <2>3. ASSUME NEW e \in BOOLEAN, TabsSetRefreshTimerEnabled(e)
        PROVE  <1>1!:
    BY <2>1, <2>3 DEF TabsSetRefreshTimerEnabled, tabsRowVars, toldVars
  <2>4. CASE TabsClosed
    BY <2>1, <2>4 DEF TabsClosed, tabsRowVars, tabsTimerVars, toldVars, TabsSessions
  <2>5. CASE UNCHANGED tabsVars
    BY <2>1, <2>5 DEF tabsVars, tabsRowVars, tabsTimerVars, toldVars
  <2> QED
    BY <2>2, <2>3, <2>4, <2>5
<1>2. TabsTypeOK'
  BY <1>1 DEF TabsInv, TabsTypeOK
<1>3. Rows' = Rows
  BY <1>1 DEF Rows
<1>4. ~broken' => TabsExact(Rows')
  BY <1>1, <1>3 DEF TabsInv
<1>5. FoldersInOrder' /\ MainTabFirst'
  BY <1>1 DEF TabsInv, FoldersInOrder, MainTabFirst
<1>6. RowsHaveModels'
  BY <1>1 DEF TabsInv, RowsHaveModels
<1> QED
  BY <1>2, <1>4, <1>5, <1>6 DEF TabsInv

LEMMA TabsNextInv == TabsInv /\ [TabsNext]_tabsVars => TabsInv'
<1> SUFFICES ASSUME TabsInv, [TabsNext]_tabsVars PROVE TabsInv'
  OBVIOUS
<1>1. ASSUME ~broken, NEW folders \in Arrangements, NEW p \in MainPositions,
             handleChatFoldersUpdated(folders, p)
      PROVE  TabsInv'
  BY <1>1, UpdatedTabs
<1>2. CASE ~broken /\ ClearContent
  BY <1>2, ClearedTabs
<1>3. CASE \/ ~broken /\ \E f \in Folders : handleChatAddedToFolderList(f)
           \/ ~broken /\ \E e \in BOOLEAN : TabsSetRefreshTimerEnabled(e)
           \/ TabsClosed
           \/ UNCHANGED tabsVars
  BY <1>3, OtherTabs
<1> QED
  BY <1>1, <1>2, <1>3 DEF TabsNext

LEMMA TabsInvariant == TabsSpec => []TabsInv
  BY TabsInitInv, TabsNextInv, PTL DEF TabsSpec

(***************************************************************************)
(* The variables of the tabs keep their types.                             *)
(***************************************************************************)
THEOREM TabsTypeCorrect == TabsSpec => []TabsTypeOK
<1>1. TabsInv => TabsTypeOK
  BY DEF TabsInv
<1> QED
  BY <1>1, TabsInvariant, PTL

(***************************************************************************)
(* After handleChatFoldersUpdated the tabs are the folders in the order    *)
(* that TDLib sent, with one tab for the main list among them, for any     *)
(* number of folders and whatever the tabs were before.                    *)
(***************************************************************************)
THEOREM FoldersOrderCorrect == TabsSpec => []FoldersInOrder
<1>1. TabsInv => FoldersInOrder
  BY DEF TabsInv
<1> QED
  BY <1>1, TabsInvariant, PTL

(***************************************************************************)
(* chatFoldersIndexMap, which every removal, move and insertion patches in *)
(* part, leads from a folder to its tab, and from no removed folder to any.*)
(***************************************************************************)
THEOREM FolderIndexCorrect == TabsSpec => []IndexesExact
<1>1. TabsInv => IndexesExact
  <2> SUFFICES ASSUME TabsInv, ~broken
               PROVE  /\ \A i \in DOMAIN chatFolders :
                            chatFolders[i] # Main =>
                                /\ chatFolders[i] \in DOMAIN chatFoldersIndexMap
                                /\ chatFoldersIndexMap[chatFolders[i]] = i
                      /\ DOMAIN chatFoldersIndexMap \ {Main} \subseteq ToSet(chatFolders)
    BY DEF IndexesExact
  <2>1. TabsExact(Rows) /\ Rows.rows = chatFolders /\ Rows.map = chatFoldersIndexMap
    BY DEF TabsInv, Rows
  <2>2. TabIndex(chatFoldersIndexMap, chatFolders)
    BY <2>1 DEF TabsExact
  <2>3. DOMAIN chatFolders = 1..Len(chatFolders)
    BY DEF TabsInv, TabsTypeOK
  <2> QED
    BY <2>2, <2>3 DEF TabIndex, ToSet
<1> QED
  BY <1>1, TabsInvariant, PTL

(***************************************************************************)
(* Every tab of a folder has a chat list model to show, through arrivals   *)
(* and removals of folders and through logouts.                            *)
(***************************************************************************)
THEOREM ModelsCorrect == TabsSpec => []RowsHaveModels
<1>1. TabsInv => RowsHaveModels
  BY DEF TabsInv
<1> QED
  BY <1>1, TabsInvariant, PTL

(***************************************************************************)
(* While TDLib puts the main list first, its tab is the first one, found   *)
(* through mainChatListIndex, and no handler leaves the list: reset() and  *)
(* handleChatFoldersUpdated never lose, double or move it.                 *)
(***************************************************************************)
THEOREM MainTabCorrect == TabsSpec => []MainTabFirst
<1>1. TabsInv => MainTabFirst
  BY DEF TabsInv
<1> QED
  BY <1>1, TabsInvariant, PTL
=============================================================================
