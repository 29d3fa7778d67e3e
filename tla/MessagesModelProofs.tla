------------------------ MODULE MessagesModelProofs ------------------------
(***************************************************************************)
(* Proofs about the list of messages and about the view that fills it.     *)
(*                                                                         *)
(* The first part is about MessagesModel, which ReadableMessagesModel      *)
(* extends: messageIndexMap is exact, every update of a message has        *)
(* reached its row, and an album is shown once, for any set of message     *)
(* identifiers, any albums and batches of any size.  The                   *)
(* operations of the model are functions of its three variables, taken     *)
(* together in a record.  Sound says of such a record what is true         *)
(* whenever no operation runs; the lemmas show operation by operation that *)
(* it is kept, also by the loop of handleMessagesDeleted.                  *)
(*                                                                         *)
(* The second part is about ReadableMessagesModel and uses those lemmas:   *)
(* the list has no gaps, and endReached is set at its end only.            *)
(***************************************************************************)
EXTENDS ReadableMessagesModel, ListLemmas

\* s is a record with at least the variables of the model.
Parts(s) ==
    /\ {"list", "map", "albums"} \subseteq DOMAIN s
    /\ s = [x \in DOMAIN s |-> s[x]]

\* The shown messages of an album.
Together(list, a) == {n \in IdsOf(list) : AlbumOf[n] = a}

\* A row shows the album of these messages, if it is the oldest of them.
Displays(row, ids) ==
    /\ row.albumEntryFilter = (row.id # Min(ids))
    /\ row.albumMessageIds = IF row.id = Min(ids) THEN ids ELSE {}

\* albumMessageMap has the shown messages of every album, and the rows show
\* them.
AlbumsExact(list, albums) ==
    /\ \A a \in DOMAIN albums : a # 0 /\ albums[a] = Together(list, a)
    /\ \A i \in DOMAIN list : AlbumOf[list[i].id] # 0 =>
        /\ AlbumOf[list[i].id] \in DOMAIN albums
        /\ Displays(list[i], Together(list, AlbumOf[list[i].id]))

Sound(s) ==
    /\ Parts(s)
    /\ s.list \in Seq(Row)
    /\ IsIndexOf(s.map, s.list)
    /\ AlbumsExact(s.list, s.albums)

\* The rows of two lists that differ in how albums are shown only.
SameRows(l, m) ==
    /\ Len(l) = Len(m)
    /\ \A i \in 1..Len(m) : l[i].id = m[i].id /\ l[i].edited = m[i].edited

\* Every row of l is one of m.
RowsFrom(l, m) ==
    \A i \in 1..Len(l) : \E j \in 1..Len(m) :
        l[i].id = m[j].id /\ l[i].edited = m[j].edited

\* The rest of the record is not changed.
KeepsRest(s, r) ==
    /\ DOMAIN r = DOMAIN s
    /\ \A x \in DOMAIN s \ {"list", "map", "albums"} : r[x] = s[x]

-----------------------------------------------------------------------------
(***************************************************************************)
(* Lists of rows                                                           *)
(***************************************************************************)

\* The identifiers of a list, by position.
LEMMA IdsByPosition ==
    ASSUME NEW l \in Seq(Row)
    PROVE  /\ Len(l) \in Nat /\ DOMAIN l = 1..Len(l)
           /\ IdsOf(l) = {l[i].id : i \in 1..Len(l)}
           /\ IdsOf(l) \subseteq Ids
           /\ \A i \in 1..Len(l) : l[i] \in Row /\ l[i].id \in IdsOf(l)
<1>1. Len(l) \in Nat /\ DOMAIN l = 1..Len(l)
  OBVIOUS
<1>2. \A i \in 1..Len(l) : l[i] \in Row
  OBVIOUS
<1>3. \A i \in 1..Len(l) : l[i].id \in Ids
  BY <1>2 DEF Row
<1>4. IdsOf(l) = {l[i].id : i \in 1..Len(l)}
  BY <1>1, Zenon DEF IdsOf
<1> QED
  BY <1>1, <1>2, <1>3, <1>4

\* Lists with the same rows have the same identifiers, and one index map.
LEMMA SameIds ==
    ASSUME NEW l \in Seq(Row), NEW m \in Seq(Row), SameRows(l, m)
    PROVE  /\ IdsOf(l) = IdsOf(m)
           /\ \A a : Together(l, a) = Together(m, a)
           /\ \A map : IsIndexOf(map, m) => IsIndexOf(map, l)
           /\ RowsFrom(l, m)
<1>1. Len(l) = Len(m) /\ Len(m) \in Nat
  BY IdsByPosition DEF SameRows
<1>2. \A i \in 1..Len(m) : l[i].id = m[i].id /\ l[i].edited = m[i].edited
  BY DEF SameRows
<1>3. DOMAIN l = 1..Len(m) /\ DOMAIN m = 1..Len(m)
  BY <1>1, IdsByPosition
<1>4. IdsOf(l) = IdsOf(m)
  BY <1>2, <1>3 DEF IdsOf
<1>5. \A a : Together(l, a) = Together(m, a)
  BY <1>4 DEF Together
<1>6. ASSUME NEW map, IsIndexOf(map, m)
      PROVE  IsIndexOf(map, l)
  BY <1>2, <1>3, <1>4, <1>6 DEF IsIndexOf
<1>7. RowsFrom(l, m)
  BY <1>1, <1>2 DEF RowsFrom
<1> QED
  BY <1>4, <1>5, <1>6, <1>7

\* No message is in a list twice that has an index map.
LEMMA IdsDiffer ==
    ASSUME NEW l \in Seq(Row), NEW map, IsIndexOf(map, l)
    PROVE  /\ \A i, j \in 1..Len(l) : l[i].id = l[j].id => i = j
           /\ \A i \in 1..Len(l) : l[i].id \in DOMAIN map /\ map[l[i].id] = i
           /\ DOMAIN map \subseteq Ids
           /\ \A m \in DOMAIN map : map[m] \in 1..Len(l) /\ l[map[m]].id = m
<1>1. DOMAIN l = 1..Len(l) /\ IdsOf(l) \subseteq Ids
      /\ IdsOf(l) = {l[i].id : i \in 1..Len(l)}
  BY IdsByPosition
<1>2. DOMAIN map = IdsOf(l) /\ \A i \in 1..Len(l) : map[l[i].id] = i
  BY <1>1 DEF IsIndexOf
<1>3. \A i, j \in 1..Len(l) : l[i].id = l[j].id => i = j
  BY <1>2
<1>4. \A m \in DOMAIN map : \E i \in 1..Len(l) : m = l[i].id
  BY <1>1, <1>2
<1> QED
  BY <1>1, <1>2, <1>3, <1>4

\* Where an update leads: the rows of r are rows of m, if those of l are.
LEMMA RowsFromFrom ==
    ASSUME NEW k, NEW l, NEW m, RowsFrom(k, l), RowsFrom(l, m)
    PROVE  RowsFrom(k, m)
<1> SUFFICES ASSUME NEW i \in 1..Len(k)
             PROVE  \E j \in 1..Len(m) :
                        k[i].id = m[j].id /\ k[i].edited = m[j].edited
  BY DEF RowsFrom
<1>1. PICK h \in 1..Len(l) : k[i].id = l[h].id /\ k[i].edited = l[h].edited
  BY DEF RowsFrom
<1>2. PICK j \in 1..Len(m) : l[h].id = m[j].id /\ l[h].edited = m[j].edited
  BY <1>1 DEF RowsFrom
<1> QED
  BY <1>1, <1>2

\* The identifiers of those rows.
LEMMA IdsFrom ==
    ASSUME NEW l \in Seq(Row), NEW m \in Seq(Row), RowsFrom(l, m)
    PROVE  IdsOf(l) \subseteq IdsOf(m)
<1>1. /\ IdsOf(l) = {l[i].id : i \in 1..Len(l)}
      /\ IdsOf(m) = {m[i].id : i \in 1..Len(m)}
  BY IdsByPosition
<1> QED
  BY <1>1 DEF RowsFrom

-----------------------------------------------------------------------------
(***************************************************************************)
(* The index map                                                           *)
(***************************************************************************)

\* An index map is repaired from position from on: it was right for the rows
\* before, and for nothing that is not in the list.
LEMMA Repaired ==
    ASSUME NEW l \in Seq(Row), NEW map, NEW from \in 1..Len(l) + 1,
           \A i, j \in 1..Len(l) : l[i].id = l[j].id => i = j,
           \A i \in 1..Len(l) : i < from => l[i].id \in DOMAIN map /\ map[l[i].id] = i,
           DOMAIN map \subseteq IdsOf(l)
    PROVE  IsIndexOf(Reindexed(map, l, from, Len(l)), l)
<1> DEFINE n == Len(l)
           Here(m) == {i \in from..n : l[i].id = m}
           r == Reindexed(map, l, from, n)
<1>1. n \in Nat /\ DOMAIN l = 1..n /\ IdsOf(l) = {l[i].id : i \in 1..n}
  BY IdsByPosition
<1> HIDE DEF n
<1>2. r = [m \in DOMAIN map \cup {l[i].id : i \in from..n} |->
            IF Here(m) = {} THEN map[m] ELSE Max(Here(m))]
  BY DEF Reindexed, Max
<1>3. DOMAIN r = IdsOf(l)
  <2>1. from..n \subseteq 1..n
    BY <1>1 DEF n
  <2>2. {l[i].id : i \in from..n} \subseteq IdsOf(l)
    BY <1>1, <2>1
  <2>3. \A i \in 1..n : i < from \/ i \in from..n
    BY <1>1 DEF n
  <2>4. IdsOf(l) \subseteq DOMAIN map \cup {l[i].id : i \in from..n}
    BY <1>1, <2>3 DEF n
  <2>5. DOMAIN r = DOMAIN map \cup {l[i].id : i \in from..n}
    BY <1>2
  <2> QED
    BY <2>2, <2>4, <2>5
<1>4. ASSUME NEW i \in 1..n
      PROVE  r[l[i].id] = i
  <2>1. l[i].id \in DOMAIN r
    BY <1>1, <1>3
  <2>2. r[l[i].id] = IF Here(l[i].id) = {} THEN map[l[i].id] ELSE Max(Here(l[i].id))
    BY <1>2, <2>1
  <2>3. CASE i < from
    <3>1. Here(l[i].id) = {}
      BY <1>1, <2>3 DEF n
    <3> QED
      BY <2>2, <2>3, <3>1 DEF n
  <2>4. CASE ~(i < from)
    <3> DEFINE H == Here(l[i].id)
    <3>1. H = {i}
      BY <1>1, <2>4 DEF n
    <3>2. H \subseteq 0..n /\ H # {}
      BY <1>1, <3>1
    <3> HIDE DEF H
    <3>3. Max(H) \in H
      BY <1>1, <3>2, MaxOfPositions
    <3>4. Max(H) = i
      BY <3>1, <3>3
    <3> QED
      BY <2>2, <3>2, <3>4 DEF H
  <2> QED
    BY <2>3, <2>4
<1>5. \A i \in DOMAIN l : r[l[i].id] = i
  BY <1>1, <1>4
<1> HIDE DEF r
<1>6. IsIndexOf(r, l)
  BY <1>3, <1>5, Zenon DEF IsIndexOf
<1> QED
  BY <1>6 DEF r, n

-----------------------------------------------------------------------------
(***************************************************************************)
(* Albums                                                                  *)
(***************************************************************************)

\* What updateAlbumMessages leaves in albumMessageMap of an album.
Rescanned(s, touched, checkDeleted, a) ==
    IF a \in touched /\ checkDeleted
    THEN s.albums[a] \cap DOMAIN s.map ELSE s.albums[a]

\* updateAlbumMessages.  The rescanned albums are those of the list, and the
\* rows of all others show them: then all rows do.
LEMMA AlbumsUpdated ==
    ASSUME NEW s, NEW touched, NEW checkDeleted \in BOOLEAN,
           Parts(s), s.list \in Seq(Row), IsIndexOf(s.map, s.list),
           \A a \in DOMAIN s.albums :
              a # 0 /\ Rescanned(s, touched, checkDeleted, a) = Together(s.list, a),
           \A i \in 1..Len(s.list) : AlbumOf[s.list[i].id] # 0 =>
              /\ AlbumOf[s.list[i].id] \in DOMAIN s.albums
              /\ AlbumOf[s.list[i].id] \notin touched =>
                    Displays(s.list[i], Together(s.list, AlbumOf[s.list[i].id])),
           NEW r, r = updateAlbumMessages(s, touched, checkDeleted)
    PROVE  Sound(r) /\ SameRows(r.list, s.list) /\ r.map = s.map /\ KeepsRest(s, r)
<1> DEFINE l == s.list
           albums == [a \in DOMAIN s.albums |->
                        IF a \in touched \cap DOMAIN s.albums /\ checkDeleted
                        THEN s.albums[a] \cap DOMAIN s.map ELSE s.albums[a]]
           Regrouped(row) ==
              LET a == AlbumOf[row.id]
                  isMain == row.id = Min(albums[a])
              IN  IF a \in touched \cap DOMAIN s.albums /\ row.id \in albums[a]
                  THEN [row EXCEPT !.albumEntryFilter = ~isMain,
                                   !.albumMessageIds = IF isMain THEN albums[a] ELSE {}]
                  ELSE row
           k == [i \in DOMAIN l |-> Regrouped(l[i])]
<1>1. r = [s EXCEPT !.albums = albums, !.list = k]
  BY DEF updateAlbumMessages, Min
<1>2. albums = [a \in DOMAIN s.albums |-> Together(l, a)]
  <2>1. ASSUME NEW a \in DOMAIN s.albums
        PROVE  (IF a \in touched \cap DOMAIN s.albums /\ checkDeleted
                THEN s.albums[a] \cap DOMAIN s.map ELSE s.albums[a]) = Together(l, a)
    <3>1. Rescanned(s, touched, checkDeleted, a) = Together(l, a)
      BY <2>1
    <3> QED
      BY ONLY <2>1, <3>1, Zenon DEF Rescanned
  <2> QED
    BY ONLY <2>1, Zenon
<1>3. /\ Len(l) \in Nat /\ DOMAIN l = 1..Len(l) /\ IdsOf(l) \subseteq Ids
      /\ \A i \in 1..Len(l) : l[i] \in Row /\ l[i].id \in IdsOf(l)
  BY ONLY s.list \in Seq(Row), IdsByPosition
<1>4. ASSUME NEW i \in 1..Len(l)
      PROVE  /\ k[i] \in Row /\ k[i].id = l[i].id /\ k[i].edited = l[i].edited
             /\ AlbumOf[l[i].id] # 0 =>
                    /\ AlbumOf[l[i].id] \in DOMAIN albums
                    /\ Displays(k[i], Together(l, AlbumOf[l[i].id]))
  <2> DEFINE a == AlbumOf[l[i].id]
             ids == Together(l, a)
  <2>1. k[i] = Regrouped(l[i])
    BY <1>3
  <2>2. l[i] \in Row /\ l[i].id \in ids /\ ids \in SUBSET Ids
    BY <1>3 DEF Together
  <2>3. CASE a \in touched \cap DOMAIN s.albums
    <3>1. albums[a] = ids
      BY <1>2, <2>3
    <3> HIDE DEF ids, albums
    <3>2. k[i] = [l[i] EXCEPT !.albumEntryFilter = ~(l[i].id = Min(ids)),
                              !.albumMessageIds =
                                IF l[i].id = Min(ids) THEN ids ELSE {}]
      BY <2>1, <2>2, <2>3, <3>1
    <3> HIDE DEF k
    <3>3. k[i] \in Row /\ k[i].id = l[i].id /\ k[i].edited = l[i].edited
      BY <2>2, <3>2 DEF Row
    <3>4. Displays(k[i], ids)
      BY <2>2, <3>2, <3>3 DEF Displays, Row
    <3> QED
      BY <2>3, <3>3, <3>4, <1>2 DEF ids
  <2>4. CASE a \notin touched \cap DOMAIN s.albums
    <3>1. k[i] = l[i]
      BY <2>1, <2>4
    <3>2. a # 0 => a \in DOMAIN s.albums /\ a \notin touched
      BY <2>4
    <3>3. a # 0 => Displays(l[i], ids)
      BY <3>2
    <3>4. DOMAIN albums = DOMAIN s.albums
      OBVIOUS
    <3> HIDE DEF albums, k
    <3>5. k[i] \in Row /\ k[i].id = l[i].id /\ k[i].edited = l[i].edited
      BY ONLY <2>2, <3>1, Zenon
    <3>6. a # 0 => a \in DOMAIN albums /\ Displays(k[i], ids)
      BY ONLY <3>1, <3>2, <3>3, <3>4, Zenon
    <3> QED
      BY ONLY <3>5, <3>6, SMTT(30)
  <2> HIDE DEF albums, k
  <2> QED
    BY ONLY <2>3, <2>4, SMTT(30)
<1> HIDE DEF albums, k
<1>5. r.list = k /\ r.albums = albums /\ r.map = s.map /\ Parts(r)
  BY <1>1 DEF Parts
<1>6. KeepsRest(s, r)
  BY <1>1 DEF Parts, KeepsRest
<1>7. k \in Seq(Row) /\ Len(k) = Len(l) /\ DOMAIN k = 1..Len(l)
  <2>1. \A i \in 1..Len(l) : k[i] \in Row
    BY ONLY <1>4, Zenon
  <2>2. k = [i \in 1..Len(l) |-> Regrouped(l[i])]
    BY ONLY <1>3, Zenon DEF k
  <2>3. k = [i \in 1..Len(l) |-> k[i]]
    BY ONLY <2>2, Zenon
  <2>4. k \in [1..Len(l) -> Row]
    BY ONLY <2>1, <2>3, Zenon
  <2>5. Len(l) \in Nat
    BY <1>3
  <2> QED
    BY ONLY <2>4, <2>5, ListOf
<1>8. SameRows(k, l)
  BY <1>4, <1>7 DEF SameRows
<1>9. /\ \A a : Together(k, a) = Together(l, a)
      /\ IsIndexOf(s.map, k)
  BY <1>7, <1>8, SameIds
<1>10. AlbumsExact(k, albums)
  <2>1. \A a \in DOMAIN albums : a # 0 /\ albums[a] = Together(k, a)
    BY <1>2, <1>9
  <2>2. ASSUME NEW i \in 1..Len(l), AlbumOf[k[i].id] # 0
        PROVE  /\ AlbumOf[k[i].id] \in DOMAIN albums
               /\ Displays(k[i], Together(k, AlbumOf[k[i].id]))
    BY <1>4, <1>9, <2>2
  <2> QED
    BY <1>7, <2>1, <2>2 DEF AlbumsExact
<1> QED
  BY <1>5, <1>6, <1>7, <1>8, <1>9, <1>10 DEF Sound

-----------------------------------------------------------------------------
(***************************************************************************)
(* Removing rows                                                           *)
(***************************************************************************)

\* The messages of a range of rows, by 0-based positions.
RangeIds(list, first, last) == {list[i + 1].id : i \in first..last}

\* removeRange, of a range of the list.
LEMMA RangeRemoved ==
    ASSUME NEW s, Sound(s), NEW first \in Int, NEW last \in Int,
           first >= 0 /\ first <= last => last < Len(s.list),
           NEW r, r = removeRange(s, first, last)
    PROVE  /\ Sound(r) /\ RowsFrom(r.list, s.list) /\ KeepsRest(s, r)
           /\ first >= 0 /\ first <= Len(s.list) => Len(r.list) >= first
           /\ first >= 0 /\ first <= last =>
                IdsOf(r.list) = IdsOf(s.list) \ RangeIds(s.list, first, last)
<1> DEFINE l == s.list
           n == Len(l)
<1>1. /\ Parts(s) /\ l \in Seq(Row) /\ IsIndexOf(s.map, l)
      /\ AlbumsExact(l, s.albums)
  BY DEF Sound
<1>2. /\ n \in Nat /\ DOMAIN l = 1..n /\ IdsOf(l) = {l[i].id : i \in 1..n}
      /\ \A i \in 1..n : l[i] \in Row /\ l[i].id \in IdsOf(l)
  BY <1>1, IdsByPosition
<1>3. /\ \A i, j \in 1..n : l[i].id = l[j].id => i = j
      /\ \A i \in 1..n : l[i].id \in DOMAIN s.map /\ s.map[l[i].id] = i
      /\ DOMAIN s.map = IdsOf(l)
  <2>1. DOMAIN s.map = IdsOf(l)
    BY <1>1 DEF IsIndexOf
  <2> HIDE DEF l
  <2> QED
    BY <1>1, <2>1, IdsDiffer DEF n
<1> HIDE DEF n, l
<1>4. CASE first < 0 \/ first > last
  <2>1. r = s
    BY <1>4 DEF removeRange
  <2>2. RowsFrom(l, l)
    BY DEF RowsFrom
  <2>3. ~(first >= 0 /\ first <= last)
    BY <1>4
  <2> QED
    BY <1>2, <2>1, <2>2, <2>3 DEF KeepsRest, l, n
<1>5. CASE ~(first < 0 \/ first > last)
  <2>1. first \in 0..n /\ last + 1 \in first..n /\ last \in 0..n - 1
    BY <1>2, <1>5 DEF n, l
  <2> DEFINE gone == {l[i + 1].id : i \in first..last}
             k == SubSeq(l, 1, first) \o SubSeq(l, last + 2, n)
             kept == [m \in DOMAIN s.map \ gone |-> s.map[m]]
             map == Reindexed(kept, k, first + 1, Len(k))
             t == [s EXCEPT !.list = k, !.map = map]
             d == (last + 1) - first
  <2>2. r = updateAlbumMessages(t, AlbumsOf(gone), TRUE)
    BY <1>5, Zenon DEF removeRange, l, n
  <2>3. /\ k \in Seq(Row) /\ Len(k) = n - d
        /\ \A i \in 1..n - d : k[i] = IF i <= first THEN l[i] ELSE l[i + d]
    <3> DEFINE e == last + 1
    <3>1. last + 2 = e + 1
      BY <2>1
    <3>2. k = Cut(l, first, e)
      BY <3>1, Zenon DEF n, Cut
    <3>3. first \in 0..Len(l) /\ e \in first..Len(l)
      BY <2>1, Zenon DEF n
    <3>4. d = e - first
      OBVIOUS
    <3> HIDE DEF k, e
    <3>5. /\ k \in Seq(Row) /\ Len(k) = Len(l) - (e - first)
          /\ \A i \in 1..Len(l) - (e - first) :
                k[i] = IF i <= first THEN l[i] ELSE l[i + (e - first)]
      BY <1>1, <3>2, <3>3, RangeCut
    <3> HIDE DEF d
    <3> QED
      BY <3>4, <3>5, Zenon DEF n
  <2>4. t.list = k /\ t.map = map /\ t.albums = s.albums /\ Parts(t)
        /\ KeepsRest(s, t)
    BY <1>1 DEF Parts, KeepsRest
  <2> HIDE DEF k, map, t
  <2>5. d \in 1..n /\ n - d \in Nat /\ n - d >= first
    BY <1>2, <1>5, <2>1
  <2>6. \A i \in 1..n - d : i \in 1..n /\ i + d \in 1..n
    BY <1>2, <2>5
  <2>7. /\ IdsOf(k) = {k[i].id : i \in 1..n - d}
        /\ DOMAIN k = 1..n - d
        /\ \A i \in 1..n - d : k[i].id \in IdsOf(k)
    BY <2>3, IdsByPosition
  <2>8. \A i \in 1..n - d : \E j \in 1..n : k[i] = l[j] /\ j \notin first + 1..last + 1
    <3> SUFFICES ASSUME NEW i \in 1..n - d
                 PROVE  \E j \in 1..n : k[i] = l[j] /\ j \notin first + 1..last + 1
      OBVIOUS
    <3>1. CASE i <= first
      BY <2>1, <2>3, <2>6, <3>1
    <3>2. CASE ~(i <= first)
      <4>1. i + d \notin first + 1..last + 1 /\ i + d \in 1..n
        BY <2>1, <2>6, <3>2
      <4> QED
        BY <2>3, <3>2, <4>1
    <3> QED
      BY <3>1, <3>2
  <2>9. IdsOf(k) = IdsOf(l) \ gone
    <3>1. IdsOf(k) \subseteq IdsOf(l)
      BY <1>2, <2>7, <2>8
    <3>2. \A j \in 1..n : l[j].id \in gone <=> j \in first + 1..last + 1
      <4> SUFFICES ASSUME NEW j \in 1..n
                   PROVE  l[j].id \in gone <=> j \in first + 1..last + 1
        OBVIOUS
      <4>1. ASSUME NEW i \in first..last, l[j].id = l[i + 1].id
            PROVE  j \in first + 1..last + 1
        <5>1. i + 1 \in 1..n /\ i + 1 \in first + 1..last + 1
          BY <1>2, <2>1
        <5> QED
          BY <1>3, <4>1, <5>1
      <4>2. ASSUME j \in first + 1..last + 1
            PROVE  l[j].id \in gone
        <5>1. j - 1 \in first..last /\ (j - 1) + 1 = j
          BY <2>1, <4>2
        <5> QED
          BY <5>1
      <4> QED
        BY <4>1, <4>2
    <3>3. IdsOf(k) \cap gone = {}
      BY <2>7, <2>8, <3>2
    <3>4. ASSUME NEW j \in 1..n, j \notin first + 1..last + 1
          PROVE  l[j].id \in IdsOf(k)
      <4>1. CASE j <= first
        <5>1. j \in 1..n - d
          BY <1>2, <2>5, <4>1
        <5> QED
          BY <2>3, <2>7, <4>1, <5>1
      <4>2. CASE ~(j <= first)
        <5>1. j - d \in 1..n - d /\ ~(j - d <= first) /\ (j - d) + d = j
          BY <1>2, <2>1, <3>4, <4>2
        <5> QED
          BY <2>3, <2>7, <5>1
      <4> QED
        BY <4>1, <4>2
    <3> HIDE DEF gone
    <3> QED
      BY <1>2, <3>1, <3>2, <3>3, <3>4
  <2>10. IsIndexOf(map, k)
    <3>1. first + 1 \in 1..Len(k) + 1
      BY <2>1, <2>3, <2>5
    <3>2. \A i, j \in 1..Len(k) : k[i].id = k[j].id => i = j
      <4> SUFFICES ASSUME NEW i \in 1..n - d, NEW j \in 1..n - d, k[i].id = k[j].id
                   PROVE  i = j
        BY <2>3
      <4>1. i \in 1..n /\ j \in 1..n /\ i + d \in 1..n /\ j + d \in 1..n
        BY <2>6
      <4>2. (IF i <= first THEN i ELSE i + d) = (IF j <= first THEN j ELSE j + d)
        BY <1>3, <2>3, <4>1
      <4> QED
        BY <2>1, <2>5, <4>2
    <3>3. DOMAIN kept = IdsOf(l) \ gone /\ \A m \in DOMAIN kept : kept[m] = s.map[m]
      BY <1>3
    <3> HIDE DEF kept, gone, d
    <3>4. ASSUME NEW i \in 1..Len(k), i < first + 1
          PROVE  k[i].id \in DOMAIN kept /\ kept[k[i].id] = i
      <4>1. i \in 1..n - d /\ i \in 1..n /\ i <= first
        BY <2>1, <2>3, <2>6, <3>4
      <4>2. k[i] = l[i] /\ k[i].id \in IdsOf(k)
        BY <2>3, <2>7, <4>1
      <4> QED
        BY <1>3, <2>9, <3>3, <4>1, <4>2
    <3> QED
      BY <2>3, <2>9, <3>1, <3>2, <3>3, <3>4, Repaired DEF map
  <2>11. \A a : Together(k, a) = Together(l, a) \ gone
    BY <2>9 DEF Together
  <2>12. \A a : a \notin AlbumsOf(gone) /\ a # 0 => Together(k, a) = Together(l, a)
    <3> HIDE DEF gone
    <3> QED
      BY <2>11 DEF AlbumsOf, Together
  <2>13. \A a \in DOMAIN t.albums :
            a # 0 /\ Rescanned(t, AlbumsOf(gone), TRUE, a) = Together(t.list, a)
    <3> SUFFICES ASSUME NEW a \in DOMAIN s.albums
                 PROVE  /\ a # 0
                        /\ (IF a \in AlbumsOf(gone) THEN s.albums[a] \cap DOMAIN map
                            ELSE s.albums[a]) = Together(k, a)
      BY <2>4 DEF Rescanned
    <3>1. a # 0 /\ s.albums[a] = Together(l, a)
      BY <1>1 DEF AlbumsExact
    <3>2. DOMAIN map = IdsOf(k)
      BY <2>10 DEF IsIndexOf
    <3>3. Together(l, a) \cap IdsOf(k) = Together(k, a)
      BY <2>9 DEF Together
    <3> HIDE DEF gone
    <3> QED
      BY <2>12, <3>1, <3>2, <3>3
  <2>14. ASSUME NEW i \in 1..Len(t.list), AlbumOf[t.list[i].id] # 0
         PROVE  /\ AlbumOf[t.list[i].id] \in DOMAIN t.albums
                /\ AlbumOf[t.list[i].id] \notin AlbumsOf(gone) =>
                    Displays(t.list[i], Together(t.list, AlbumOf[t.list[i].id]))
    <3>1. PICK j \in 1..n : k[i] = l[j]
      BY <2>3, <2>4, <2>8
    <3>2. /\ AlbumOf[l[j].id] \in DOMAIN s.albums
          /\ Displays(l[j], Together(l, AlbumOf[l[j].id]))
      BY <1>1, <1>2, <2>4, <2>14, <3>1 DEF AlbumsExact
    <3> HIDE DEF gone
    <3> QED
      BY <2>4, <2>12, <2>14, <3>1, <3>2
  <2> HIDE DEF gone, kept, d
  <2>15. Sound(r) /\ SameRows(r.list, t.list) /\ KeepsRest(t, r)
    BY <2>2, <2>3, <2>4, <2>10, <2>13, <2>14, AlbumsUpdated
  <2>16. RowsFrom(k, l)
    <3>1. \A i \in 1..n - d : \E j \in 1..n : k[i] = l[j]
      BY <2>8
    <3>2. Len(k) = n - d /\ Len(l) = n
      BY <2>3 DEF n
    <3> QED
      BY <3>1, <3>2 DEF RowsFrom
  <2>17. RowsFrom(r.list, k) /\ Len(r.list) = n - d
    <3>1. r.list \in Seq(Row)
      BY <2>15 DEF Sound
    <3>2. RowsFrom(r.list, k)
      BY <2>3, <2>4, <2>15, <3>1, SameIds
    <3> QED
      BY <2>3, <2>4, <2>15, <3>2 DEF SameRows
  <2>18. RowsFrom(r.list, l)
    BY <2>16, <2>17, RowsFromFrom
  <2>19. KeepsRest(s, r)
    BY <2>4, <2>15 DEF KeepsRest
  <2>20. IdsOf(r.list) = IdsOf(l) \ RangeIds(l, first, last)
    <3>1. r.list \in Seq(Row)
      BY <2>15 DEF Sound
    <3>2. IdsOf(r.list) = IdsOf(k)
      BY <2>3, <2>4, <2>15, <3>1, SameIds
    <3> QED
      BY ONLY <2>9, <3>2, Zenon DEF gone, RangeIds
  <2> QED
    BY <2>5, <2>15, <2>17, <2>18, <2>19, <2>20 DEF l
<1> QED
  BY <1>4, <1>5

\* The state of the loop of handleMessagesDeleted: first and last are positions
\* of the list, or count.
LoopSound(t, count) ==
    /\ Sound(t)
    /\ {"first", "last"} \subseteq DOMAIN t
    /\ t.first \in 0..Len(t.list) - 1 \cup {count}
    /\ t.last \in 0..Len(t.list) - 1 \cup {count}

\* Setting first and last changes nothing else.
SetRange(r, p, q) == [r EXCEPT !.first = p, !.last = q]

LEMMA LoopRangeSet ==
    ASSUME NEW r, Sound(r), {"first", "last"} \subseteq DOMAIN r,
           NEW p, NEW q, NEW u, u = SetRange(r, p, q)
    PROVE  /\ Sound(u) /\ u.list = r.list /\ u.first = p /\ u.last = q
           /\ {"first", "last"} \subseteq DOMAIN u
<1>1. /\ u.list = r.list /\ u.map = r.map /\ u.albums = r.albums
      /\ u.first = p /\ u.last = q /\ Parts(u)
      /\ {"first", "last"} \subseteq DOMAIN u
  BY DEF Sound, Parts, SetRange
<1> QED
  BY <1>1 DEF Sound

\* One round of the loop.
LEMMA RoundSound ==
    ASSUME NEW count \in Nat, NEW t, LoopSound(t, count), NEW id,
           NEW u, u = DeleteStep(t, id, count)
    PROVE  LoopSound(u, count) /\ RowsFrom(u.list, t.list)
<1> DEFINE position == IF id \in DOMAIN t.map THEN t.map[id] - 1 ELSE -1
           last == IF t.last = count THEN position ELSE t.last
           first == IF t.first = count THEN position ELSE t.first
           n == Len(t.list)
<1>1. /\ Sound(t) /\ {"first", "last"} \subseteq DOMAIN t
      /\ t.first \in 0..n - 1 \cup {count} /\ t.last \in 0..n - 1 \cup {count}
  BY DEF LoopSound
<1>2. t.list \in Seq(Row) /\ IsIndexOf(t.map, t.list)
  BY <1>1 DEF Sound
<1>3. n \in Nat
  BY <1>2, IdsByPosition
<1>4. position \in -1..n - 1
  <2>1. \A m \in DOMAIN t.map : t.map[m] \in 1..n
    BY <1>2, IdsDiffer
  <2> QED
    BY <1>3, <2>1
<1>5. RowsFrom(t.list, t.list)
  BY DEF RowsFrom
<1>6. u = CASE position < 0 -> t
            [] position >= 0 /\ position < first - 1 ->
                  [removeRange(t, first, last) EXCEPT !.first = position,
                                                      !.last = position]
            [] OTHER -> [t EXCEPT !.first = position, !.last = last]
  BY Zenon DEF DeleteStep
<1>7. position >= 0 => first \in 0..n - 1 /\ last \in 0..n - 1
  BY <1>1, <1>3, <1>4
<1> HIDE DEF position, first, last, n
<1>8. CASE position < 0
  <2>1. u = t
    BY <1>4, <1>6, <1>8
  <2> QED
    BY <1>5, <2>1
<1>9. CASE position >= 0 /\ position < first - 1
  <2> DEFINE r == removeRange(t, first, last)
  <2>1. u = SetRange(r, position, position)
    <3> HIDE DEF r
    <3>1. ~(position < 0)
      BY <1>4, <1>9
    <3> QED
      BY <1>6, <1>9, <3>1, Zenon DEF r, SetRange
  <2> HIDE DEF r
  <2>2. first \in Int /\ last \in Int /\ first >= 0 /\ first <= Len(t.list)
        /\ last < Len(t.list)
    BY <1>3, <1>7, <1>9 DEF n
  <2>3. /\ Sound(r) /\ RowsFrom(r.list, t.list) /\ KeepsRest(t, r)
        /\ Len(r.list) >= first
    BY <1>1, <2>2, RangeRemoved DEF r
  <2>4. {"first", "last"} \subseteq DOMAIN r
    BY <1>1, <2>3 DEF KeepsRest
  <2>5. /\ Sound(u) /\ u.list = r.list /\ u.first = position /\ u.last = position
        /\ {"first", "last"} \subseteq DOMAIN u
    BY <2>1, <2>3, <2>4, LoopRangeSet
  <2>6. Len(r.list) \in Nat
    BY <2>3, IdsByPosition DEF Sound
  <2>7. position \in 0..Len(r.list) - 1
    BY <1>4, <1>7, <1>9, <2>3, <2>6, <1>3
  <2> QED
    BY <2>3, <2>5, <2>7 DEF LoopSound
<1>10. CASE position >= 0 /\ ~(position < first - 1)
  <2>1. u = SetRange(t, position, last)
    <3>1. ~(position < 0)
      BY <1>4, <1>10
    <3> QED
      BY <1>6, <1>10, <3>1, Zenon DEF SetRange
  <2>2. /\ Sound(u) /\ u.list = t.list /\ u.first = position /\ u.last = last
        /\ {"first", "last"} \subseteq DOMAIN u
    BY <1>1, <2>1, LoopRangeSet
  <2>3. position \in 0..Len(t.list) - 1 /\ last \in 0..Len(t.list) - 1
    BY <1>3, <1>4, <1>7, <1>10 DEF n
  <2> QED
    BY <1>5, <2>2, <2>3 DEF LoopSound
<1> QED
  BY <1>4, <1>8, <1>9, <1>10

\* The loop: each round is made from the one before, and the last range is
\* removed behind it.
Loop(f, s, ids) ==
    LET count == Len(ids)
    IN  /\ f[0] = [list |-> s.list, map |-> s.map, albums |-> s.albums,
                   first |-> count, last |-> count]
        /\ \A k \in 1..count : f[k] = DeleteStep(f[k - 1], ids[count - k + 1], count)
        /\ Deleted(s, ids) = IF f[count].first # count /\ f[count].last # count
                             THEN removeRange(f[count], f[count].first, f[count].last)
                             ELSE f[count]

\* The rounds exist.
LEMMA RoundsDef ==
    ASSUME NEW S, NEW s, NEW ids \in Seq(S)
    PROVE  \E f : Loop(f, s, ids)
<1> DEFINE count == Len(ids)
           start == [list |-> s.list, map |-> s.map, albums |-> s.albums,
                     first |-> count, last |-> count]
           Round(t, k) == DeleteStep(t, ids[count - k + 1], count)
           Rounds(f, n) == [k \in 0..n |-> IF k = 0 THEN start ELSE Round(f[k - 1], k)]
           Defined(n) == \E f : f = Rounds(f, n)
           T == {n \in 0..count : Defined(n)}
<1>1. count \in Nat
  OBVIOUS
<1> HIDE DEF count
<1>2. Defined(0)
  <2> DEFINE f == [k \in 0..0 |-> start]
  <2>1. f = Rounds(f, 0)
    <3> HIDE DEF start, Round
    <3> QED
      OBVIOUS
  <2> HIDE DEF f, Rounds
  <2> QED
    BY <2>1
<1>3. ASSUME NEW n \in 0..count, n # count, Defined(n)
      PROVE  Defined(n + 1)
  <2> HIDE DEF start, Round
  <2>1. PICK f : f = Rounds(f, n)
    BY <1>3
  <2> DEFINE g == [k \in 0..n + 1 |-> IF k = n + 1 THEN Round(f[n], n + 1) ELSE f[k]]
  <2>2. g = Rounds(g, n + 1)
    <3>1. ASSUME NEW k \in 0..n + 1
          PROVE  g[k] = Rounds(g, n + 1)[k]
      <4>1. CASE k = 0
        BY <1>1, <1>3, <2>1, <4>1
      <4>2. CASE k \in 1..n
        <5>1. k - 1 \in 0..n /\ k \in 0..n /\ k # n + 1 /\ k - 1 # n + 1
          BY <1>1, <1>3, <4>2
        <5>2. g[k] = f[k] /\ g[k - 1] = f[k - 1]
          BY <1>1, <5>1
        <5>3. Rounds(g, n + 1)[k] = Round(g[k - 1], k)
          BY <1>1, <4>2, <5>1
        <5>4. Rounds(f, n)[k] = Round(f[k - 1], k)
          BY <1>1, <4>2, <5>1
        <5> HIDE DEF g, Rounds
        <5> QED
          BY <2>1, <5>2, <5>3, <5>4
      <4>3. CASE k = n + 1
        <5>1. g[n + 1] = Round(f[n], n + 1) /\ g[n] = f[n]
          BY <1>1, <1>3
        <5>2. Rounds(g, n + 1)[n + 1] = Round(g[(n + 1) - 1], n + 1)
          BY <1>1, <1>3
        <5>3. (n + 1) - 1 = n
          BY <1>1
        <5> HIDE DEF g, Rounds
        <5> QED
          BY <4>3, <5>1, <5>2, <5>3
      <4> QED
        BY <1>1, <1>3, <4>1, <4>2, <4>3
    <3> QED
      BY <3>1
  <2> HIDE DEF g, Rounds
  <2> QED
    BY <2>2
<1>4. Defined(count)
  <2> HIDE DEF Defined
  <2>1. 0 \in T /\ \A n \in 0..count : n # count /\ n \in T => n + 1 \in T
    BY <1>1, <1>2, <1>3
  <2> HIDE DEF T
  <2>2. \A n \in 0..count : n \in T
    BY <1>1, <2>1, CountingUp, Zenon
  <2> QED
    BY <1>1, <2>2 DEF T
<1>5. PICK f : /\ f = Rounds(f, count)
               /\ Deleted(s, ids) =
                    IF f[count].first # count /\ f[count].last # count
                    THEN removeRange(f[count], f[count].first, f[count].last)
                    ELSE f[count]
  BY <1>4, Zenon DEF Deleted, count
<1> DEFINE g == Rounds(f, count)
<1>6. g[0] = start /\ \A k \in 1..count : g[k] = Round(f[k - 1], k)
  <2> HIDE DEF start, Round
  <2> QED
    BY <1>1
<1> HIDE DEF Rounds, g
<1>7. f = g
  BY <1>5, Zenon DEF g
<1> QED
  BY <1>5, <1>6, <1>7, Zenon DEF count, Loop

\* handleMessagesDeleted keeps the model sound and adds no row.
LEMMA DeletedSound ==
    ASSUME NEW S, NEW ids \in Seq(S), NEW s, Sound(s), NEW r, r = Deleted(s, ids)
    PROVE  Sound(r) /\ RowsFrom(r.list, s.list)
<1> DEFINE count == Len(ids)
<1>0. PICK f : Loop(f, s, ids)
  BY RoundsDef
<1>1. /\ f[0] = [list |-> s.list, map |-> s.map, albums |-> s.albums,
                 first |-> count, last |-> count]
      /\ \A k \in 1..count : f[k] = DeleteStep(f[k - 1], ids[count - k + 1], count)
      /\ r = IF f[count].first # count /\ f[count].last # count
             THEN removeRange(f[count], f[count].first, f[count].last)
             ELSE f[count]
  BY <1>0, Zenon DEF Loop
<1>2. count \in Nat
  OBVIOUS
<1> HIDE DEF count
<1> DEFINE Fine(t) == LoopSound(t, count) /\ RowsFrom(t.list, s.list)
           T == {k \in 0..count : Fine(f[k])}
<1>3. Fine(f[0])
  <2>1. /\ f[0].list = s.list /\ f[0].map = s.map /\ f[0].albums = s.albums
        /\ f[0].first = count /\ f[0].last = count
        /\ Parts(f[0]) /\ {"first", "last"} \subseteq DOMAIN f[0]
    BY <1>1 DEF Parts
  <2>2. Sound(f[0])
    BY <2>1 DEF Sound
  <2>3. RowsFrom(f[0].list, s.list)
    BY <2>1 DEF RowsFrom
  <2> QED
    BY <2>1, <2>2, <2>3 DEF LoopSound
<1>4. ASSUME NEW k \in 0..count, k # count, Fine(f[k])
      PROVE  Fine(f[k + 1])
  <2>1. k + 1 \in 1..count /\ (k + 1) - 1 = k
    BY <1>2, <1>4
  <2>2. f[k + 1] = DeleteStep(f[k], ids[count - (k + 1) + 1], count)
    BY <1>1, <2>1
  <2>3. LoopSound(f[k + 1], count) /\ RowsFrom(f[k + 1].list, f[k].list)
    BY <1>2, <1>4, <2>2, RoundSound
  <2>4. RowsFrom(f[k + 1].list, s.list)
    BY <1>4, <2>3, RowsFromFrom
  <2> QED
    BY <2>3, <2>4
<1>5. Fine(f[count])
  <2> HIDE DEF Fine
  <2>1. 0 \in T /\ \A k \in 0..count : k # count /\ k \in T => k + 1 \in T
    BY <1>2, <1>3, <1>4
  <2> HIDE DEF T
  <2>2. \A k \in 0..count : k \in T
    BY <1>2, <2>1, CountingUp, Zenon
  <2> QED
    BY <1>2, <2>2 DEF T
<1> DEFINE t == f[count]
<1>6. /\ Sound(t) /\ RowsFrom(t.list, s.list)
      /\ t.first \in 0..Len(t.list) - 1 \cup {count}
      /\ t.last \in 0..Len(t.list) - 1 \cup {count}
  BY <1>5 DEF LoopSound
<1>7. r = IF t.first # count /\ t.last # count
          THEN removeRange(t, t.first, t.last) ELSE t
  BY <1>1
<1> HIDE DEF t
<1>8. CASE t.first # count /\ t.last # count
  <2>1. t.first \in Int /\ t.last \in Int /\ t.last < Len(t.list)
    <3>1. Len(t.list) \in Nat
      BY <1>6, IdsByPosition DEF Sound
    <3> QED
      BY <1>6, <1>8, <3>1
  <2>2. r = removeRange(t, t.first, t.last)
    BY <1>7, <1>8
  <2>3. Sound(r) /\ RowsFrom(r.list, t.list)
    BY <1>6, <2>1, <2>2, RangeRemoved
  <2> QED
    BY <1>6, <2>3, RowsFromFrom
<1>9. CASE ~(t.first # count /\ t.last # count)
  BY <1>6, <1>7, <1>9
<1> QED
  BY <1>8, <1>9

\* The deletion of one message removes no other row.
LEMMA OneDeleted ==
    ASSUME NEW s, Sound(s), NEW id, NEW r, r = Deleted(s, <<id>>)
    PROVE  /\ Sound(r)
           /\ IdsOf(r.list) \subseteq IdsOf(s.list)
           /\ IdsOf(s.list) \ {id} \subseteq IdsOf(r.list)
<1> DEFINE ids == <<id>>
           n == Len(s.list)
<1>1. ids \in Seq({id}) /\ Len(ids) = 1 /\ ids[1] = id
  OBVIOUS
<1> HIDE DEF ids
<1>2. r = Deleted(s, ids)
  BY DEF ids
<1>3. Sound(r) /\ RowsFrom(r.list, s.list)
  BY <1>1, <1>2, DeletedSound
<1>4. s.list \in Seq(Row) /\ r.list \in Seq(Row)
      /\ IsIndexOf(s.map, s.list)
  BY <1>3 DEF Sound
<1>5. IdsOf(r.list) \subseteq IdsOf(s.list)
  BY <1>3, <1>4, IdsFrom
<1>6. PICK f : Loop(f, s, ids)
  BY <1>1, RoundsDef
<1> DEFINE start == f[0]
           u == f[1]
<1>7. /\ start = [list |-> s.list, map |-> s.map, albums |-> s.albums,
                  first |-> 1, last |-> 1]
      /\ u = DeleteStep(start, id, 1)
      /\ r = IF u.first # 1 /\ u.last # 1
             THEN removeRange(u, u.first, u.last) ELSE u
  <2>1. 1 \in 1..1 /\ 1 - 1 = 0 /\ 1 - 1 + 1 = 1
    OBVIOUS
  <2> QED
    BY <1>1, <1>2, <1>6, <2>1 DEF Loop
<1> HIDE DEF start, u
<1>8. /\ start.list = s.list /\ start.map = s.map /\ start.first = 1 /\ start.last = 1
      /\ Sound(start) /\ {"first", "last"} \subseteq DOMAIN start
  BY <1>7 DEF Sound, Parts
<1>9. CASE id \notin DOMAIN s.map
  <2>1. u = start
    BY <1>7, <1>8, <1>9 DEF DeleteStep
  <2> QED
    BY <1>3, <1>5, <1>7, <1>8, <2>1
<1>10. CASE id \in DOMAIN s.map
  <2> DEFINE p == s.map[id] - 1
  <2>1. p \in 0..n - 1 /\ n \in Nat /\ s.list[p + 1].id = id
    BY <1>4, <1>10, IdsDiffer, IdsByPosition
  <2> HIDE DEF n
  <2>2. u = SetRange(start, p, p)
    <3> DEFINE position == IF id \in DOMAIN start.map THEN start.map[id] - 1 ELSE -1
               last == IF start.last = 1 THEN position ELSE start.last
               first == IF start.first = 1 THEN position ELSE start.first
    <3>1. u = CASE position < 0 -> start
                [] position >= 0 /\ position < first - 1 ->
                      [removeRange(start, first, last) EXCEPT !.first = position,
                                                              !.last = position]
                [] OTHER -> [start EXCEPT !.first = position, !.last = last]
      BY <1>7, Zenon DEF DeleteStep
    <3>2. position = p /\ first = p /\ last = p
      BY <1>8, <1>10
    <3> HIDE DEF position, first, last, p
    <3>3. ~(p < 0) /\ ~(p < p - 1)
      BY <2>1
    <3> QED
      BY ONLY <3>1, <3>2, <3>3, Zenon DEF SetRange
  <2> HIDE DEF p
  <2>3. Sound(u) /\ u.list = s.list /\ u.first = p /\ u.last = p
    BY <1>8, <2>2, LoopRangeSet
  <2>4. CASE p = 1
    BY <1>3, <1>5, <1>7, <2>3, <2>4
  <2>5. CASE p # 1
    <3>1. r = removeRange(u, p, p)
      BY <1>7, <2>3, <2>5
    <3>2. p \in Int /\ p >= 0 /\ p <= p /\ p < Len(u.list)
      BY <2>1, <2>3 DEF n
    <3>3. IdsOf(r.list) = IdsOf(s.list) \ RangeIds(s.list, p, p)
      BY <2>3, <3>1, <3>2, RangeRemoved
    <3>4. p..p = {p}
      BY <3>2
    <3>5. RangeIds(s.list, p, p) = {id}
      BY <2>1, <3>4 DEF RangeIds
    <3> QED
      BY <1>3, <1>5, <3>3, <3>5
  <2> QED
    BY <2>4, <2>5
<1> QED
  BY <1>9, <1>10

-----------------------------------------------------------------------------
(***************************************************************************)
(* Inserting rows                                                          *)
(***************************************************************************)

\* std::sort of new messages: a list of all of them, each once.
LEMMA IdOrder ==
    ASSUME NEW ids \in SUBSET Ids, NEW l, l = InIdOrder(ids)
    PROVE  /\ l \in Seq(ids) /\ Len(l) \in Nat
           /\ \A i, j \in 1..Len(l) : l[i] = l[j] => i = j
           /\ ids = {l[i] : i \in 1..Len(l)}
<1> DEFINE R == {p \in ids \X ids : p[1] < p[2]}
           n == Cardinality(ids)
           Sorted(f) == \A i, j \in DOMAIN f : i < j => f[i] < f[j]
<1>1. IsFiniteSet(ids) /\ ids \subseteq Nat
  BY MessagesAssumption, FS_Subset DEF MessagesAssumption
<1>2. \A y, z \in ids : <<y, z>> \in R <=> y < z
  OBVIOUS
<1>3. n \in Nat
  BY <1>1, FS_CardinalityType
<1>4. \E f : Sorts(f, ids, R)
  <2>1. \A y, z \in ids : y # z => <<y, z>> \in R \/ <<z, y>> \in R
    BY <1>1, <1>2
  <2>2. \A w, y, z \in ids : <<w, y>> \in R /\ <<y, z>> \in R => <<w, z>> \in R
    <3> SUFFICES ASSUME NEW w \in ids, NEW y \in ids, NEW z \in ids,
                        <<w, y>> \in R, <<y, z>> \in R
                 PROVE  <<w, z>> \in R
      OBVIOUS
    <3>1. w < y /\ y < z
      BY <1>2
    <3>2. w < z
      BY <1>1, <3>1
    <3> QED
      BY <1>2, <3>2
  <2> HIDE DEF R
  <2> QED
    BY <1>1, <2>1, <2>2, SortedExists
<1> HIDE DEF R
<1>5. \A f : Sorts(f, ids, R) <=> f \in [1..n -> ids] /\ Sorted(f)
  <2> SUFFICES ASSUME NEW f \in [1..n -> ids]
               PROVE  Sorts(f, ids, R) <=> Sorted(f)
    BY DEF Sorts
  <2>1. DOMAIN f = 1..n /\ \A i \in 1..n : f[i] \in ids
    OBVIOUS
  <2>2. \A i, j \in 1..n : <<f[i], f[j]>> \in R <=> f[i] < f[j]
    BY <1>2, <2>1
  <2> HIDE DEF n
  <2> QED
    BY <2>1, <2>2 DEF Sorts, n
<1>6. l \in [1..n -> ids] /\ Sorted(l)
  <2>1. \E f \in [1..n -> ids] : Sorted(f)
    BY <1>4, <1>5
  <2> HIDE DEF n
  <2>2. l = CHOOSE f \in [1..n -> ids] : Sorted(f)
    BY Zenon DEF InIdOrder, n, Cardinality, Cardinality
  <2> HIDE DEF Sorted
  <2> QED
    BY <2>1, <2>2
<1>7. Sorts(l, ids, R)
  BY <1>5, <1>6
<1>8. \A y \in ids : <<y, y>> \notin R
  BY <1>1, <1>2
<1>9. /\ \A i, j \in 1..n : l[i] = l[j] => i = j
      /\ \A y \in ids : \E i \in 1..n : l[i] = y
  <2>1. IsFiniteSet(ids)
    BY <1>1
  <2>2. /\ Cardinality(ids) \in Nat
        /\ \A i, j \in 1..Cardinality(ids) : l[i] = l[j] => i = j
        /\ \A y \in ids : \E i \in 1..Cardinality(ids) : l[i] = y
    BY ONLY <2>1, <1>7, <1>8, SortedOnto
  <2> QED
    BY <2>2
<1> HIDE DEF n, Sorted
<1>10. l \in Seq(ids) /\ Len(l) = n
  BY <1>3, <1>6, ListOf
<1>11. \A i \in 1..n : l[i] \in ids
  BY <1>6
<1> QED
  BY <1>3, <1>9, <1>10, <1>11

\* The rows of new messages.
NewRows(new) == [i \in DOMAIN new |-> MessageData(new[i])]

LEMMA NewRowsTyped ==
    ASSUME NEW new \in Seq(Ids)
    PROVE  /\ NewRows(new) \in Seq(Row) /\ Len(NewRows(new)) = Len(new)
           /\ \A i \in 1..Len(new) : /\ NewRows(new)[i] = MessageData(new[i])
                                     /\ NewRows(new)[i].id = new[i]
<1>1. Len(new) \in Nat /\ DOMAIN new = 1..Len(new) /\ \A i \in 1..Len(new) : new[i] \in Ids
  OBVIOUS
<1>2. \A i \in 1..Len(new) : MessageData(new[i]) \in Row /\ MessageData(new[i]).id = new[i]
  BY <1>1 DEF MessageData, Row
<1>3. /\ NewRows(new) \in [1..Len(new) -> Row]
      /\ \A i \in 1..Len(new) : NewRows(new)[i] = MessageData(new[i])
  BY <1>1, <1>2 DEF NewRows
<1> HIDE DEF NewRows
<1>4. NewRows(new) \in Seq(Row) /\ Len(NewRows(new)) = Len(new)
  BY <1>1, <1>3, ListOf
<1> QED
  BY <1>2, <1>3, <1>4

\* Two lists without a message in common, one behind the other.
Join(l, m) == l \o m

LEMMA Joined ==
    ASSUME NEW l \in Seq(Row), NEW m \in Seq(Row),
           \A i, j \in 1..Len(l) : l[i].id = l[j].id => i = j,
           \A i, j \in 1..Len(m) : m[i].id = m[j].id => i = j,
           IdsOf(l) \cap IdsOf(m) = {},
           NEW k, k = Join(l, m)
    PROVE  /\ k \in Seq(Row) /\ Len(k) = Len(l) + Len(m)
           /\ \A i \in 1..Len(k) :
                k[i] = IF i <= Len(l) THEN l[i] ELSE m[i - Len(l)]
           /\ \A i, j \in 1..Len(k) : k[i].id = k[j].id => i = j
           /\ IdsOf(k) = IdsOf(l) \cup IdsOf(m)
<1> DEFINE a == Len(l)
           b == Len(m)
<1>1. /\ k \in Seq(Row) /\ Len(k) = a + b
      /\ \A i \in 1..a + b : k[i] = IF i <= a THEN l[i] ELSE m[i - a]
  BY ConcatProperties DEF Join
<1>2. /\ a \in Nat /\ IdsOf(l) = {l[i].id : i \in 1..a}
      /\ \A i \in 1..a : l[i].id \in IdsOf(l)
  BY IdsByPosition
<1>3. /\ b \in Nat /\ IdsOf(m) = {m[i].id : i \in 1..b}
      /\ \A i \in 1..b : m[i].id \in IdsOf(m)
  BY IdsByPosition
<1>4. IdsOf(k) = {k[i].id : i \in 1..a + b}
  BY <1>1, IdsByPosition
<1> HIDE DEF a, b
<1>5. \A i \in 1..a + b : i <= a => i \in 1..a /\ k[i] = l[i]
  BY <1>1, <1>2, <1>3
<1>6. \A i \in 1..a + b : ~(i <= a) => i - a \in 1..b /\ k[i] = m[i - a]
  BY <1>1, <1>2, <1>3
<1>7. IdsOf(k) \subseteq IdsOf(l) \cup IdsOf(m)
  <2>1. \A i \in 1..a + b : k[i].id \in IdsOf(l) \cup IdsOf(m)
    BY <1>2, <1>3, <1>5, <1>6
  <2> QED
    BY <1>4, <2>1
<1>8. \A i \in 1..a : i \in 1..a + b /\ i <= a
  BY <1>2, <1>3
<1>9. \A i \in 1..b : i + a \in 1..a + b /\ ~(i + a <= a) /\ (i + a) - a = i
  BY <1>2, <1>3
<1>10. IdsOf(l) \subseteq IdsOf(k)
  BY <1>2, <1>4, <1>5, <1>8
<1>11. IdsOf(m) \subseteq IdsOf(k)
  <2> SUFFICES ASSUME NEW i \in 1..b PROVE m[i].id \in IdsOf(k)
    BY <1>3
  <2>1. k[i + a] = m[i] /\ i + a \in 1..a + b
    BY <1>6, <1>9
  <2> QED
    BY <1>4, <2>1
<1>12. ASSUME NEW i \in 1..a + b, NEW j \in 1..a + b, k[i].id = k[j].id
       PROVE  i = j
  <2>1. CASE i <= a /\ j <= a
    BY <1>5, <1>12, <2>1 DEF a
  <2>2. CASE ~(i <= a) /\ ~(j <= a)
    <3>1. i - a = j - a
      BY <1>6, <1>12, <2>2 DEF b
    <3> QED
      BY <1>2, <1>3, <3>1
  <2>3. CASE i <= a /\ ~(j <= a)
    BY <1>2, <1>3, <1>5, <1>6, <1>12, <2>3
  <2>4. CASE ~(i <= a) /\ j <= a
    BY <1>2, <1>3, <1>5, <1>6, <1>12, <2>4
  <2> QED
    BY <2>1, <2>2, <2>3, <2>4
<1> QED
  BY <1>1, <1>7, <1>10, <1>11, <1>12 DEF a, b

\* The list l has the messages of k and the new ones.
Adds(l, k, new) ==
    \A m : m \in IdsOf(l) <=>
        m \in IdsOf(k) \/ \E i \in 1..Len(new) : m = new[i]

\* insertMessages: the new rows and the old ones, with an exact index.
LEMMA Inserted ==
    ASSUME NEW s, Sound(s), NEW new \in Seq(Ids),
           \A i, j \in 1..Len(new) : new[i] = new[j] => i = j,
           \A i \in 1..Len(new) : new[i] \notin DOMAIN s.map,
           NEW t, t = insertMessages(s, new)
    PROVE  /\ Parts(t) /\ t.list \in Seq(Row) /\ t.albums = s.albums
           /\ IsIndexOf(t.map, t.list)
           /\ Adds(t.list, s.list, new)
           /\ \A i \in 1..Len(t.list) :
                \/ \E j \in 1..Len(s.list) : t.list[i] = s.list[j]
                \/ \E j \in 1..Len(new) : t.list[i] = MessageData(new[j])
<1> DEFINE l == s.list
           rows == NewRows(new)
           a == Len(l)
           b == Len(new)
           appended == l = <<>> \/ l[Len(l)].id < new[1]
           k == IF appended THEN l \o rows ELSE rows \o l
           from == IF appended THEN a + 1 ELSE 1
           map == Reindexed(s.map, k, from, Len(k))
<1>1. Parts(s) /\ l \in Seq(Row) /\ IsIndexOf(s.map, l)
  BY DEF Sound
<1>2. /\ rows \in Seq(Row) /\ Len(rows) = b
      /\ \A i \in 1..b : rows[i] = MessageData(new[i]) /\ rows[i].id = new[i]
  BY NewRowsTyped
<1>3. a \in Nat /\ b \in Nat
  BY <1>1, IdsByPosition
<1>4. t = [s EXCEPT !.list = k, !.map = map]
  <2>1. rows = [i \in DOMAIN new |-> MessageData(new[i])]
    BY DEF NewRows
  <2> HIDE DEF rows
  <2>2. insertMessages(s, new) =
          [s EXCEPT !.list = k, !.map = Reindexed(@, k, from, Len(k))]
    BY <2>1, Zenon DEF insertMessages
  <2> HIDE DEF appended, k, from
  <2> QED
    BY <2>2
<1>5. t.list = k /\ t.map = map /\ t.albums = s.albums /\ Parts(t)
  <2> HIDE DEF k, map
  <2> QED
    BY <1>1, <1>4 DEF Parts
<1> HIDE DEF l, rows, appended, a, b
<1>6. /\ \A i, j \in 1..a : l[i].id = l[j].id => i = j
      /\ \A i \in 1..a : l[i].id \in DOMAIN s.map /\ s.map[l[i].id] = i
      /\ DOMAIN s.map = IdsOf(l)
  <2>1. DOMAIN s.map = IdsOf(l)
    BY <1>1 DEF IsIndexOf
  <2> QED
    BY <1>1, <2>1, IdsDiffer DEF a
<1>7. \A i, j \in 1..b : rows[i].id = rows[j].id => i = j
  BY <1>2 DEF b
<1>8. IdsOf(rows) = {new[i] : i \in 1..b}
  <2>1. IdsOf(rows) = {rows[i].id : i \in 1..b}
    BY <1>2, IdsByPosition
  <2> QED
    BY <1>2, <2>1
<1>9. IdsOf(l) \cap IdsOf(rows) = {}
  BY <1>6, <1>8 DEF b
<1>10. /\ \A i, j \in 1..Len(l) : l[i].id = l[j].id => i = j
       /\ \A i, j \in 1..Len(rows) : rows[i].id = rows[j].id => i = j
       /\ IdsOf(l) \cap IdsOf(rows) = {} /\ IdsOf(rows) \cap IdsOf(l) = {}
  BY <1>2, <1>6, <1>7, <1>9 DEF a
<1>11. /\ k \in Seq(Row) /\ IdsOf(k) = IdsOf(l) \cup {new[i] : i \in 1..b}
       /\ \A i \in 1..Len(k) : \/ \E j \in 1..a : k[i] = l[j]
                               \/ \E j \in 1..b : k[i] = MessageData(new[j])
       /\ IsIndexOf(map, k)
  <2>1. CASE appended
    <3>1. k = Join(l, rows) /\ from = a + 1
      BY <2>1, Zenon DEF Join
    <3> HIDE DEF k, from
    <3>2. /\ k \in Seq(Row) /\ Len(k) = a + b
          /\ \A i \in 1..Len(k) : k[i] = IF i <= a THEN l[i] ELSE rows[i - a]
          /\ \A i, j \in 1..Len(k) : k[i].id = k[j].id => i = j
          /\ IdsOf(k) = IdsOf(l) \cup IdsOf(rows)
      <4>1. /\ k \in Seq(Row) /\ Len(k) = Len(l) + Len(rows)
            /\ \A i \in 1..Len(k) :
                  k[i] = IF i <= Len(l) THEN l[i] ELSE rows[i - Len(l)]
            /\ \A i, j \in 1..Len(k) : k[i].id = k[j].id => i = j
            /\ IdsOf(k) = IdsOf(l) \cup IdsOf(rows)
        <5>1. l \in Seq(Row) /\ rows \in Seq(Row)
          BY <1>1, <1>2
        <5> QED
          BY ONLY <5>1, <1>10, <3>1, Joined
      <4>2. Len(l) = a /\ Len(rows) = b
        BY <1>2 DEF a
      <4> QED
        BY <4>1, <4>2
    <3>3. IsIndexOf(map, k)
      <4>1. from \in 1..Len(k) + 1
        BY <1>3, <3>1, <3>2
      <4>2. \A i \in 1..Len(k) : i < from => k[i].id \in DOMAIN s.map /\ s.map[k[i].id] = i
        <5> SUFFICES ASSUME NEW i \in 1..Len(k), i < from
                     PROVE  k[i].id \in DOMAIN s.map /\ s.map[k[i].id] = i
          OBVIOUS
        <5>1. i \in 1..a /\ k[i] = l[i]
          BY <1>3, <3>1, <3>2
        <5> QED
          BY <1>6, <5>1
      <4>3. DOMAIN s.map \subseteq IdsOf(k)
        BY <1>6, <3>2
      <4> QED
        BY <3>2, <4>1, <4>2, <4>3, Repaired
    <3>4. ASSUME NEW i \in 1..Len(k)
          PROVE  \/ \E j \in 1..a : k[i] = l[j]
                 \/ \E j \in 1..b : k[i] = MessageData(new[j])
      <4>1. i <= a => i \in 1..a /\ k[i] = l[i]
        BY <1>3, <3>2
      <4>2. ~(i <= a) => i - a \in 1..b /\ k[i] = rows[i - a]
        BY <1>3, <3>2
      <4> QED
        BY <1>2, <4>1, <4>2
    <3> QED
      BY <1>8, <3>2, <3>3, <3>4
  <2>2. CASE ~appended
    <3>1. k = Join(rows, l) /\ from = 1
      BY <2>2, Zenon DEF Join
    <3> HIDE DEF k, from
    <3>2. /\ k \in Seq(Row) /\ Len(k) = b + a
          /\ \A i \in 1..Len(k) : k[i] = IF i <= b THEN rows[i] ELSE l[i - b]
          /\ \A i, j \in 1..Len(k) : k[i].id = k[j].id => i = j
          /\ IdsOf(k) = IdsOf(rows) \cup IdsOf(l)
      <4>1. /\ k \in Seq(Row) /\ Len(k) = Len(rows) + Len(l)
            /\ \A i \in 1..Len(k) :
                  k[i] = IF i <= Len(rows) THEN rows[i] ELSE l[i - Len(rows)]
            /\ \A i, j \in 1..Len(k) : k[i].id = k[j].id => i = j
            /\ IdsOf(k) = IdsOf(rows) \cup IdsOf(l)
        <5>1. l \in Seq(Row) /\ rows \in Seq(Row)
          BY <1>1, <1>2
        <5> QED
          BY ONLY <5>1, <1>10, <3>1, Joined
      <4>2. Len(l) = a /\ Len(rows) = b
        BY <1>2 DEF a
      <4> QED
        BY <4>1, <4>2
    <3>3. IsIndexOf(map, k)
      <4>1. from \in 1..Len(k) + 1
        BY <1>3, <3>1, <3>2
      <4>2. \A i \in 1..Len(k) : i < from => k[i].id \in DOMAIN s.map /\ s.map[k[i].id] = i
        BY <1>3, <3>1, <3>2
      <4>3. DOMAIN s.map \subseteq IdsOf(k)
        BY <1>6, <3>2
      <4> QED
        BY <3>2, <4>1, <4>2, <4>3, Repaired
    <3>4. ASSUME NEW i \in 1..Len(k)
          PROVE  \/ \E j \in 1..a : k[i] = l[j]
                 \/ \E j \in 1..b : k[i] = MessageData(new[j])
      <4>1. ~(i <= b) => i - b \in 1..a /\ k[i] = l[i - b]
        BY <1>3, <3>2
      <4>2. i <= b => i \in 1..b /\ k[i] = rows[i]
        BY <1>3, <3>2
      <4> QED
        BY <1>2, <4>1, <4>2
    <3> QED
      BY <1>8, <3>2, <3>3, <3>4
  <2> QED
    BY <2>1, <2>2
<1> HIDE DEF k, map
<1> QED
  BY <1>5, <1>11 DEF l, a, b, Adds

\* handleInsertMessages keeps the model sound; its rows are the old ones, and
\* unknown messages of the batch as TDLib has them now.
LEMMA InsertSound ==
    ASSUME NEW s, Sound(s), NEW batch \in SUBSET Ids,
           NEW r, r = handleInsertMessages(s, batch)
    PROVE  /\ Sound(r)
           /\ IdsOf(r.list) = IdsOf(s.list) \cup batch
           /\ \A i \in 1..Len(r.list) :
                \/ \E j \in 1..Len(s.list) : /\ r.list[i].id = s.list[j].id
                                             /\ r.list[i].edited = s.list[j].edited
                \/ /\ r.list[i].id \in batch
                   /\ r.list[i].edited = (r.list[i].id \in edited)
<1> DEFINE new == batch \ DOMAIN s.map
           ids == InIdOrder(new)
           t == insertMessages(s, ids)
           l == s.list
           albums == [a \in DOMAIN t.albums \cup AlbumsOf(new) |->
                        (IF a \in DOMAIN t.albums THEN t.albums[a] ELSE {})
                            \cup {m \in new : AlbumOf[m] = a}]
           u == [t EXCEPT !.albums = albums]
<1>1. CASE new = {}
  <2>1. r = s
    BY <1>1 DEF handleInsertMessages
  <2>2. batch \subseteq IdsOf(s.list)
    BY <1>1 DEF Sound, IsIndexOf
  <2> HIDE DEF new
  <2> QED
    BY <2>1, <2>2
<1>2. CASE new # {}
  <2>1. r = updateAlbumMessages(u, AlbumsOf(new), FALSE)
    BY <1>2, Zenon DEF handleInsertMessages, setMessagesAlbum
  <2>2. /\ ids \in Seq(new) /\ Len(ids) \in Nat
        /\ \A i, j \in 1..Len(ids) : ids[i] = ids[j] => i = j
        /\ new = {ids[i] : i \in 1..Len(ids)}
    <3> HIDE DEF ids
    <3>1. new \in SUBSET Ids
      OBVIOUS
    <3>2. ids = InIdOrder(new)
      BY DEF ids
    <3> HIDE DEF new
    <3> QED
      BY <3>1, <3>2, IdOrder
  <2> HIDE DEF ids
  <2>3. ids \in Seq(Ids) /\ \A i \in 1..Len(ids) : ids[i] \in new /\ ids[i] \notin DOMAIN s.map
    BY <2>2
  <2>4. /\ Parts(t) /\ t.list \in Seq(Row) /\ t.albums = s.albums
        /\ IsIndexOf(t.map, t.list)
        /\ IdsOf(t.list) = IdsOf(l) \cup new
        /\ \A i \in 1..Len(t.list) :
              \/ \E j \in 1..Len(l) : t.list[i] = l[j]
              \/ \E j \in 1..Len(ids) : t.list[i] = MessageData(ids[j])
    <3>0. t = insertMessages(s, ids)
      OBVIOUS
    <3> HIDE DEF t, new
    <3>1. /\ Parts(t) /\ t.list \in Seq(Row) /\ t.albums = s.albums
          /\ IsIndexOf(t.map, t.list)
          /\ Adds(t.list, s.list, ids)
          /\ \A i \in 1..Len(t.list) :
                \/ \E j \in 1..Len(l) : t.list[i] = l[j]
                \/ \E j \in 1..Len(ids) : t.list[i] = MessageData(ids[j])
      <4>1. \A i, j \in 1..Len(ids) : ids[i] = ids[j] => i = j
        BY <2>2
      <4>2. ids \in Seq(Ids)
        BY <2>3
      <4>3. \A i \in 1..Len(ids) : ids[i] \notin DOMAIN s.map
        BY <2>3
      <4>4. Parts(t) /\ t.list \in Seq(Row) /\ t.albums = s.albums
        BY <4>1, <4>2, <4>3, <3>0, Inserted
      <4>5. IsIndexOf(t.map, t.list)
        BY <4>1, <4>2, <4>3, <3>0, Inserted
      <4>6. Adds(t.list, s.list, ids)
        BY <4>1, <4>2, <4>3, <3>0, Inserted
      <4>7. \A i \in 1..Len(t.list) :
                \/ \E j \in 1..Len(l) : t.list[i] = l[j]
                \/ \E j \in 1..Len(ids) : t.list[i] = MessageData(ids[j])
        BY <4>1, <4>2, <4>3, <3>0, Inserted
      <4> QED
        BY <4>4, <4>5, <4>6, <4>7
    <3> QED
      BY <2>2, <3>1 DEF Adds
  <2> HIDE DEF t
  <2>5. /\ u.list = t.list /\ u.map = t.map /\ u.albums = albums /\ Parts(u)
    <3> HIDE DEF albums
    <3> QED
      BY <2>4 DEF Parts
  <2>6. AlbumsExact(l, s.albums) /\ l \in Seq(Row)
    BY DEF Sound
  <2>7. DOMAIN l = 1..Len(l) /\ IdsOf(l) = {l[i].id : i \in 1..Len(l)}
    BY <2>6, IdsByPosition
  <2> HIDE DEF u, l, new
  <2>8. \A a \in DOMAIN s.albums : a # 0 /\ s.albums[a] = Together(l, a)
    BY <2>6 DEF AlbumsExact
  <2>9. \A a : Together(t.list, a) = Together(l, a) \cup {m \in new : AlbumOf[m] = a}
    BY <2>4 DEF Together
  <2>10. \A a : a # 0 /\ a \notin DOMAIN s.albums => Together(l, a) = {}
    <3> SUFFICES ASSUME NEW a, a # 0, a \notin DOMAIN s.albums,
                        NEW m \in IdsOf(l), AlbumOf[m] = a
                 PROVE  FALSE
      BY DEF Together
    <3>1. PICK i \in 1..Len(l) : m = l[i].id
      BY <2>7
    <3> QED
      BY <2>6, <2>7, <3>1 DEF AlbumsExact
  <2>11. \A a \in DOMAIN u.albums :
            a # 0 /\ Rescanned(u, AlbumsOf(new), FALSE, a) = Together(u.list, a)
    <3> SUFFICES ASSUME NEW a \in DOMAIN albums
                 PROVE  a # 0 /\ albums[a] = Together(t.list, a)
      BY <2>5 DEF Rescanned
    <3>1. a \in DOMAIN s.albums \/ a \in AlbumsOf(new)
      BY <2>4
    <3>2. a # 0
      BY <2>8, <3>1 DEF AlbumsOf
    <3>3. albums[a] = (IF a \in DOMAIN s.albums THEN s.albums[a] ELSE {})
                        \cup {m \in new : AlbumOf[m] = a}
      BY <2>4
    <3> HIDE DEF albums
    <3> QED
      BY <2>8, <2>9, <2>10, <3>2, <3>3
  <2>12. DOMAIN albums = DOMAIN s.albums \cup AlbumsOf(new)
    BY <2>4
  <2> HIDE DEF albums
  <2>13. ASSUME NEW i \in 1..Len(u.list), AlbumOf[u.list[i].id] # 0
         PROVE  /\ AlbumOf[u.list[i].id] \in DOMAIN u.albums
                /\ AlbumOf[u.list[i].id] \notin AlbumsOf(new) =>
                    Displays(u.list[i], Together(u.list, AlbumOf[u.list[i].id]))
    <3> DEFINE row == t.list[i]
               a == AlbumOf[row.id]
    <3>1. u.list[i] = row /\ a # 0 /\ i \in 1..Len(t.list)
      BY <2>5, <2>13
    <3>2. CASE \E j \in 1..Len(l) : row = l[j]
      <4>1. PICK j \in 1..Len(l) : row = l[j]
        BY <3>2
      <4> HIDE DEF row
      <4>2. a \in DOMAIN s.albums /\ Displays(row, Together(l, a))
        BY <2>6, <2>7, <3>1, <4>1 DEF AlbumsExact
      <4>3. a \notin AlbumsOf(new) => {m \in new : AlbumOf[m] = a} = {}
        BY <3>1 DEF AlbumsOf
      <4>4. a \notin AlbumsOf(new) => Together(t.list, a) = Together(l, a)
        BY <2>9, <4>3
      <4> QED
        BY <2>5, <2>12, <3>1, <4>2, <4>4
    <3>3. CASE \E j \in 1..Len(ids) : row = MessageData(ids[j])
      <4>1. PICK j \in 1..Len(ids) : row = MessageData(ids[j])
        BY <3>3
      <4>2. row.id = ids[j]
        BY <4>1 DEF MessageData
      <4>3. a \in AlbumsOf(new)
        BY <2>3, <3>1, <4>2 DEF AlbumsOf
      <4> HIDE DEF row
      <4> QED
        BY <2>5, <2>12, <3>1, <4>3
    <3> QED
      BY <2>4, <3>1, <3>2, <3>3
  <2>14. Sound(r) /\ SameRows(r.list, t.list)
    BY <2>1, <2>4, <2>5, <2>11, <2>13, AlbumsUpdated
  <2>15. ASSUME NEW i \in 1..Len(r.list)
         PROVE  \/ \E j \in 1..Len(l) : /\ r.list[i].id = l[j].id
                                        /\ r.list[i].edited = l[j].edited
                \/ /\ r.list[i].id \in batch
                   /\ r.list[i].edited = (r.list[i].id \in edited)
    <3>1. /\ i \in 1..Len(t.list) /\ r.list[i].id = t.list[i].id
          /\ r.list[i].edited = t.list[i].edited
      BY <2>14 DEF SameRows
    <3>2. CASE \E j \in 1..Len(l) : t.list[i] = l[j]
      BY <3>1, <3>2
    <3>3. CASE \E j \in 1..Len(ids) : t.list[i] = MessageData(ids[j])
      <4>1. PICK j \in 1..Len(ids) : t.list[i] = MessageData(ids[j])
        BY <3>3
      <4>2. t.list[i].id = ids[j] /\ t.list[i].edited = (ids[j] \in edited)
        BY <4>1 DEF MessageData
      <4>3. ids[j] \in batch
        BY <2>3 DEF new
      <4> QED
        BY <3>1, <4>2, <4>3
    <3> QED
      BY <2>4, <3>1, <3>2, <3>3
  <2>16. IdsOf(r.list) = IdsOf(l) \cup batch
    <3>1. r.list \in Seq(Row)
      BY <2>14 DEF Sound
    <3>2. IdsOf(r.list) = IdsOf(l) \cup new
      BY <2>4, <2>14, <3>1, SameIds
    <3>3. DOMAIN s.map = IdsOf(l)
      BY DEF Sound, IsIndexOf, l
    <3> QED
      BY ONLY <3>2, <3>3, Zenon DEF new
  <2> QED
    BY <2>14, <2>15, <2>16 DEF l
<1> QED
  BY <1>1, <1>2

-----------------------------------------------------------------------------
(***************************************************************************)
(* The inductive invariant.  Besides the properties it has the contents of *)
(* albumMessageMap, and that a row is of a message that exists or has been *)
(* deleted: an identifier that arrives is either shown or was never used.  *)
(***************************************************************************)
ListSound ==
    /\ messages \in Seq(Row)
    /\ IndexMapExact
    /\ AlbumsExact(messages, albumMessageMap)

MessagesKnown ==
    /\ existing \subseteq Ids
    /\ deleted \subseteq Ids \ existing
    /\ edited \subseteq existing
    /\ IdsOf(messages) \subseteq existing \cup deleted

IInv == ListSound /\ MessagesKnown /\ UpdatesReachTheirRow

LEMMA InitIInv == Init => IInv
<1> SUFFICES ASSUME Init PROVE IInv
  OBVIOUS
<1>1. messages \in Seq(Row) /\ DOMAIN messages = {}
  BY DEF Init
<1>2. IdsOf(messages) = {}
  BY <1>1 DEF IdsOf
<1>3. DOMAIN messageIndexMap = {} /\ DOMAIN albumMessageMap = {}
  BY DEF Init
<1>4. ListSound
  BY <1>1, <1>2, <1>3 DEF ListSound, IndexMapExact, IsIndexOf, AlbumsExact
<1>5. UpdatesReachTheirRow
  BY <1>1 DEF UpdatesReachTheirRow
<1>6. MessagesKnown
  BY <1>2 DEF MessagesKnown, Init
<1> QED
  BY <1>4, <1>5, <1>6 DEF IInv

\* The model as a record.
LEMMA ModelSound ==
    ASSUME ListSound
    PROVE  Sound(Model) /\ Model.list = messages
<1>1. /\ Model.list = messages /\ Model.map = messageIndexMap
      /\ Model.albums = albumMessageMap /\ Parts(Model)
  BY DEF Model, Parts
<1> QED
  BY <1>1 DEF ListSound, Sound, IndexMapExact

LEMMA SoundModel ==
    ASSUME NEW r, Sound(r), SetModel(r)
    PROVE  ListSound' /\ messages' = r.list
BY DEF SetModel, Sound, ListSound, IndexMapExact

\* What the environment knows of the messages, and what an action says of the
\* rows behind it, is what UpdatesReachTheirRow and MessagesKnown need.
LEMMA InsertStep ==
    ASSUME IInv, NEW batch \in SUBSET Ids, InsertMessages(batch)
    PROVE  IInv'
<1> DEFINE r == handleInsertMessages(Model, batch)
<1>1. ListSound /\ MessagesKnown /\ UpdatesReachTheirRow
  BY DEF IInv
<1>2. /\ batch \cap deleted = {} /\ existing' = existing \cup batch
      /\ SetModel(r) /\ deleted' = deleted /\ edited' = edited
  BY DEF InsertMessages
<1>3. Sound(Model) /\ Model.list = messages
  BY <1>1, ModelSound
<1>4. /\ Sound(r)
      /\ \A i \in 1..Len(r.list) :
            \/ \E j \in 1..Len(messages) : /\ r.list[i].id = messages[j].id
                                           /\ r.list[i].edited = messages[j].edited
            \/ /\ r.list[i].id \in batch
               /\ r.list[i].edited = (r.list[i].id \in edited)
  <2>1. r = handleInsertMessages(Model, batch)
    OBVIOUS
  <2> HIDE DEF r
  <2> QED
    BY <1>3, <2>1, InsertSound, SMTT(30)
<1> HIDE DEF r
<1>5. ListSound' /\ messages' = r.list
  BY <1>2, <1>4, SoundModel
<1>6. /\ DOMAIN messages = 1..Len(messages) /\ DOMAIN r.list = 1..Len(r.list)
      /\ \A j \in 1..Len(messages) : messages[j].id \in IdsOf(messages)
      /\ IdsOf(r.list) = {r.list[i].id : i \in 1..Len(r.list)}
  BY <1>1, <1>4, IdsByPosition DEF ListSound, Sound
<1>7. ASSUME NEW i \in 1..Len(r.list)
      PROVE  /\ r.list[i].id \in existing' \cup deleted'
             /\ r.list[i].id \in existing' =>
                  r.list[i].edited = (r.list[i].id \in edited')
  <2>1. CASE \E j \in 1..Len(messages) : /\ r.list[i].id = messages[j].id
                                         /\ r.list[i].edited = messages[j].edited
    <3>1. PICK j \in 1..Len(messages) : /\ r.list[i].id = messages[j].id
                                        /\ r.list[i].edited = messages[j].edited
      BY <2>1
    <3>2. messages[j].id \in existing \cup deleted
      BY <1>1, <1>6 DEF MessagesKnown
    <3>3. messages[j].id \in existing => messages[j].edited = (messages[j].id \in edited)
      BY <1>1, <1>6 DEF UpdatesReachTheirRow
    <3>4. messages[j].id \in existing' => messages[j].id \in existing
      BY <1>1, <1>2, <3>2 DEF MessagesKnown
    <3> QED
      BY <1>2, <3>1, <3>2, <3>3, <3>4
  <2>2. CASE /\ r.list[i].id \in batch
             /\ r.list[i].edited = (r.list[i].id \in edited)
    BY <1>2, <2>2
  <2> QED
    BY <1>4, <2>1, <2>2
<1>8. UpdatesReachTheirRow'
  BY <1>5, <1>6, <1>7 DEF UpdatesReachTheirRow
<1>9. IdsOf(r.list) \subseteq existing' \cup deleted'
  BY <1>6, <1>7
<1>10. MessagesKnown'
  BY <1>1, <1>2, <1>5, <1>9 DEF MessagesKnown
<1> QED
  BY <1>5, <1>8, <1>10 DEF IInv

\* A step that adds no row keeps what is known of the rows, if it takes no
\* more from edited than from existing.
LEMMA FewerRows ==
    ASSUME IInv, ListSound', RowsFrom(messages', messages),
           existing' \subseteq existing, deleted' \subseteq Ids \ existing',
           existing \cup deleted \subseteq existing' \cup deleted',
           edited' = edited \cap existing'
    PROVE  IInv'
<1>1. ListSound /\ MessagesKnown /\ UpdatesReachTheirRow
  BY DEF IInv
<1>2. messages \in Seq(Row) /\ messages' \in Seq(Row)
  BY <1>1 DEF ListSound
<1>3. IdsOf(messages') \subseteq IdsOf(messages)
  BY <1>2, IdsFrom
<1>4. MessagesKnown'
  <2>1. IdsOf(messages)' = IdsOf(messages')
    BY DEF IdsOf
  <2> QED
    BY <1>1, <1>3, <2>1 DEF MessagesKnown
<1>5. DOMAIN messages = 1..Len(messages) /\ DOMAIN messages' = 1..Len(messages')
  BY <1>2, IdsByPosition
<1>6. ASSUME NEW i \in 1..Len(messages'), messages'[i].id \in existing'
      PROVE  messages'[i].edited = (messages'[i].id \in edited')
  <2>1. PICK j \in 1..Len(messages) : /\ messages'[i].id = messages[j].id
                                      /\ messages'[i].edited = messages[j].edited
    BY DEF RowsFrom
  <2>2. messages[j].edited = (messages[j].id \in edited)
    BY <1>1, <1>5, <1>6, <2>1 DEF UpdatesReachTheirRow
  <2> QED
    BY <1>6, <2>1, <2>2
<1>7. UpdatesReachTheirRow'
  BY <1>5, <1>6 DEF UpdatesReachTheirRow
<1> QED
  BY <1>4, <1>7 DEF IInv

LEMMA DeleteBatchStep ==
    ASSUME IInv, NEW batch \in SUBSET Ids, handleMessagesDeleted(batch)
    PROVE  IInv'
<1> DEFINE ids == InIdOrder(batch)
           r == Deleted(Model, ids)
<1>1. /\ existing' = existing \ batch /\ deleted' = deleted \cup batch
      /\ edited' = edited \ batch /\ SetModel(r) /\ batch \subseteq existing
  BY DEF handleMessagesDeleted
<1>2. ListSound /\ MessagesKnown
  BY DEF IInv
<1>3. Sound(Model) /\ Model.list = messages
  BY <1>2, ModelSound
<1>4. ids \in Seq(batch)
  <2>1. ids = InIdOrder(batch)
    OBVIOUS
  <2> HIDE DEF ids
  <2> QED
    BY <2>1, IdOrder
<1>5. Sound(r) /\ RowsFrom(r.list, messages)
  <2>1. r = Deleted(Model, ids)
    OBVIOUS
  <2> HIDE DEF ids, r
  <2> QED
    BY <1>3, <1>4, <2>1, DeletedSound
<1> HIDE DEF r
<1>6. ListSound' /\ messages' = r.list
  BY <1>1, <1>5, SoundModel
<1>7. /\ existing' \subseteq existing /\ deleted' \subseteq Ids \ existing'
      /\ existing \cup deleted \subseteq existing' \cup deleted'
      /\ edited' = edited \cap existing'
  BY <1>1, <1>2 DEF MessagesKnown
<1> QED
  BY <1>5, <1>6, <1>7, FewerRows

\* A message gets its final identifier: its row is removed and a new one is
\* appended; neither is of an album.
LEMMA SentRows ==
    ASSUME ListSound, MessagesKnown, NEW old \in Ids, NEW new \in Ids,
           handleMessageSendSucceeded(old, new)
    PROVE  /\ ListSound' /\ MessagesKnown'
           /\ UpdatesReachTheirRow => UpdatesReachTheirRow'
           /\ old \in IdsOf(messages) =>
                IdsOf(messages') = (IdsOf(messages) \ {old}) \cup {new}
           /\ old \notin IdsOf(messages) => IdsOf(messages') = IdsOf(messages)
<1> DEFINE l == messages
           n == Len(l)
<1>1. ListSound /\ MessagesKnown
  OBVIOUS
<1>2. /\ old \in existing /\ new \notin existing \cup deleted
      /\ AlbumOf[old] = 0 /\ AlbumOf[new] = 0
      /\ existing' = (existing \ {old}) \cup {new} /\ deleted' = deleted \cup {old}
      /\ edited' = edited \ {old}
  BY DEF handleMessageSendSucceeded
<1>3. /\ l \in Seq(Row) /\ IsIndexOf(messageIndexMap, l)
      /\ AlbumsExact(l, albumMessageMap)
  BY <1>1 DEF ListSound, IndexMapExact
<1>4. /\ n \in Nat /\ DOMAIN l = 1..n /\ IdsOf(l) = {l[i].id : i \in 1..n}
      /\ \A i \in 1..n : l[i].id \in IdsOf(l)
  BY <1>3, IdsByPosition
<1>5. /\ \A i, j \in 1..n : l[i].id = l[j].id => i = j
      /\ \A i \in 1..n : l[i].id \in DOMAIN messageIndexMap /\ messageIndexMap[l[i].id] = i
      /\ \A m \in DOMAIN messageIndexMap :
            messageIndexMap[m] \in 1..n /\ l[messageIndexMap[m]].id = m
  BY <1>3, IdsDiffer
<1>6. DOMAIN messageIndexMap = IdsOf(l) /\ IdsOf(l) \subseteq existing \cup deleted
  BY <1>1, <1>3 DEF IsIndexOf, MessagesKnown
<1>7. UpdatesReachTheirRow =>
        \A i \in 1..n : l[i].id \in existing => l[i].edited = (l[i].id \in edited)
  BY <1>4 DEF UpdatesReachTheirRow
<1>8. /\ existing \subseteq Ids /\ edited \subseteq existing
      /\ deleted \subseteq Ids \ existing
  BY <1>1 DEF MessagesKnown
<1>9. CASE old \notin DOMAIN messageIndexMap
  <2>1. l' = l /\ messageIndexMap' = messageIndexMap /\ albumMessageMap' = albumMessageMap
    BY <1>9 DEF handleMessageSendSucceeded, listVars
  <2>2. ListSound'
    BY <1>3, <2>1 DEF ListSound, IndexMapExact
  <2>3. \A i \in 1..n : l[i].id # old /\ l[i].id # new
    BY <1>2, <1>4, <1>6, <1>9
  <2>4. UpdatesReachTheirRow => UpdatesReachTheirRow'
    BY <1>2, <1>4, <1>7, <2>1, <2>3 DEF UpdatesReachTheirRow
  <2>5. IdsOf(messages)' = IdsOf(l) /\ IdsOf(messages') = IdsOf(l)
    BY <2>1 DEF IdsOf
  <2>6. MessagesKnown'
    BY <1>2, <1>6, <1>8, <2>5 DEF MessagesKnown
  <2> QED
    BY <1>6, <1>9, <2>2, <2>4, <2>5, <2>6
<1>10. CASE old \in DOMAIN messageIndexMap
  <2> DEFINE pos == messageIndexMap[old]
             kept == [m \in DOMAIN messageIndexMap \ {old} |-> messageIndexMap[m]]
             rest == RemoveAt(l, pos)
             row == MessageData(new)
             k == Append(rest, row)
             map == Reindexed(kept, k, pos, n)
  <2>1. l' = k /\ messageIndexMap' = map /\ albumMessageMap' = albumMessageMap
    BY <1>10, Zenon DEF handleMessageSendSucceeded, RemoveAt, RemoveAt
  <2>2. pos \in 1..n /\ l[pos].id = old
    BY <1>5, <1>10
  <2>3. /\ row \in Row /\ row.id = new /\ row.edited = (new \in edited)
    BY DEF MessageData, Row
  <2> HIDE DEF pos, row
  <2>4. /\ rest \in Seq(Row) /\ Len(rest) = n - 1
        /\ \A i \in 1..n - 1 : rest[i] = IF i < pos THEN l[i] ELSE l[i + 1]
    BY <1>3, <2>2, RemoveAtProperties
  <2> HIDE DEF rest
  <2>5. n - 1 \in Nat
    BY <1>4, <2>2
  <2>6. /\ k \in Seq(Row) /\ Len(k) = n /\ k[n] = row
        /\ \A i \in 1..n - 1 : k[i] = IF i < pos THEN l[i] ELSE l[i + 1]
    <3>1. Len(rest) + 1 = n
      BY <1>4, <2>4
    <3>2. /\ k \in Seq(Row) /\ Len(k) = Len(rest) + 1
          /\ k[Len(rest) + 1] = row
          /\ \A i \in 1..Len(rest) : k[i] = rest[i]
      BY <2>3, <2>4, AppendProperties
    <3> HIDE DEF k
    <3> QED
      BY <2>4, <3>1, <3>2
  <2> HIDE DEF k
  <2>7. \A i \in 1..n : i = n \/ (i \in 1..n - 1 /\ i + 1 \in 1..n)
    <3> HIDE DEF n
    <3> QED
      BY <1>4
  <2>8. /\ IdsOf(k) = {k[i].id : i \in 1..n} /\ DOMAIN k = 1..n
        /\ \A i \in 1..n : k[i].id \in IdsOf(k)
    BY <2>6, IdsByPosition
  <2>9. ASSUME NEW i \in 1..n - 1
        PROVE  \E j \in 1..n : k[i] = l[j] /\ j # pos
    <3>1. CASE i < pos
      <4>1. i \in 1..n /\ i # pos
        BY <1>4, <2>2, <3>1
      <4> QED
        BY <2>6, <3>1, <4>1
    <3>2. CASE ~(i < pos)
      <4>1. i + 1 \in 1..n /\ i + 1 # pos
        BY <1>4, <2>2, <3>2
      <4> QED
        BY <2>6, <3>2, <4>1
    <3> QED
      BY <3>1, <3>2
  <2>10. ASSUME NEW j \in 1..n, j # pos
         PROVE  l[j].id \in IdsOf(k)
    <3>1. CASE j < pos
      <4>1. j \in 1..n - 1 /\ j \in 1..n
        BY <1>4, <2>2, <3>1
      <4> QED
        BY <2>6, <2>8, <3>1, <4>1
    <3>2. CASE ~(j < pos)
      <4>1. /\ j - 1 \in 1..n - 1 /\ j - 1 \in 1..n /\ ~(j - 1 < pos)
            /\ (j - 1) + 1 = j
        BY <1>4, <2>2, <2>10, <3>2
      <4> QED
        BY <2>6, <2>8, <4>1
    <3> QED
      BY <3>1, <3>2
  <2>11. \A j \in 1..n : l[j].id # new
    BY <1>2, <1>4, <1>6
  <2>12. IdsOf(k) = (IdsOf(l) \ {old}) \cup {new}
    <3>1. \A i \in 1..n : k[i].id \in (IdsOf(l) \ {old}) \cup {new}
      <4> SUFFICES ASSUME NEW i \in 1..n, i # n
                   PROVE  k[i].id \in IdsOf(l) \ {old}
        BY <2>3, <2>6
      <4>1. PICK j \in 1..n : k[i] = l[j] /\ j # pos
        BY <2>7, <2>9
      <4>2. l[j].id # old
        BY <1>5, <2>2, <4>1
      <4> QED
        BY <1>4, <4>1, <4>2
    <3>2. new \in IdsOf(k)
      <4>1. n \in 1..n
        BY <1>4, <2>2
      <4> QED
        BY <2>3, <2>6, <2>8, <4>1
    <3>3. IdsOf(l) \ {old} \subseteq IdsOf(k)
      BY <1>4, <2>2, <2>10
    <3>4. IdsOf(k) \subseteq (IdsOf(l) \ {old}) \cup {new}
      BY ONLY <2>8, <3>1, Zenon
    <3> QED
      BY ONLY <3>2, <3>3, <3>4, Zenon
  <2>13. IsIndexOf(map, k)
    <3>1. ASSUME NEW i \in 1..n, NEW j \in 1..n, k[i].id = k[j].id
          PROVE  i = j
      <4>1. CASE i = n /\ j # n
        BY <2>3, <2>6, <2>7, <2>9, <2>11, <3>1, <4>1
      <4>2. CASE i # n /\ j = n
        BY <2>3, <2>6, <2>7, <2>9, <2>11, <3>1, <4>2
      <4>3. CASE i # n /\ j # n
        <5>1. i \in 1..n - 1 /\ j \in 1..n - 1 /\ i + 1 \in 1..n /\ j + 1 \in 1..n
          BY <2>7, <4>3
        <5>2. (IF i < pos THEN i ELSE i + 1) = (IF j < pos THEN j ELSE j + 1)
          <6> DEFINE p == IF i < pos THEN i ELSE i + 1
                     q == IF j < pos THEN j ELSE j + 1
          <6>1. p \in 1..n /\ q \in 1..n
            BY <5>1
          <6>2. k[i] = l[p] /\ k[j] = l[q]
            BY <2>6, <5>1
          <6> HIDE DEF p, q
          <6>3. p = q
            BY ONLY <1>5, <3>1, <6>1, <6>2, Zenon
          <6> QED
            BY <6>3 DEF p, q
        <5> QED
          BY <1>4, <2>2, <5>1, <5>2
      <4> QED
        BY <4>1, <4>2, <4>3
    <3>2. DOMAIN kept = IdsOf(l) \ {old} /\ \A m \in DOMAIN kept : kept[m] = messageIndexMap[m]
      BY <1>6
    <3>3. ASSUME NEW i \in 1..n, i < pos
          PROVE  k[i].id \in DOMAIN kept /\ kept[k[i].id] = i
      <4>1. i \in 1..n - 1 /\ i # pos
        BY <1>4, <2>2, <3>3
      <4>2. k[i] = l[i] /\ l[i].id # old
        BY <1>5, <2>2, <2>6, <3>3, <4>1
      <4> QED
        BY <1>4, <1>5, <3>2, <4>2
    <3>4. DOMAIN kept \subseteq IdsOf(k) /\ pos \in 1..Len(k) + 1
      BY <1>4, <2>2, <2>6, <2>12, <3>2
    <3>5. map = Reindexed(kept, k, pos, Len(k))
      BY <2>6
    <3> HIDE DEF kept, map
    <3>6. /\ \A i, j \in 1..Len(k) : k[i].id = k[j].id => i = j
          /\ \A i \in 1..Len(k) : i < pos => k[i].id \in DOMAIN kept /\ kept[k[i].id] = i
      BY <2>6, <3>1, <3>3
    <3> QED
      BY <2>6, <3>4, <3>5, <3>6, Repaired
  <2> HIDE DEF kept, map
  <2>14. \A a : a # 0 => Together(k, a) = Together(l, a)
    BY <1>2, <2>12 DEF Together
  <2>15. AlbumsExact(k, albumMessageMap)
    <3>1. \A a \in DOMAIN albumMessageMap : a # 0 /\ albumMessageMap[a] = Together(k, a)
      BY <1>3, <2>14 DEF AlbumsExact
    <3>2. ASSUME NEW i \in 1..n, AlbumOf[k[i].id] # 0
          PROVE  /\ AlbumOf[k[i].id] \in DOMAIN albumMessageMap
                 /\ Displays(k[i], Together(k, AlbumOf[k[i].id]))
      <4>1. i # n
        BY <1>2, <2>3, <2>6, <3>2
      <4>2. PICK j \in 1..n : k[i] = l[j]
        BY <2>7, <2>9, <4>1
      <4>3. /\ AlbumOf[l[j].id] \in DOMAIN albumMessageMap
            /\ Displays(l[j], Together(l, AlbumOf[l[j].id]))
        BY <1>3, <1>4, <3>2, <4>2 DEF AlbumsExact
      <4> QED
        BY <2>14, <3>2, <4>2, <4>3
    <3> QED
      BY <2>8, <3>1, <3>2 DEF AlbumsExact
  <2>16. ListSound'
    BY <2>1, <2>6, <2>13, <2>15 DEF ListSound, IndexMapExact
  <2>17. ASSUME UpdatesReachTheirRow, NEW i \in 1..n, k[i].id \in existing'
         PROVE  k[i].edited = (k[i].id \in edited')
    <3>1. CASE i = n
      <4>1. new # old /\ (new \in edited' <=> new \in edited)
        BY <1>2
      <4> QED
        BY <2>3, <2>6, <3>1, <4>1
    <3>2. CASE i # n
      <4>1. PICK j \in 1..n : k[i] = l[j] /\ j # pos
        BY <2>7, <2>9, <3>2
      <4>2. l[j].id # old /\ l[j].id # new
        BY <1>5, <2>2, <2>11, <4>1
      <4>3. l[j].id \in existing /\ (l[j].id \in edited' <=> l[j].id \in edited)
        BY <1>2, <2>17, <4>1, <4>2
      <4> QED
        BY <1>7, <2>17, <4>1, <4>3
    <3> QED
      BY <3>1, <3>2
  <2>18. UpdatesReachTheirRow => UpdatesReachTheirRow'
    BY <2>1, <2>8, <2>17 DEF UpdatesReachTheirRow
  <2>19. IdsOf(messages)' = IdsOf(k) /\ IdsOf(messages') = IdsOf(k)
    BY <2>1 DEF IdsOf
  <2>20. MessagesKnown'
    BY <1>2, <1>6, <1>8, <2>12, <2>19 DEF MessagesKnown
  <2> QED
    BY <1>6, <1>10, <2>12, <2>16, <2>18, <2>19, <2>20
<1> QED
  BY <1>9, <1>10

LEMMA SentStep ==
    ASSUME IInv, NEW old \in Ids, NEW new \in Ids, handleMessageSendSucceeded(old, new)
    PROVE  IInv'
BY SentRows DEF IInv

\* The row of an updated message is found; no other row changes.
LEMMA FieldStep ==
    ASSUME IInv, NEW id \in Ids, handleMessageFieldUpdated(id)
    PROVE  IInv'
<1> DEFINE l == messages
           k == messages'
<1>1. ListSound /\ MessagesKnown /\ UpdatesReachTheirRow
  BY DEF IInv
<1>2. /\ id \in existing /\ edited' = edited \cup {id}
      /\ k = IF id \in DOMAIN messageIndexMap
             THEN [l EXCEPT ![messageIndexMap[id]].edited = TRUE] ELSE l
      /\ messageIndexMap' = messageIndexMap /\ albumMessageMap' = albumMessageMap
      /\ existing' = existing /\ deleted' = deleted
  BY DEF handleMessageFieldUpdated
<1>3. /\ l \in Seq(Row) /\ IsIndexOf(messageIndexMap, l)
      /\ AlbumsExact(l, albumMessageMap)
  BY <1>1 DEF ListSound, IndexMapExact
<1>4. /\ Len(l) \in Nat /\ DOMAIN l = 1..Len(l)
      /\ \A i \in 1..Len(l) : l[i] \in Row /\ l[i].id \in IdsOf(l)
  BY <1>3, IdsByPosition
<1>5. /\ \A i \in 1..Len(l) : l[i].id \in DOMAIN messageIndexMap
                              /\ messageIndexMap[l[i].id] = i
      /\ \A m \in DOMAIN messageIndexMap : messageIndexMap[m] \in 1..Len(l)
                                           /\ l[messageIndexMap[m]].id = m
  BY <1>3, IdsDiffer
<1>6. /\ DOMAIN k = 1..Len(l) /\ k \in [1..Len(l) -> Row]
      /\ \A i \in 1..Len(l) :
            k[i] = IF l[i].id = id THEN [l[i] EXCEPT !.edited = TRUE] ELSE l[i]
  <2>1. CASE id \in DOMAIN messageIndexMap
    <3> DEFINE p == messageIndexMap[id]
    <3>1. p \in 1..Len(l) /\ l[p].id = id
      BY <1>5, <2>1
    <3>2. \A i \in 1..Len(l) : l[i].id = id <=> i = p
      BY <1>5, <3>1
    <3>3. k = [l EXCEPT ![p] = [l[p] EXCEPT !.edited = TRUE]]
      BY <1>2, <2>1
    <3> HIDE DEF p, k
    <3>4. [l[p] EXCEPT !.edited = TRUE] \in Row
      BY <1>4, <3>1 DEF Row
    <3>5. /\ DOMAIN k = 1..Len(l)
          /\ \A i \in 1..Len(l) :
                k[i] = IF i = p THEN [l[p] EXCEPT !.edited = TRUE] ELSE l[i]
      BY <1>4, <3>1, <3>3
    <3>6. k \in [1..Len(l) -> Row]
      BY <1>3, <1>4, <3>1, <3>3, <3>4
    <3> QED
      BY <3>2, <3>5, <3>6
  <2>2. CASE id \notin DOMAIN messageIndexMap
    <3>1. k = l /\ \A i \in 1..Len(l) : l[i].id # id
      BY <1>2, <1>5, <2>2
    <3> HIDE DEF k
    <3> QED
      BY <1>3, <1>4, <3>1
  <2> QED
    BY <2>1, <2>2
<1> HIDE DEF k
<1>7. \A i \in 1..Len(l) :
          /\ k[i].id = l[i].id /\ k[i].albumEntryFilter = l[i].albumEntryFilter
          /\ k[i].albumMessageIds = l[i].albumMessageIds
          /\ k[i].edited = IF l[i].id = id THEN TRUE ELSE l[i].edited
  BY <1>4, <1>6 DEF Row
<1>8. k \in Seq(Row) /\ Len(k) = Len(l)
  BY <1>4, <1>6, ListOf
<1>9. IdsOf(k) = IdsOf(l)
  <2>1. /\ IdsOf(k) = {k[i].id : i \in 1..Len(l)}
        /\ IdsOf(l) = {l[i].id : i \in 1..Len(l)}
    BY <1>3, <1>8, IdsByPosition
  <2>2. \A i \in 1..Len(l) : k[i].id = l[i].id
    BY <1>7
  <2> QED
    BY ONLY <2>1, <2>2
<1>10. \A a : Together(k, a) = Together(l, a)
  BY <1>9 DEF Together
<1>11. IsIndexOf(messageIndexMap, k)
  BY <1>3, <1>4, <1>6, <1>7, <1>9 DEF IsIndexOf
<1>12. AlbumsExact(k, albumMessageMap)
  <2>1. \A a \in DOMAIN albumMessageMap : a # 0 /\ albumMessageMap[a] = Together(k, a)
    BY <1>3, <1>10 DEF AlbumsExact
  <2>2. ASSUME NEW i \in 1..Len(l), AlbumOf[k[i].id] # 0
        PROVE  /\ AlbumOf[k[i].id] \in DOMAIN albumMessageMap
               /\ Displays(k[i], Together(k, AlbumOf[k[i].id]))
    <3>1. /\ AlbumOf[l[i].id] \in DOMAIN albumMessageMap
          /\ Displays(l[i], Together(l, AlbumOf[l[i].id]))
      BY <1>3, <1>4, <1>7, <2>2 DEF AlbumsExact
    <3> QED
      BY <1>7, <1>10, <3>1 DEF Displays
  <2> QED
    BY <1>6, <2>1, <2>2 DEF AlbumsExact
<1>13. ListSound'
  BY <1>2, <1>8, <1>11, <1>12 DEF ListSound, IndexMapExact, k
<1>14. ASSUME NEW i \in 1..Len(l), k[i].id \in existing
       PROVE  k[i].edited = (k[i].id \in edited')
  <2>1. l[i].edited = (l[i].id \in edited)
    BY <1>1, <1>4, <1>7, <1>14 DEF UpdatesReachTheirRow
  <2>2. CASE l[i].id = id
    <3>1. k[i].edited = TRUE
      BY <1>7, <2>2
    <3>2. (k[i].id \in edited') = TRUE
      BY <1>2, <1>7, <2>2
    <3> QED
      BY <3>1, <3>2, Zenon
  <2>3. CASE l[i].id # id
    <3>1. (l[i].id \in edited') = (l[i].id \in edited)
      BY <1>2, <2>3
    <3>2. k[i].id = l[i].id /\ k[i].edited = l[i].edited
      BY <1>7, <2>3
    <3> QED
      BY <2>1, <3>1, <3>2, Zenon
  <2> QED
    BY <2>2, <2>3
<1>15. UpdatesReachTheirRow'
  BY <1>2, <1>6, <1>14 DEF UpdatesReachTheirRow, k
<1>16. MessagesKnown'
  <2>1. IdsOf(messages)' = IdsOf(l)
    BY <1>9 DEF IdsOf, k
  <2> QED
    BY <1>1, <1>2, <2>1 DEF MessagesKnown
<1> QED
  BY <1>13, <1>15, <1>16 DEF IInv

\* The list is cleared with its maps.
LEMMA ClearStep ==
    ASSUME IInv, clear
    PROVE  IInv'
<1>1. /\ messages' = <<>> /\ messageIndexMap' = <<>> /\ albumMessageMap' = <<>>
      /\ existing' = existing /\ deleted' = deleted /\ edited' = edited
  BY DEF clear, tdVars
<1>2. messages' \in Seq(Row) /\ DOMAIN messages' = {}
  BY <1>1
<1>3. DOMAIN messageIndexMap' = {} /\ DOMAIN albumMessageMap' = {}
  BY <1>1
<1>4. IdsOf(messages') = {}
  BY <1>2 DEF IdsOf
<1>5. ListSound'
  BY <1>2, <1>3, <1>4 DEF ListSound, IndexMapExact, IsIndexOf, AlbumsExact
<1>6. UpdatesReachTheirRow'
  BY <1>2 DEF UpdatesReachTheirRow
<1>7. MessagesKnown'
  <2>1. IdsOf(messages)' = {}
    BY <1>4 DEF IdsOf
  <2> QED
    BY <1>1, <2>1 DEF MessagesKnown, IInv
<1> QED
  BY <1>5, <1>6, <1>7 DEF IInv

LEMMA NextIInv == IInv /\ [Next]_vars => IInv'
<1> SUFFICES ASSUME IInv, [Next]_vars
             PROVE  IInv'
  OBVIOUS
<1>1. CASE \E batch \in SUBSET Ids : InsertMessages(batch)
  BY <1>1, InsertStep
<1>2. CASE \E batch \in SUBSET Ids : handleMessagesDeleted(batch)
  BY <1>2, DeleteBatchStep
<1>3. CASE \E old, new \in Ids : handleMessageSendSucceeded(old, new)
  BY <1>3, SentStep
<1>4. CASE \E id \in Ids : handleMessageFieldUpdated(id)
  BY <1>4, FieldStep
<1>5. CASE clear
  BY <1>5, ClearStep
<1>6. CASE UNCHANGED vars
  <2>1. /\ messages' = messages /\ messageIndexMap' = messageIndexMap
        /\ albumMessageMap' = albumMessageMap /\ existing' = existing
        /\ deleted' = deleted /\ edited' = edited
    BY <1>6 DEF vars, listVars, tdVars
  <2>2. ListSound'
    BY <2>1 DEF IInv, ListSound, IndexMapExact
  <2>3. UpdatesReachTheirRow'
    BY <2>1 DEF IInv, UpdatesReachTheirRow
  <2>4. IdsOf(messages)' = IdsOf(messages)
    BY <2>1 DEF IdsOf
  <2>5. MessagesKnown'
    BY <2>1, <2>4 DEF IInv, MessagesKnown
  <2> QED
    BY <2>2, <2>3, <2>5 DEF IInv
<1> QED
  BY <1>1, <1>2, <1>3, <1>4, <1>5, <1>6, Zenon DEF Next

LEMMA Invariance == Spec => []IInv
BY InitIInv, NextIInv, PTL DEF Spec

(***************************************************************************)
(* Theorems about MessagesModel.  Each holds for every finite set of       *)
(* identifiers, every partition of them into albums and every size of      *)
(* batches.                                                                *)
(***************************************************************************)

\* The variables keep their types, and no album has the identifier 0.
THEOREM TypeCorrect == Spec => []TypeOK
<1>1. IInv => TypeOK
  <2> SUFFICES ASSUME IInv PROVE TypeOK
    OBVIOUS
  <2>1. /\ messages \in Seq(Row) /\ IsIndexOf(messageIndexMap, messages)
        /\ AlbumsExact(messages, albumMessageMap) /\ MessagesKnown
    BY DEF IInv, ListSound, IndexMapExact
  <2>2. IdsOf(messages) \subseteq Ids /\ Len(messages) \in Nat
    BY <2>1, IdsByPosition
  <2>3. DOMAIN messageIndexMap \subseteq Ids
        /\ \A m \in DOMAIN messageIndexMap : messageIndexMap[m] \in 1..Len(messages)
    BY <2>1, IdsDiffer
  <2>4. \A m \in DOMAIN messageIndexMap : messageIndexMap[m] \in Nat
    BY <2>2, <2>3
  <2>5. \A a \in DOMAIN albumMessageMap : a # 0 /\ albumMessageMap[a] \subseteq Ids
    BY <2>1, <2>2 DEF AlbumsExact, Together
  <2> QED
    BY <2>1, <2>3, <2>4, <2>5 DEF TypeOK, MessagesKnown
<1> QED
  BY <1>1, Invariance, PTL

\* messageIndexMap is exact: insertions at either end, removed ranges and moved
\* rows each repair the part of it that they damage, and handlers that index
\* messages with it unchecked find their row.
THEOREM IndexCorrect == Spec => []IndexMapExact
<1>1. IInv => IndexMapExact
  BY DEF IInv, ListSound
<1> QED
  BY <1>1, Invariance, PTL

\* handleMessageFieldUpdated reaches the row of the updated message, and a row
\* that is made later starts from the updated message.
THEOREM UpdatesCorrect == Spec => []UpdatesReachTheirRow
<1>1. IInv => UpdatesReachTheirRow
  BY DEF IInv
<1> QED
  BY <1>1, Invariance, PTL

\* updateAlbumMessages: however batches and deletions split an album, its
\* oldest shown message shows all of it and no other row shows any.
THEOREM AlbumsCorrect == Spec => []AlbumsShownOnce
<1>1. IInv => AlbumsShownOnce
  <2> SUFFICES ASSUME IInv, NEW i \in DOMAIN messages, AlbumOf[messages[i].id] # 0
               PROVE  Displays(messages[i], Together(messages, AlbumOf[messages[i].id]))
    BY Zenon DEF AlbumsShownOnce, Displays, Together, Min, IdsOf
  <2> QED
    BY DEF IInv, ListSound, AlbumsExact
<1> QED
  BY <1>1, Invariance, PTL

-----------------------------------------------------------------------------
(***************************************************************************)
(* The view of a chat.  Its inductive invariant looks ahead: a slice that  *)
(* was asked for will continue the list from the message that the request  *)
(* names, also if that row has been deleted since.  So no message may be   *)
(* missing between the rows and those messages, its Reach, but those that  *)
(* sent messages left out.                                                 *)
(***************************************************************************)
Anchors == {r.from : r \in {q \in requests : q.current /\ q.type # "Initial"}}
Reach == RowIds \cup Anchors

\* Every message of pool that lies between two of reach is in rows.
Continuous(pool, rows, reach) ==
    \A m \in pool : (\E k, n \in reach : k < m /\ m < n) => m \in rows

ViewTyped ==
    /\ waitingFor \subseteq UpdateType
    /\ startReached \in BOOLEAN
    /\ endReached \in BOOLEAN
    /\ searchQuery \in Queries
    /\ foreign \in BOOLEAN
    /\ skipped \subseteq Ids

\* edited stays empty: the view takes no updates of the content.
ChatKnown ==
    /\ existing \subseteq Ids
    /\ deleted \subseteq Ids \ existing
    /\ edited = {}
    /\ RowIds \subseteq existing \cup deleted

\* A request since the last clear is for what is shown, and continues a row.
RequestsKnown ==
    /\ requests \subseteq Request
    /\ IsFiniteSet(requests) /\ Cardinality(requests) <= MaxRequests
    /\ \A r \in requests : r.current =>
        /\ r.query = searchQuery
        /\ r.type # "Initial" => r.from \in RowIds \cup deleted

\* Until the first answer the list is empty and nothing else is asked for.
FirstAlone ==
    ~foreign => \A r \in requests : r.current /\ r.type = "Initial" =>
        /\ RowIds = {} /\ ~endReached
        /\ \A q \in requests : q.current => q = r

ReachNoGaps ==
    ~foreign => /\ RowIds \cap existing \subseteq Pool(searchQuery)
                /\ Continuous(Pool(searchQuery) \ skipped, RowIds, Reach)

ReachIsEnd ==
    endReached /\ searchQuery = "" /\ ~foreign =>
        \A m \in existing \ (RowIds \cup skipped), n \in Reach : m < n

ViewInv ==
    /\ ListSound /\ ViewTyped /\ ChatKnown /\ RequestsKnown
    /\ FirstAlone /\ ReachNoGaps /\ ReachIsEnd


-----------------------------------------------------------------------------
(***************************************************************************)
(* The answers of TDLib                                                    *)
(***************************************************************************)

\* What a query finds are messages of the chat.
LEMMA PoolKnown ==
    ASSUME existing \subseteq Ids, NEW q
    PROVE  /\ Pool(q) \subseteq existing /\ Pool(q) \subseteq Ids
           /\ Pool(q) \subseteq Nat /\ 0 \notin Pool(q) /\ IsFiniteSet(Pool(q))
<1>1. Pool(q) \subseteq existing
  BY DEF Pool
<1>2. Ids \subseteq Nat \ {0} /\ IsFiniteSet(Ids)
  BY MessagesAssumption DEF MessagesAssumption
<1>3. Pool(q) \subseteq Ids
  BY <1>1
<1>4. IsFiniteSet(Pool(q))
  BY <1>2, <1>3, FS_Subset
<1> QED
  BY <1>1, <1>2, <1>3, <1>4

\* 0, or a message.
LEMMA RequestFrom ==
    ASSUME NEW r \in Request
    PROVE  r.from \in Nat /\ r.type \in UpdateType
<1>1. r.from \in Ids \cup {0} /\ r.type \in UpdateType
  BY DEF Request
<1>2. \A x \in Ids \cup {0} : x \in Nat
  <2>1. \A x \in Ids : x \in Nat
    BY MessagesAssumption DEF MessagesAssumption
  <2>2. 0 \in Nat
    OBVIOUS
  <2> QED
    BY ONLY <2>1, <2>2, Zenon
<1> QED
  BY ONLY <1>1, <1>2, Zenon

\* How many newer messages a request asks for.
LEMMA NewerIsNumber ==
    ASSUME NEW r \in Request
    PROVE  /\ Newer(r) \in Nat
           /\ r.query = "" /\ r.type \in {"NextSlice", "Initial"} => Newer(r) # 0
<1>1. Ahead \in Nat \ {0}
  BY ReadableAssumption DEF ReadableAssumption
<1>2. CASE r.query # "" \/ r.type = "Reload"
  <2>1. Newer(r) = 0
    BY <1>2, Zenon DEF Newer
  <2>2. ~(r.query = "" /\ r.type \in {"NextSlice", "Initial"})
    BY <1>2
  <2>3. 0 \in Nat
    OBVIOUS
  <2> QED
    BY ONLY <2>1, <2>2, <2>3, Zenon
<1>3. CASE r.query = "" /\ r.type = "NextSlice"
  <2>1. ~(r.query # "" \/ r.type = "Reload")
    BY <1>3
  <2>2. Newer(r) = Ahead
    BY ONLY <1>3, <2>1, Zenon DEF Newer
  <2> QED
    BY <1>1, <2>2
<1>4. CASE ~(r.query # "" \/ r.type = "Reload") /\ ~(r.query = "" /\ r.type = "NextSlice")
  <2>1. Newer(r) = 1
    BY ONLY <1>4, Zenon DEF Newer
  <2> QED
    BY <2>1
<1> QED
  BY <1>2, <1>3, <1>4

\* An answer leaves nothing out between the message it was asked for from and
\* any message that it holds, and is empty only where there is nothing.
LEMMA AnswerIsSlice ==
    ASSUME existing \subseteq Ids, NEW r \in Request, NEW batch \in Answers(r)
    PROVE  /\ batch \subseteq Pool(r.query)
           /\ \A m \in Pool(r.query), n \in batch :
                r.from # 0 /\ r.from < m /\ m < n => m \in batch
           /\ \A m \in Pool(r.query), n \in batch :
                (r.from = 0 \/ m <= r.from) /\ n < m => m \in batch
           /\ batch = {} => \A m \in Pool(r.query) : r.from # 0 /\ r.from < m
           /\ batch = {} /\ r.query = "" /\ r.type \in {"NextSlice", "Initial"} =>
                Pool(r.query) = {}
<1> DEFINE P == Pool(r.query)
           older == {m \in P : r.from = 0 \/ m <= r.from}
           Before(m) == {n \in P \ older : n < m}
           newer == {m \in P \ older : Cardinality(Before(m)) < Newer(r)}
           down == IF older = {} \/ (r.query = "" /\ r.type = "NextSlice")
                   THEN {older \cap {Max(older \cup {0})}}
                   ELSE {{m \in older : m >= c} : c \in older}
<1>2. P \subseteq Nat /\ 0 \notin P /\ IsFiniteSet(P)
  BY PoolKnown
<1>3. r.from \in Nat /\ r.type \in UpdateType /\ Newer(r) \in Nat
  <2>1. r.from \in Nat /\ r.type \in UpdateType
    BY RequestFrom, Zenon
  <2>2. Newer(r) \in Nat
    BY NewerIsNumber, Zenon
  <2> QED
    BY <2>1, <2>2, Zenon
<1> HIDE DEF P, down
<1>1. PICK o \in down : batch = newer \cup o
  BY Zenon DEF Answers, P, down
<1>4. older \subseteq P /\ newer \subseteq P \ older /\ older \subseteq Nat
  BY <1>2
<1>5. \A m \in P : m \notin older <=> r.from # 0 /\ r.from < m
  BY <1>2, <1>3
<1>6. ASSUME NEW m \in P \ older, NEW n \in newer, m < n
      PROVE  m \in newer
  <2>1. Before(m) \subseteq Before(n) /\ Before(n) \subseteq P
    <3>1. n \in Nat /\ m \in Nat /\ m < n
      BY <1>2, <1>6
    <3>2. ASSUME NEW x \in P, x < m
          PROVE  x < n
      <4>1. x \in Nat
        BY <1>2
      <4> QED
        BY <3>1, <3>2, <4>1
    <3> HIDE DEF older
    <3> QED
      BY <3>2
  <2>2. IsFiniteSet(Before(n))
    BY <1>2, <2>1, FS_Subset
  <2> HIDE DEF Before
  <2>3. /\ Cardinality(Before(m)) <= Cardinality(Before(n))
        /\ Cardinality(Before(m)) \in Nat /\ Cardinality(Before(n)) \in Nat
    BY <2>1, <2>2, FS_Subset, FS_CardinalityType
  <2>4. Cardinality(Before(n)) < Newer(r)
    OBVIOUS
  <2> QED
    BY <1>3, <2>3, <2>4
<1>7. IsFiniteSet(older \cup {0}) /\ older \cup {0} \subseteq Nat
  <2>1. IsFiniteSet(older)
    BY <1>2, <1>4, FS_Subset
  <2> QED
    BY <1>4, <2>1, FS_AddElement
<1> HIDE DEF older, newer
<1>8. /\ Max(older \cup {0}) \in older \cup {0}
      /\ \A y \in older : Max(older \cup {0}) >= y
  <2> DEFINE T == older \cup {0}
  <2>1. IsFiniteSet(T) /\ T \subseteq Nat /\ T # {}
    BY <1>7
  <2> HIDE DEF T
  <2>2. Max(T) \in T /\ \A y \in T : Max(T) >= y
    BY <2>1, MaxOfFinite
  <2> QED
    BY <2>2 DEF T
<1> DEFINE top == Max(older \cup {0})
<1>9. /\ o \subseteq older
      /\ \A m \in older, n \in o : n < m => m \in o
      /\ o = {} => older = {}
  <2>1. CASE older = {} \/ (r.query = "" /\ r.type = "NextSlice")
    <3>1. o = older \cap {top}
      BY <2>1 DEF down
    <3> HIDE DEF top
    <3>2. top \in older \cup {0} /\ \A y \in older : top >= y
      BY <1>8 DEF top
    <3>3. ASSUME NEW m \in older, NEW n \in o, n < m
          PROVE  FALSE
      <4>1. n = top /\ top >= m /\ m \in Nat /\ n \in Nat
        BY <1>4, <3>1, <3>2
      <4> QED
        BY <3>3, <4>1
    <3>4. ASSUME NEW m \in older, o = {}
          PROVE  FALSE
      <4>1. top = 0
        BY <3>1, <3>2, <3>4
      <4>2. m \in Nat /\ m # 0 /\ 0 >= m
        BY <1>2, <1>4, <3>2, <4>1
      <4> QED
        BY <4>2
    <3> QED
      BY <3>1, <3>3, <3>4
  <2>2. CASE ~(older = {} \/ (r.query = "" /\ r.type = "NextSlice"))
    <3>1. PICK c \in older : o = {m \in older : m >= c}
      BY <2>2 DEF down
    <3>2. c \in o
      BY <1>4, <3>1
    <3>3. ASSUME NEW m \in older, NEW n \in o, n < m
          PROVE  m \in o
      <4>1. n >= c /\ m \in Nat /\ n \in Nat /\ c \in Nat
        BY <1>4, <3>1
      <4> QED
        BY <3>1, <3>3, <4>1
    <3> QED
      BY <3>1, <3>2, <3>3
  <2> QED
    BY <2>1, <2>2
<1>10. batch \subseteq P
  BY <1>1, <1>4, <1>9
<1>11. ASSUME NEW m \in P, NEW n \in batch, r.from # 0, r.from < m, m < n
       PROVE  m \in batch
  <2>1. m \notin older
    BY <1>5, <1>11
  <2>2. n \in P /\ n \notin older
    <3>1. n \in Nat /\ m \in Nat /\ n \in P
      BY <1>2, <1>10
    <3>2. r.from < n
      BY <1>3, <1>11, <3>1
    <3> QED
      BY <1>5, <1>11, <3>1, <3>2
  <2>3. n \in newer
    BY <1>1, <1>9, <2>2
  <2> QED
    BY <1>1, <1>6, <1>11, <2>1, <2>3
<1>12. ASSUME NEW m \in P, NEW n \in batch, r.from = 0 \/ m <= r.from, n < m
       PROVE  m \in batch
  <2>1. m \in older /\ n \in Nat /\ m \in Nat /\ n \in P
    BY <1>2, <1>10, <1>12 DEF older
  <2>2. n \in older
    BY <1>3, <1>12, <2>1 DEF older
  <2>3. n \in o
    BY <1>1, <1>4, <2>2
  <2> QED
    BY <1>1, <1>9, <1>12, <2>1, <2>3
<1>13. ASSUME batch = {}
       PROVE  older = {} /\ newer = {}
  BY <1>1, <1>9, <1>13
<1>14. ASSUME batch = {}, r.query = "", r.type \in {"NextSlice", "Initial"}
       PROVE  P = {}
  <2> SUFFICES ASSUME P # {} PROVE FALSE
    OBVIOUS
  <2>1. Newer(r) \in Nat \ {0}
    BY <1>14, NewerIsNumber
  <2> DEFINE m == Min(P)
  <2>2. m \in P /\ \A y \in P : m <= y
    BY <1>2, MinOfPositions
  <2> HIDE DEF m
  <2>3. older = {}
    BY <1>13, <1>14
  <2>4. Before(m) = {}
    <3> SUFFICES ASSUME NEW y \in P, y < m PROVE FALSE
      OBVIOUS
    <3>1. y \in Nat /\ m \in Nat /\ m <= y
      BY <1>2, <2>2
    <3> QED
      BY <3>1
  <2> HIDE DEF Before
  <2>5. Cardinality(Before(m)) = 0
    BY <2>4, FS_EmptySet
  <2>6. m \in newer
    BY <2>1, <2>2, <2>3, <2>5 DEF newer
  <2> QED
    BY <1>13, <1>14, <2>6
<1>15. ASSUME batch = {}, NEW m \in P
       PROVE  r.from # 0 /\ r.from < m
  <2>1. m \notin older
    BY <1>13, <1>15
  <2> QED
    BY <1>5, <2>1
<1> QED
  BY <1>10, <1>11, <1>12, <1>14, <1>15 DEF P

-----------------------------------------------------------------------------
(***************************************************************************)
(* Slices of the history                                                   *)
(***************************************************************************)

\* A slice continues a list without a gap: from is a message of its reach.
LEMMA SliceContinues ==
    ASSUME NEW P, P \subseteq Nat, NEW R, NEW K, K \subseteq Nat,
           Continuous(P, R, K), NEW from \in K, from \in P => from \in R,
           NEW B, B \subseteq Nat,
           \A m \in P, n \in B : from < m /\ m < n => m \in B,
           \A m \in P, n \in B : m <= from /\ n < m => m \in B
    PROVE  Continuous(P, R \cup B, K \cup B)
<1> SUFFICES ASSUME NEW m \in P, NEW k \in K \cup B, NEW n \in K \cup B,
                    k < m, m < n
             PROVE  m \in R \cup B
  BY DEF Continuous
<1>1. m \in Nat /\ k \in Nat /\ n \in Nat /\ from \in Nat
  OBVIOUS
<1>2. CASE m = from
  BY <1>2
<1>3. CASE m < from
  <2>1. CASE k \in K
    BY <1>3, <2>1 DEF Continuous
  <2>2. CASE k \in B
    <3>1. m <= from
      BY <1>1, <1>3
    <3> QED
      BY <2>2, <3>1
  <2> QED
    BY <2>1, <2>2
<1>4. CASE from < m
  <2>1. CASE n \in K
    BY <1>4, <2>1 DEF Continuous
  <2>2. CASE n \in B
    BY <1>4, <2>2
  <2> QED
    BY <2>1, <2>2
<1> QED
  BY <1>1, <1>2, <1>3, <1>4

\* A slice that continues a list with all newer messages leaves none out.
LEMMA EndContinues ==
    ASSUME NEW P, P \subseteq Nat, NEW R, NEW K, NEW from \in Nat, from \in K,
           \A m \in P \ R, n \in K : m < n,
           NEW B, B \subseteq Nat,
           \A m \in P, n \in B : m <= from /\ n < m => m \in B
    PROVE  \A m \in P \ (R \cup B), n \in K \cup B : m < n
<1> SUFFICES ASSUME NEW m \in P \ (R \cup B), NEW n \in B
             PROVE  m < n
  OBVIOUS
<1>1. m \in Nat /\ n \in Nat /\ m # n
  OBVIOUS
<1>2. m < from
  OBVIOUS
<1>3. m <= from
  BY <1>1, <1>2
<1>4. ~(n < m)
  BY <1>3
<1> QED
  BY <1>1, <1>4

\* With the newest message, a list without gaps has all newer ones.
LEMMA NewestIsEnd ==
    ASSUME NEW P, P \subseteq Nat, NEW R, NEW K, K \subseteq Nat,
           Continuous(P, R, K), \A n \in K : n \in P => n \in R,
           NEW last \in R, last \in K, \A m \in P : m <= last
    PROVE  \A m \in P \ R, n \in K : m < n
<1> SUFFICES ASSUME NEW m \in P \ R, NEW n \in K, ~(m < n)
             PROVE  FALSE
  OBVIOUS
<1>1. m \in Nat /\ n \in Nat /\ last \in Nat /\ n # m /\ last # m
  OBVIOUS
<1>2. m <= last
  OBVIOUS
<1>3. n < m /\ m < last
  BY <1>1, <1>2
<1> QED
  BY <1>3 DEF Continuous

\* Fewer messages and a smaller reach open no gap.
LEMMA GapsKept ==
    ASSUME NEW P, NEW R, NEW K, Continuous(P, R, K),
           NEW Q, Q \subseteq P, NEW L, L \subseteq K, NEW S, Q \cap R \subseteq S
    PROVE  Continuous(Q, S, L)
BY DEF Continuous

-----------------------------------------------------------------------------
(***************************************************************************)
(* Requests                                                                *)
(***************************************************************************)
Ask(type, from, query) ==
    [type |-> type, from |-> from, query |-> query, current |-> TRUE]

\* One more request is in flight.
LEMMA OneMore ==
    ASSUME NEW R, IsFiniteSet(R), NEW q
    PROVE  /\ IsFiniteSet(R \cup {q}) /\ Cardinality(R) \in Nat
           /\ Cardinality(R \cup {q}) \in Nat
           /\ Cardinality(R \cup {q}) <= Cardinality(R) + 1
<1>1. Cardinality(R) \in Nat /\ IsFiniteSet(R \cup {q})
  BY FS_AddElement, FS_CardinalityType
<1>2. Cardinality(R \cup {q}) = IF q \in R THEN Cardinality(R) ELSE Cardinality(R) + 1
  BY FS_AddElement
<1> QED
  BY <1>1, <1>2

\* One request less is in flight.
LEMMA OneLess ==
    ASSUME NEW R, IsFiniteSet(R), NEW q \in R
    PROVE  /\ IsFiniteSet(R \ {q}) /\ Cardinality(R) \in Nat
           /\ Cardinality(R \ {q}) = Cardinality(R) - 1
BY FS_RemoveElement, FS_CardinalityType

\* clear() makes no request.
LEMMA StaleRequests ==
    ASSUME NEW R, R \subseteq Request, IsFiniteSet(R)
    PROVE  /\ Stale(R) \subseteq Request /\ IsFiniteSet(Stale(R))
           /\ Cardinality(Stale(R)) <= Cardinality(R)
           /\ Cardinality(R) \in Nat /\ Cardinality(Stale(R)) \in Nat
           /\ \A q \in Stale(R) : ~q.current
<1> DEFINE Old(r) == [r EXCEPT !.current = FALSE]
           old == [r \in R |-> Old(r)]
<1>1. Stale(R) = {Old(r) : r \in R}
  BY DEF Stale
<1>2. \A r \in R : Old(r) \in Request /\ ~Old(r).current
  BY DEF Request
<1>3. old \in Surjection(R, Stale(R))
  <2>1. old \in [R -> Stale(R)]
    BY <1>1
  <2> QED
    BY <1>1, <2>1 DEF Surjection
<1>4. IsFiniteSet(Stale(R)) /\ Cardinality(Stale(R)) <= Cardinality(R)
  BY <1>3, FS_Surjection
<1>5. Cardinality(R) \in Nat /\ Cardinality(Stale(R)) \in Nat
  BY <1>4, FS_CardinalityType
<1> QED
  BY <1>1, <1>2, <1>4, <1>5

-----------------------------------------------------------------------------
(***************************************************************************)
(* The steps of the view                                                   *)
(***************************************************************************)

\* What a state of the invariant is like.
LEMMA ViewFacts ==
    ASSUME ListSound, ChatKnown, RequestsKnown
    PROVE  /\ Sound(Model) /\ Model.list = messages
           /\ IdsOf(messages) = RowIds /\ DOMAIN messageIndexMap = RowIds
           /\ messages \in Seq(Row) /\ (messages = <<>> <=> RowIds = {})
           /\ Ids \subseteq Nat /\ existing \subseteq Nat /\ RowIds \subseteq Ids
           /\ Reach \subseteq Ids
           /\ \A n \in Reach : n \in existing => n \in RowIds
<1>1. Sound(Model) /\ Model.list = messages
  BY ModelSound
<1>2. messages \in Seq(Row) /\ IsIndexOf(messageIndexMap, messages)
  BY DEF ListSound, IndexMapExact
<1>3. IdsOf(messages) = RowIds /\ DOMAIN messageIndexMap = RowIds
  BY <1>2 DEF RowIds, IsIndexOf
<1>4. /\ Len(messages) \in Nat /\ DOMAIN messages = 1..Len(messages)
      /\ \A i \in 1..Len(messages) : messages[i].id \in RowIds
      /\ RowIds \subseteq Ids
      /\ RowIds = {messages[i].id : i \in 1..Len(messages)}
  BY <1>2, <1>3, IdsByPosition
<1>5. messages = <<>> <=> RowIds = {}
  <2>1. CASE messages = <<>>
    <3>1. 1..Len(messages) = {}
      BY <2>1
    <3> QED
      BY <1>4, <2>1, <3>1
  <2>2. CASE messages # <<>>
    <3>1. 1 \in 1..Len(messages)
      BY <1>2, <1>4, <2>2
    <3> QED
      BY <1>4, <2>2, <3>1
  <2> QED
    BY <2>1, <2>2
<1>6. Ids \subseteq Nat
  BY MessagesAssumption DEF MessagesAssumption
<1>7. Anchors \subseteq RowIds \cup deleted
  BY DEF Anchors, RequestsKnown
<1>8. existing \subseteq Ids /\ deleted \subseteq Ids \ existing
  BY DEF ChatKnown
<1>9. Reach \subseteq Ids /\ \A n \in Reach : n \in existing => n \in RowIds
  BY <1>4, <1>7, <1>8 DEF Reach
<1>10. existing \subseteq Nat
  BY <1>6, <1>8
<1> QED
  BY <1>1, <1>2, <1>3, <1>4, <1>5, <1>6, <1>9, <1>10

\* The newest message of the chat.
LEMMA LastMessage ==
    ASSUME existing \subseteq Ids, existing # {}
    PROVE  lastMessageId \in existing /\ \A m \in existing : m <= lastMessageId
<1>1. existing \subseteq Nat /\ IsFiniteSet(existing)
  BY MessagesAssumption, FS_Subset DEF MessagesAssumption
<1>2. Max(existing) \in existing /\ \A m \in existing : Max(existing) >= m
  BY <1>1, MaxOfFinite
<1>3. lastMessageId = Max(existing)
  BY DEF lastMessageId
<1>4. \A m \in existing : m \in Nat
  BY <1>1
<1> QED
  BY <1>2, <1>3, <1>4

LEMMA ViewInit == HistoryInit => ViewInv
<1> SUFFICES ASSUME HistoryInit PROVE ViewInv
  OBVIOUS
<1>0. /\ messages = <<>> /\ messageIndexMap = <<>> /\ albumMessageMap = <<>>
      /\ deleted = {} /\ edited = {} /\ waitingFor = {}
      /\ startReached = FALSE /\ endReached = FALSE /\ searchQuery = ""
      /\ foreign = FALSE /\ skipped = {}
  BY Zenon DEF HistoryInit
<1>1. messages \in Seq(Row) /\ DOMAIN messages = {} /\ messages = <<>>
  <2>1. messages = <<>>
    BY <1>0
  <2> QED
    BY ONLY <2>1
<1>2. IdsOf(messages) = {} /\ RowIds = {}
  BY <1>1 DEF IdsOf, RowIds
<1>3. DOMAIN messageIndexMap = {} /\ DOMAIN albumMessageMap = {}
  <2>1. messageIndexMap = <<>> /\ albumMessageMap = <<>>
    BY <1>0
  <2> QED
    BY ONLY <2>1
<1>4. ListSound
  BY <1>1, <1>2, <1>3 DEF ListSound, IndexMapExact, IsIndexOf, AlbumsExact
<1>5. ViewTyped
  BY <1>0 DEF ViewTyped, Queries
<1>6. ChatKnown
  <2>1. existing \in {{m \in Ids : m <= n} : n \in Ids \cup {0}}
    BY Zenon DEF HistoryInit
  <2>2. existing \subseteq Ids
    BY ONLY <2>1, Zenon
  <2> QED
    BY ONLY <1>0, <1>2, <2>2 DEF ChatKnown
<1>7. PICK from \in existing \cup {0} : requests = Sent({}, "Initial", from, "")
  BY Zenon DEF HistoryInit
<1> DEFINE q == Ask("Initial", from, "")
<1>8. "Initial" \in UpdateType /\ from \in Ids \cup {0} /\ "" \in Queries
  BY <1>6 DEF UpdateType, Queries, ChatKnown
<1>9. /\ q \in Request /\ q.type = "Initial" /\ q.query = ""
      /\ requests = {} \cup {q}
  <2>1. q = Ask("Initial", from, "")
    OBVIOUS
  <2> HIDE DEF q
  <2>2. /\ q \in Request /\ q.type = "Initial" /\ q.query = ""
    BY <1>8, <2>1 DEF Ask, Request
  <2> QED
    BY ONLY <1>7, <2>1, <2>2, Zenon DEF Sent, Ask
<1> HIDE DEF q
<1>10. requests = {q}
  BY <1>9
<1>11. RequestsKnown
  <2>1. IsFiniteSet(requests) /\ Cardinality(requests) = 1
    BY <1>10, FS_Singleton
  <2>2. 1 <= MaxRequests
    <3>1. MaxRequests \in Nat \ {0}
      BY ReadableAssumption DEF ReadableAssumption
    <3> QED
      BY ONLY <3>1
  <2>3. searchQuery = ""
    BY <1>0
  <2> QED
    BY <1>9, <1>10, <2>1, <2>2, <2>3 DEF RequestsKnown
<1>12. Anchors = {} /\ Reach = {}
  BY <1>2, <1>9, <1>10 DEF Anchors, Reach
<1>13. FirstAlone
  BY <1>0, <1>2, <1>10 DEF FirstAlone
<1>14. ReachNoGaps /\ ReachIsEnd
  BY <1>2, <1>12 DEF ReachNoGaps, ReachIsEnd, Continuous
<1> QED
  BY <1>4, <1>5, <1>6, <1>11, <1>13, <1>14 DEF ViewInv

\* clear() and the first request: nothing is left of the old list.
LEMMA ClearAndLoadStep ==
    ASSUME ViewInv, NEW from \in Ids \cup {0}, NEW query \in Queries,
           ClearAndLoad(from, query)
    PROVE  ViewInv'
<1>1. /\ messages' = <<>> /\ messageIndexMap' = <<>> /\ albumMessageMap' = <<>>
      /\ waitingFor' = {} /\ startReached' = FALSE /\ endReached' = FALSE
      /\ searchQuery' = query /\ foreign' = FALSE /\ skipped' = {}
      /\ requests' = Sent(Stale(requests), "Initial", from, query)
      /\ existing' = existing /\ deleted' = deleted /\ edited' = edited
      /\ Cardinality(requests) < MaxRequests
  BY DEF ClearAndLoad, tdVars
<1>2. messages' \in Seq(Row) /\ DOMAIN messages' = {}
  BY <1>1
<1>3. DOMAIN messageIndexMap' = {} /\ DOMAIN albumMessageMap' = {}
  BY <1>1
<1>4. IdsOf(messages') = {} /\ RowIds' = {}
  BY <1>2 DEF IdsOf, RowIds
<1>5. ListSound'
  BY <1>2, <1>3, <1>4 DEF ListSound, IndexMapExact, IsIndexOf, AlbumsExact
<1>6. ViewTyped'
  BY <1>1 DEF ViewTyped
<1>7. ChatKnown'
  BY <1>1, <1>4 DEF ChatKnown, ViewInv
<1> DEFINE q == Ask("Initial", from, query)
           old == Stale(requests)
<1>8. "Initial" \in UpdateType
  BY DEF UpdateType
<1>9. /\ q \in Request /\ q.type = "Initial" /\ q.query = query
      /\ requests' = old \cup {q}
  <2>1. q = Ask("Initial", from, query)
    OBVIOUS
  <2> HIDE DEF q
  <2>2. /\ q \in Request /\ q.type = "Initial" /\ q.query = query
    BY <1>8, <2>1 DEF Ask, Request
  <2>3. requests' = Sent(old, "Initial", from, query)
    BY <1>1
  <2> HIDE DEF old
  <2> QED
    BY ONLY <2>1, <2>2, <2>3, Zenon DEF Sent, Ask
<1> HIDE DEF q, old
<1>10. requests \subseteq Request /\ IsFiniteSet(requests)
  BY DEF ViewInv, RequestsKnown
<1>11. /\ old \subseteq Request /\ IsFiniteSet(old)
       /\ Cardinality(old) <= Cardinality(requests)
       /\ Cardinality(requests) \in Nat /\ Cardinality(old) \in Nat
       /\ \A r \in old : ~r.current
  BY <1>10, StaleRequests DEF old
<1>12. \A r \in requests' : r.current => r = q
  BY <1>9, <1>11
<1>13. RequestsKnown'
  <2>1. IsFiniteSet(requests') /\ Cardinality(requests') \in Nat
        /\ Cardinality(requests') <= Cardinality(old) + 1
    BY <1>9, <1>11, OneMore
  <2>2. MaxRequests \in Nat
    BY ReadableAssumption DEF ReadableAssumption
  <2>3. Cardinality(requests') <= MaxRequests
    BY <1>1, <1>11, <2>1, <2>2
  <2>4. requests' \subseteq Request
    BY <1>9, <1>11
  <2>5. ASSUME NEW r \in requests', r.current
        PROVE  r.query = searchQuery' /\ r.type = "Initial"
    BY <1>1, <1>9, <1>12, <2>5
  <2>6. Request' = Request
    OBVIOUS
  <2> QED
    BY <2>1, <2>3, <2>4, <2>5 DEF RequestsKnown
<1>14. Anchors' = {} /\ Reach' = {}
  <2>1. Anchors' = {}
    BY <1>9, <1>12 DEF Anchors
  <2> QED
    BY <1>4, <2>1 DEF Reach
<1>15. FirstAlone'
  BY <1>1, <1>4, <1>12 DEF FirstAlone
<1>16. ReachNoGaps' /\ ReachIsEnd'
  BY <1>4, <1>14 DEF ReachNoGaps, ReachIsEnd, Continuous
<1> QED
  BY <1>5, <1>6, <1>7, <1>13, <1>15, <1>16 DEF ViewInv

\* Nothing is shown that was not, and only what has been deleted is not any
\* more: the list has no gap that it did not have.
LEMMA SmallerList ==
    ASSUME ViewInv, ListSound', ViewTyped', ChatKnown', RequestsKnown', FirstAlone',
           searchQuery' = searchQuery, ~foreign' => ~foreign, skipped' = skipped,
           endReached' => endReached, existing' \subseteq existing,
           RowIds' \subseteq RowIds, existing' \cap RowIds \subseteq RowIds',
           Reach' \subseteq Reach
    PROVE  ViewInv'
<1> DEFINE P == Pool(searchQuery)
           Q == Pool(searchQuery)'
<1>1. /\ Q \subseteq P /\ Q \subseteq existing'
      /\ P \cap existing' \subseteq Q
  BY DEF Pool
<1> HIDE DEF P, Q
<1>2. ReachNoGaps'
  <2> SUFFICES ASSUME ~foreign'
               PROVE  /\ RowIds' \cap existing' \subseteq Q
                      /\ Continuous(Q \ skipped, RowIds', Reach')
    BY DEF ReachNoGaps, Q, Continuous
  <2>1. RowIds \cap existing \subseteq P /\ Continuous(P \ skipped, RowIds, Reach)
    BY DEF ViewInv, ReachNoGaps, P
  <2>2. /\ Q \ skipped \subseteq P \ skipped
        /\ (Q \ skipped) \cap RowIds \subseteq RowIds'
    BY <1>1
  <2>3. Continuous(Q \ skipped, RowIds', Reach')
    BY ONLY <2>1, <2>2, Reach' \subseteq Reach, GapsKept
  <2> QED
    BY <1>1, <2>1, <2>3
<1>3. ReachIsEnd'
  BY DEF ViewInv, ReachIsEnd
<1> QED
  BY <1>2, <1>3 DEF ViewInv

\* A slice is asked for from a row; the first answer has come.
LEMMA LoadSliceStep ==
    ASSUME ViewInv, NEW type \in UpdateType \ {"Initial"}, NEW from \in RowIds,
           LoadSlice(type, from)
    PROVE  ViewInv'
<1>1. /\ Cardinality(requests) < MaxRequests /\ messages # <<>>
      /\ waitingFor' = waitingFor \cup {type}
      /\ requests' = Sent(requests, type, from, searchQuery)
      /\ messages' = messages /\ messageIndexMap' = messageIndexMap
      /\ albumMessageMap' = albumMessageMap
      /\ existing' = existing /\ deleted' = deleted /\ edited' = edited
      /\ startReached' = startReached /\ endReached' = endReached
      /\ searchQuery' = searchQuery /\ foreign' = foreign /\ skipped' = skipped
  BY DEF LoadSlice, listVars, tdVars, reachedVars
<1>2. ListSound /\ ViewTyped /\ ChatKnown /\ RequestsKnown /\ FirstAlone
  BY DEF ViewInv
<1>3. RowIds' = RowIds
  BY <1>1 DEF RowIds, IdsOf
<1>4. ListSound' /\ ViewTyped' /\ ChatKnown'
  <2>1. ListSound'
    BY <1>1, <1>2 DEF ListSound, IndexMapExact
  <2>2. ViewTyped'
    BY <1>1, <1>2 DEF ViewTyped
  <2>3. ChatKnown'
    BY <1>1, <1>2, <1>3 DEF ChatKnown
  <2> QED
    BY <2>1, <2>2, <2>3
<1>5. RowIds \subseteq Ids /\ RowIds # {}
  BY <1>1, <1>2, ViewFacts
<1> DEFINE q == Ask(type, from, searchQuery)
<1>6. /\ q \in Request /\ q.type = type /\ q.query = searchQuery /\ q.from = from
      /\ requests' = requests \cup {q}
  <2>1. from \in Ids \cup {0} /\ searchQuery \in Queries
    BY <1>2, <1>5 DEF ViewTyped
  <2>2. q = Ask(type, from, searchQuery)
    OBVIOUS
  <2> HIDE DEF q
  <2>3. q \in Request /\ q.type = type /\ q.query = searchQuery /\ q.from = from
    BY <2>1, <2>2 DEF Ask, Request
  <2> QED
    BY ONLY <1>1, <2>2, <2>3, Zenon DEF Sent, Ask
<1> HIDE DEF q
<1>7. RequestsKnown'
  <2>1. requests \subseteq Request /\ IsFiniteSet(requests)
    BY <1>2 DEF RequestsKnown
  <2>2. /\ IsFiniteSet(requests') /\ Cardinality(requests') \in Nat
        /\ Cardinality(requests') <= Cardinality(requests) + 1
        /\ Cardinality(requests) \in Nat
    BY <1>6, <2>1, OneMore
  <2>3. MaxRequests \in Nat
    BY ReadableAssumption DEF ReadableAssumption
  <2>4. Cardinality(requests') <= MaxRequests
    BY <1>1, <2>2, <2>3
  <2>5. requests' \subseteq Request
    BY <1>6, <2>1
  <2>6. ASSUME NEW r \in requests', r.current
        PROVE  r.query = searchQuery' /\ (r.type # "Initial" => r.from \in RowIds' \cup deleted')
    BY <1>1, <1>2, <1>3, <1>6, <2>6 DEF RequestsKnown
  <2> QED
    BY <2>2, <2>4, <2>5, <2>6 DEF RequestsKnown
<1>8. FirstAlone'
  <2> SUFFICES ASSUME ~foreign', NEW r \in requests', r.current, r.type = "Initial"
               PROVE  FALSE
    BY DEF FirstAlone
  <2>1. r \in requests /\ ~foreign
    BY <1>1, <1>6
  <2> QED
    BY <1>2, <1>5, <2>1 DEF FirstAlone
<1>9. Reach' \subseteq Reach
  <2>1. Anchors' \subseteq Anchors \cup {from}
    BY <1>6 DEF Anchors
  <2> QED
    BY <1>3, <2>1 DEF Reach
<1> QED
  BY <1>1, <1>2, <1>3, <1>4, <1>7, <1>8, <1>9, SmallerList

\* A request that is gone leaves the rest as it was.
LEMMA RequestGone ==
    ASSUME RequestsKnown, RowIds' = RowIds, deleted' = deleted,
           searchQuery' = searchQuery, NEW r \in requests, requests' = requests \ {r}
    PROVE  RequestsKnown' /\ Reach' \subseteq Reach
<1>1. requests \subseteq Request /\ IsFiniteSet(requests)
      /\ Cardinality(requests) <= MaxRequests
  BY DEF RequestsKnown
<1>2. /\ IsFiniteSet(requests') /\ Cardinality(requests) \in Nat
      /\ Cardinality(requests') = Cardinality(requests) - 1
  BY <1>1, OneLess
<1>3. MaxRequests \in Nat
  BY ReadableAssumption DEF ReadableAssumption
<1>4. Cardinality(requests') <= MaxRequests
  BY <1>1, <1>2, <1>3
<1>5. requests' \subseteq Request
  BY <1>1
<1>6. \A q \in requests' : q.current =>
        q.query = searchQuery' /\ (q.type # "Initial" => q.from \in RowIds' \cup deleted')
  BY DEF RequestsKnown
<1>7. RequestsKnown'
  BY <1>2, <1>4, <1>5, <1>6 DEF RequestsKnown
<1>8. Anchors' \subseteq Anchors
  BY DEF Anchors
<1> QED
  BY <1>7, <1>8 DEF Reach

LEMMA RequestFailedStep ==
    ASSUME ViewInv, NEW r \in requests, RequestFailed(r)
    PROVE  ViewInv'
<1>1. /\ requests' = requests \ {r}
      /\ messages' = messages /\ messageIndexMap' = messageIndexMap
      /\ albumMessageMap' = albumMessageMap /\ waitingFor' = waitingFor
      /\ existing' = existing /\ deleted' = deleted /\ edited' = edited
      /\ startReached' = startReached /\ endReached' = endReached
      /\ searchQuery' = searchQuery /\ foreign' = foreign /\ skipped' = skipped
  BY DEF RequestFailed, listVars, tdVars, reachedVars
<1>2. ListSound /\ ViewTyped /\ ChatKnown /\ RequestsKnown /\ FirstAlone
  BY DEF ViewInv
<1>3. RowIds' = RowIds
  BY <1>1 DEF RowIds, IdsOf
<1>4. ListSound'
  BY <1>1, <1>2 DEF ListSound, IndexMapExact
<1>5. ViewTyped'
  BY <1>1, <1>2 DEF ViewTyped
<1>6. ChatKnown'
  BY <1>1, <1>2, <1>3 DEF ChatKnown
<1>7. RequestsKnown' /\ Reach' \subseteq Reach
  BY <1>1, <1>2, <1>3, RequestGone
<1>8. FirstAlone'
  BY <1>1, <1>2, <1>3 DEF FirstAlone
<1> QED
  BY <1>1, <1>3, <1>4, <1>5, <1>6, <1>7, <1>8, SmallerList

\* A deleted message leaves the chat, and at most its own row the list.
LEMMA DeletedStep ==
    ASSUME ViewInv, NEW id \in Ids, HistoryMessagesDeleted(id)
    PROVE  ViewInv'
<1> DEFINE s == Deleted(Model, <<id>>)
<1>1. /\ existing' = existing \ {id} /\ deleted' = deleted \cup {id}
      /\ id \in existing /\ SetModel(s)
      /\ edited' = edited /\ waitingFor' = waitingFor /\ requests' = requests
      /\ startReached' = startReached /\ endReached' = endReached
      /\ searchQuery' = searchQuery /\ foreign' = foreign /\ skipped' = skipped
  BY DEF HistoryMessagesDeleted, reachedVars
<1>2. ListSound /\ ViewTyped /\ ChatKnown /\ RequestsKnown /\ FirstAlone
  BY DEF ViewInv
<1>3. Sound(Model) /\ IdsOf(Model.list) = RowIds
  BY <1>2, ViewFacts
<1>4. Sound(s) /\ IdsOf(s.list) \subseteq RowIds /\ RowIds \ {id} \subseteq IdsOf(s.list)
  <2>1. s = Deleted(Model, <<id>>)
    OBVIOUS
  <2> HIDE DEF s
  <2> QED
    BY <1>3, <2>1, OneDeleted
<1> HIDE DEF s
<1>5. ListSound' /\ messages' = s.list
  BY <1>1, <1>4, SoundModel
<1>6. RowIds' = IdsOf(s.list)
  BY <1>5 DEF RowIds, IdsOf
<1>7. RowIds' \subseteq RowIds /\ RowIds \subseteq RowIds' \cup {id}
  BY <1>4, <1>6
<1>8. ViewTyped'
  BY <1>1, <1>2 DEF ViewTyped
<1>9. ChatKnown'
  BY <1>1, <1>2, <1>7 DEF ChatKnown
<1>10. RequestsKnown'
  BY <1>1, <1>2, <1>7 DEF RequestsKnown
<1>11. FirstAlone'
  BY <1>1, <1>2, <1>7 DEF FirstAlone
<1>12. Reach' \subseteq Reach
  BY <1>1, <1>7 DEF Reach, Anchors
<1> QED
  BY <1>1, <1>5, <1>7, <1>8, <1>9, <1>10, <1>11, <1>12, SmallerList

\* A new message is newer than all others.  It is shown behind a list that
\* has all others up to the end, and elsewhere it opens no gap.
LEMMA NewMessageStep ==
    ASSUME ViewInv, NEW id \in Ids, handleNewMessageReceived(id)
    PROVE  ViewInv'
<1> DEFINE shown == searchQuery = "" /\ endReached
           t == handleInsertMessages(Model, {id})
           s == IF shown THEN t ELSE Model
           add == IF shown THEN {id} ELSE {}
<1>1. /\ \A m \in existing \cup deleted : id > m
      /\ existing' = existing \cup {id} /\ SetModel(s)
      /\ deleted' = deleted /\ edited' = edited /\ waitingFor' = waitingFor
      /\ startReached' = startReached /\ endReached' = endReached
      /\ searchQuery' = searchQuery /\ requests' = requests /\ foreign' = foreign
      /\ skipped' = skipped
  BY Zenon DEF handleNewMessageReceived, reachedVars
<1>2. /\ ListSound /\ ViewTyped /\ ChatKnown /\ RequestsKnown
      /\ FirstAlone /\ ReachNoGaps /\ ReachIsEnd
  BY DEF ViewInv
<1>3. /\ Sound(Model) /\ IdsOf(Model.list) = RowIds
      /\ Ids \subseteq Nat /\ existing \subseteq Nat /\ RowIds \subseteq Ids
      /\ Reach \subseteq Ids /\ \A n \in Reach : n \in existing => n \in RowIds
  BY <1>2, ViewFacts
<1>4. Sound(t) /\ IdsOf(t.list) = RowIds \cup {id}
  <2>1. t = handleInsertMessages(Model, {id}) /\ {id} \in SUBSET Ids
    OBVIOUS
  <2> HIDE DEF t
  <2> QED
    BY <1>3, <2>1, InsertSound
<1> HIDE DEF t
<1>5. Sound(s) /\ IdsOf(s.list) = RowIds \cup add
  BY <1>3, <1>4
<1> HIDE DEF s
<1>6. ListSound' /\ messages' = s.list
  BY <1>1, <1>5, SoundModel
<1>7. RowIds' = RowIds \cup add
  BY <1>5, <1>6 DEF RowIds, IdsOf
<1>8. /\ existing \subseteq Ids /\ deleted \subseteq Ids \ existing
      /\ RowIds \subseteq existing \cup deleted
      /\ Anchors \subseteq RowIds \cup deleted
  BY <1>2 DEF ChatKnown, RequestsKnown, Anchors
<1>9. Reach \subseteq existing \cup deleted /\ id \in Nat
  BY <1>3, <1>8 DEF Reach
<1>10. \A m \in existing \cup Reach : m \in Nat /\ m < id
  BY <1>1, <1>3, <1>9
<1>11. id \notin existing /\ id \notin Reach /\ id \notin deleted
  BY <1>1, <1>8, <1>9, <1>10, <1>3
<1>12. add \subseteq {id} /\ (shown => add = {id}) /\ (~shown => add = {})
  OBVIOUS
<1> HIDE DEF add
<1>13. ViewTyped'
  BY <1>1, <1>2 DEF ViewTyped
<1>14. ChatKnown'
  BY <1>1, <1>2, <1>7, <1>8, <1>11, <1>12 DEF ChatKnown
<1>15. RequestsKnown'
  BY <1>1, <1>2, <1>7 DEF RequestsKnown
<1>16. FirstAlone'
  BY <1>1, <1>2, <1>7, <1>12 DEF FirstAlone
<1>17. Anchors' = Anchors /\ Reach' = Reach \cup add
  <2>1. Anchors' = Anchors
    BY <1>1 DEF Anchors
  <2> QED
    BY <1>7, <2>1 DEF Reach
<1> DEFINE P == Pool(searchQuery)
           Q == Pool(searchQuery)'
<1>18. P \subseteq existing /\ P \subseteq Q /\ Q \subseteq P \cup {id}
       /\ (searchQuery = "" => Q = existing \cup {id} /\ P = existing)
  BY <1>1 DEF Pool
<1> HIDE DEF P, Q
<1>19. ReachNoGaps'
  <2> SUFFICES ASSUME ~foreign'
               PROVE  /\ RowIds' \cap existing' \subseteq Q
                      /\ Continuous(Q \ skipped, RowIds', Reach')
    BY <1>1 DEF ReachNoGaps, Q, Continuous
  <2>1. RowIds \cap existing \subseteq P /\ Continuous(P \ skipped, RowIds, Reach)
    BY <1>1, <1>2 DEF ReachNoGaps, P
  <2>2. RowIds' \cap existing' \subseteq Q
    <3>1. RowIds \cap existing' \subseteq Q
      BY <1>1, <1>8, <1>11, <1>18, <2>1 DEF Reach
    <3>2. add \subseteq Q
      BY <1>12, <1>18
    <3> QED
      BY <1>7, <3>1, <3>2
  <2>3. ASSUME NEW m \in Q \ skipped, NEW k \in Reach', NEW n \in Reach', k < m, m < n
        PROVE  m \in RowIds'
    <3>1. m \in P /\ k \in Reach /\ m \in Nat /\ k \in Nat
      <4>1. n <= id /\ n \in Nat
        <5>1. n \in Reach \/ n = id
          BY <1>12, <1>17
        <5>2. CASE n = id
          BY <1>9, <5>2
        <5>3. CASE n \in Reach
          <6>1. n \in Nat /\ n < id
            BY <1>10, <5>3
          <6> QED
            BY <1>9, <6>1
        <5> QED
          BY <5>1, <5>2, <5>3
      <4>2. m # id
        BY <1>9, <2>3, <4>1
      <4>3. m \in P /\ m \in Nat /\ m < id
        BY <1>10, <1>18, <4>2
      <4>4. k # id
        BY <1>9, <2>3, <4>3
      <4> QED
        BY <1>10, <1>12, <1>17, <4>3, <4>4
    <3>2. CASE n \in Reach
      BY <1>7, <2>1, <2>3, <3>1, <3>2 DEF Continuous
    <3>3. CASE n \notin Reach
      <4>1. shown
        BY <1>12, <1>17, <3>3
      <4>2. m \in existing /\ \A x \in existing \ (RowIds \cup skipped) : x < k
        BY <1>1, <1>2, <1>18, <3>1, <4>1 DEF ReachIsEnd
      <4>3. ~(m < k)
        BY <2>3, <3>1
      <4> QED
        BY <1>7, <4>2, <4>3
    <3> QED
      BY <3>2, <3>3
  <2> QED
    BY <2>2, <2>3 DEF Continuous
<1>20. ReachIsEnd'
  <2> SUFFICES ASSUME endReached', searchQuery' = "", ~foreign',
                      NEW m \in existing' \ (RowIds' \cup skipped), NEW n \in Reach'
               PROVE  m < n
    BY <1>1 DEF ReachIsEnd
  <2>1. shown /\ add = {id}
    BY <1>1, <1>12
  <2>2. m \in existing \ (RowIds \cup skipped)
    BY <1>1, <1>7, <2>1
  <2>3. CASE n \in Reach
    BY <1>1, <1>2, <2>1, <2>2, <2>3 DEF ReachIsEnd
  <2>4. CASE n \notin Reach
    BY <1>10, <1>17, <2>1, <2>2, <2>4
  <2> QED
    BY <2>3, <2>4
<1> QED
  BY <1>6, <1>13, <1>14, <1>15, <1>16, <1>19, <1>20 DEF ViewInv

\* A sent message takes its row to the end of the list, or has none.  What it
\* passes over without a row, and what it should have had a row for, is skipped.
LEMMA SentHistoryStep ==
    ASSUME ViewInv, NEW old \in Ids, NEW new \in Ids,
           HistoryMessageSendSucceeded(old, new)
    PROVE  ViewInv'
<1>1. /\ \A query \in DOMAIN Matching : old \in Matching[query] <=> new \in Matching[query]
      /\ handleMessageSendSucceeded(old, new)
      /\ skipped' = skipped \cup LeftOut(old, new)
      /\ waitingFor' = waitingFor /\ requests' = requests
      /\ startReached' = startReached /\ endReached' = endReached
      /\ searchQuery' = searchQuery /\ foreign' = foreign
  BY DEF HistoryMessageSendSucceeded, reachedVars
<1>2. /\ ListSound /\ ViewTyped /\ ChatKnown /\ RequestsKnown
      /\ FirstAlone /\ ReachNoGaps /\ ReachIsEnd
  BY DEF ViewInv
<1>3. /\ IdsOf(messages) = RowIds /\ Ids \subseteq Nat /\ RowIds \subseteq Ids
      /\ Reach \subseteq Ids /\ \A n \in Reach : n \in existing => n \in RowIds
  BY <1>2, ViewFacts
<1>4. /\ old \in existing /\ new \notin existing \cup deleted /\ old < new
      /\ existing' = (existing \ {old}) \cup {new} /\ deleted' = deleted \cup {old}
      /\ edited' = edited \ {old}
  BY <1>1 DEF handleMessageSendSucceeded
<1>5. MessagesKnown
  BY <1>2, <1>3 DEF MessagesKnown, ChatKnown
<1>6. /\ ListSound' /\ MessagesKnown'
      /\ old \in RowIds => IdsOf(messages') = (RowIds \ {old}) \cup {new}
      /\ old \notin RowIds => IdsOf(messages') = RowIds
  BY <1>1, <1>2, <1>3, <1>5, SentRows
<1>7. /\ RowIds' = IdsOf(messages')
      /\ old \in RowIds => RowIds' = (RowIds \ {old}) \cup {new}
      /\ old \notin RowIds => RowIds' = RowIds
  BY <1>6 DEF RowIds, IdsOf
<1> DEFINE P == Pool(searchQuery)
           Q == Pool(searchQuery)'
           newest == \A m \in existing \cup deleted : new > m
           atEnd == searchQuery = "" /\ endReached
<1>8. /\ Q \subseteq (P \ {old}) \cup {new} /\ P \ {old} \subseteq Q
      /\ (old \in P => new \in Q) /\ P \subseteq existing
      /\ (searchQuery = "" => P = existing)
  <2>1. CASE searchQuery = ""
    BY <1>1, <1>4, <2>1 DEF Pool
  <2>2. CASE searchQuery # ""
    <3>1. searchQuery \in DOMAIN Matching
      BY <1>2, <2>2 DEF ViewTyped, Queries
    <3>2. P = existing \cap Matching[searchQuery] /\ Q = existing' \cap Matching[searchQuery]
      BY <1>1, <2>2 DEF Pool
    <3> QED
      BY <1>1, <1>4, <2>2, <3>1, <3>2
  <2> QED
    BY <2>1, <2>2
<1>9. /\ old \in RowIds => \A m \in P \ RowIds : old < m /\ m < new => m \in skipped'
      /\ old \notin RowIds /\ ~(newest /\ ~atEnd) => new \in skipped'
      /\ skipped \subseteq skipped'
  BY <1>1 DEF LeftOut
<1>10. LeftOut(old, new) \subseteq Ids
  <2>1. P \subseteq Ids
    BY <1>2, <1>8 DEF ChatKnown
  <2> HIDE DEF P
  <2> QED
    BY <2>1 DEF LeftOut, P
<1>11. ViewTyped'
  BY <1>1, <1>2, <1>10 DEF ViewTyped
<1>12. ChatKnown'
  BY <1>2, <1>4, <1>6, <1>7 DEF ChatKnown, MessagesKnown
<1>13. RowIds \cup deleted \subseteq RowIds' \cup deleted'
  BY <1>4, <1>7
<1>14. RequestsKnown'
  BY <1>1, <1>2, <1>13 DEF RequestsKnown
<1>15. FirstAlone'
  BY <1>1, <1>2, <1>7 DEF FirstAlone
<1>16. /\ Anchors' = Anchors /\ RowIds \subseteq Reach
       /\ old \in RowIds => Reach' \subseteq Reach \cup {new}
       /\ old \notin RowIds => Reach' = Reach
  <2>1. Anchors' = Anchors
    BY <1>1 DEF Anchors
  <2> QED
    BY <1>7, <2>1 DEF Reach
<1>17. Reach \subseteq existing \cup deleted /\ new \notin Reach
  <2>1. Anchors \subseteq RowIds \cup deleted /\ RowIds \subseteq existing \cup deleted
    BY <1>2 DEF ChatKnown, RequestsKnown, Anchors
  <2> QED
    BY <1>4, <2>1 DEF Reach
<1>18. old \in Nat /\ new \in Nat /\ existing \subseteq Nat /\ Reach \subseteq Nat
  BY <1>2, <1>3 DEF ChatKnown
<1> HIDE DEF P, Q
<1>19. ReachNoGaps'
  <2> SUFFICES ASSUME ~foreign'
               PROVE  /\ RowIds' \cap existing' \subseteq Q
                      /\ Continuous(Q \ skipped', RowIds', Reach')
    BY DEF ReachNoGaps, Q, Continuous
  <2>1. RowIds \cap existing \subseteq P /\ Continuous(P \ skipped, RowIds, Reach)
    BY <1>1, <1>2 DEF ReachNoGaps, P
  <2>2. RowIds' \cap existing' \subseteq Q
    BY <1>4, <1>7, <1>8, <1>16, <1>17, <2>1
  <2>3. ASSUME NEW m \in Q \ skipped', NEW k \in Reach', NEW n \in Reach', k < m, m < n
        PROVE  m \in RowIds'
    <3>1. CASE m = new
      <4>1. CASE old \in RowIds
        BY <1>7, <3>1, <4>1
      <4>2. CASE old \notin RowIds
        <5>1. newest
          BY <1>9, <3>1, <4>2
        <5>2. n \in existing \cup deleted /\ n \in Nat
          BY <1>16, <1>17, <1>18, <4>2
        <5>3. new > n
          BY <5>1, <5>2
        <5> QED
          BY <1>18, <2>3, <3>1, <5>2, <5>3
      <4> QED
        BY <4>1, <4>2
    <3>2. CASE m # new
      <4>1. m \in P \ skipped /\ m # old /\ m \in Nat
        BY <1>8, <1>9, <1>18, <3>2, <1>4
      <4>2. m \in RowIds => m \in RowIds'
        BY <1>7, <4>1
      <4>3. CASE k \in Reach /\ n \in Reach
        BY <2>1, <2>3, <4>1, <4>2, <4>3 DEF Continuous
      <4>4. CASE ~(k \in Reach /\ n \in Reach)
        <5>1. old \in RowIds /\ old \in Reach /\ (k = new \/ n = new)
          BY <1>16, <4>4
        <5>2. k \in Nat /\ n \in Nat
          BY <1>16, <1>18, <5>1
        <5>3. CASE k = new
          <6>1. old < m /\ n # new /\ n \in Reach
            BY <1>4, <1>16, <1>18, <2>3, <4>1, <5>1, <5>2, <5>3
          <6> QED
            BY <2>1, <2>3, <4>1, <4>2, <5>1, <6>1 DEF Continuous
        <5>4. CASE n = new /\ k \in Reach
          <6>1. CASE old < m
            <7>1. m \in RowIds
              BY <1>9, <2>3, <4>1, <5>1, <5>4, <6>1
            <7> QED
              BY <4>2, <7>1
          <6>2. CASE m < old
            BY <2>1, <2>3, <4>1, <4>2, <5>1, <5>4, <6>2 DEF Continuous
          <6> QED
            BY <1>18, <4>1, <6>1, <6>2
        <5> QED
          BY <1>16, <5>1, <5>3, <5>4
      <4> QED
        BY <4>3, <4>4
    <3> QED
      BY <3>1, <3>2
  <2> QED
    BY <2>2, <2>3 DEF Continuous
<1>20. ReachIsEnd'
  <2> SUFFICES ASSUME endReached', searchQuery' = "", ~foreign',
                      NEW m \in existing' \ (RowIds' \cup skipped'), NEW n \in Reach'
               PROVE  m < n
    BY DEF ReachIsEnd
  <2>1. atEnd /\ \A x \in existing \ (RowIds \cup skipped), y \in Reach : x < y
    BY <1>1, <1>2 DEF ReachIsEnd
  <2>2. m # new
    BY <1>7, <1>9, <2>1
  <2>3. m \in existing \ (RowIds \cup skipped)
    BY <1>4, <1>7, <1>9, <2>2
  <2>4. CASE n \in Reach
    BY <2>1, <2>3, <2>4
  <2>5. CASE n \notin Reach
    <3>1. old \in RowIds /\ old \in Reach /\ n = new
      BY <1>16, <2>5
    <3>2. m < old /\ m \in Nat
      BY <1>18, <2>1, <2>3, <3>1
    <3>3. old < new /\ old \in Nat /\ new \in Nat
      BY <1>4, <1>18
    <3>4. m < new
      BY ONLY <3>2, <3>3
    <3> QED
      BY <3>1, <3>4
  <2> QED
    BY <2>4, <2>5
<1> QED
  BY <1>6, <1>11, <1>12, <1>14, <1>15, <1>19, <1>20 DEF ViewInv

\* An answer.  It is taken for the list if its kind is waited for or the list
\* is empty; if few messages are new, more are asked for.
LEMMA ReceivedStep ==
    ASSUME ViewInv, NEW r \in requests, NEW batch \in Answers(r),
           handleMessagesReceived(r, batch)
    PROVE  ViewInv'
<1> DEFINE accepted == batch # {} /\ (r.type \in waitingFor \/ messages = <<>>)
           new == batch \ DOMAIN messageIndexMap
           reload == /\ accepted /\ new # {} /\ r.type # "Reload"
                     /\ Cardinality(new) + Cardinality(batch) < Few
           notified == batch = {} \/ (accepted /\ ~reload)
           t == handleInsertMessages(Model, batch)
           s == IF accepted THEN t ELSE Model
           nothing == NothingFound(r, batch)
           add == IF accepted THEN batch ELSE {}
<1>1. /\ SetModel(s)
      /\ waitingFor' = (waitingFor \ {r.type}) \cup (IF reload THEN {"Reload"} ELSE {})
      /\ requests' = IF reload THEN Sent(requests \ {r}, "Reload", Min(new), searchQuery)
                     ELSE requests \ {r}
      /\ endReached' = \/ endReached
                       \/ /\ notified
                          /\ \/ lastMessageId \in DOMAIN s.map
                             \/ nothing /\ r.type \in {"NextSlice", "Initial"}
      /\ startReached' = \/ startReached
                         \/ notified /\ nothing /\ r.type \in {"PreviousSlice", "Initial"}
      /\ foreign' = (foreign \/ (~r.current /\ (accepted \/ batch = {})))
      /\ existing' = existing /\ deleted' = deleted /\ edited' = edited
      /\ searchQuery' = searchQuery /\ skipped' = skipped
  BY Zenon DEF handleMessagesReceived, tdVars
<1>2. /\ ListSound /\ ViewTyped /\ ChatKnown /\ RequestsKnown
      /\ FirstAlone /\ ReachNoGaps /\ ReachIsEnd
  BY DEF ViewInv
<1>3. /\ Sound(Model) /\ IdsOf(Model.list) = RowIds
      /\ DOMAIN messageIndexMap = RowIds /\ (messages = <<>> <=> RowIds = {})
      /\ Ids \subseteq Nat /\ existing \subseteq Nat /\ RowIds \subseteq Ids
      /\ Reach \subseteq Ids /\ \A n \in Reach : n \in existing => n \in RowIds
  BY <1>2, ViewFacts
<1>4. existing \subseteq Ids /\ r \in Request
  BY <1>2 DEF ChatKnown, RequestsKnown
<1> DEFINE P == Pool(r.query)
<1>5. /\ batch \subseteq P
      /\ \A m \in P, n \in batch : r.from # 0 /\ r.from < m /\ m < n => m \in batch
      /\ \A m \in P, n \in batch : (r.from = 0 \/ m <= r.from) /\ n < m => m \in batch
      /\ batch = {} /\ r.query = "" /\ r.type \in {"NextSlice", "Initial"} => P = {}
  BY <1>4, AnswerIsSlice
<1>6. P \subseteq existing /\ P \subseteq Nat /\ batch \in SUBSET Ids
  BY <1>4, <1>5, PoolKnown
<1> HIDE DEF P
<1>7. Sound(t) /\ IdsOf(t.list) = RowIds \cup batch
  <2>1. t = handleInsertMessages(Model, batch)
    OBVIOUS
  <2> HIDE DEF t
  <2> QED
    BY <1>3, <1>6, <2>1, InsertSound
<1> HIDE DEF t
<1>8. Sound(s) /\ IdsOf(s.list) = RowIds \cup add
  BY <1>3, <1>7
<1>9. DOMAIN s.map = RowIds \cup add
  <2> HIDE DEF s, add
  <2> QED
    BY <1>8 DEF Sound, IsIndexOf
<1>10. /\ (accepted => add = batch) /\ (~accepted => add = {}) /\ add \subseteq batch
       /\ (batch = {} => ~accepted)
  OBVIOUS
<1>11. RowIds = {} /\ batch # {} => accepted
  BY <1>3
<1>12. /\ (reload => accepted) /\ (reload => new # {}) /\ new \subseteq batch
       /\ (notified => batch = {} \/ accepted)
       /\ (batch = {} => notified)
  OBVIOUS
<1> HIDE DEF s, add, accepted, reload, new, notified, nothing
<1>13. ListSound' /\ messages' = s.list
  BY <1>1, <1>8, SoundModel
<1>14. RowIds' = RowIds \cup add
  BY <1>8, <1>13 DEF RowIds, IdsOf
<1>15. reload => Min(new) \in batch /\ Min(new) \in Ids /\ Min(new) \in RowIds'
  <2> SUFFICES ASSUME reload
               PROVE  Min(new) \in batch /\ Min(new) \in Ids /\ Min(new) \in RowIds'
    OBVIOUS
  <2>1. new \subseteq Nat /\ new # {}
    BY <1>3, <1>6, <1>12
  <2>2. Min(new) \in new
    BY <2>1, MinOfPositions
  <2> QED
    BY <1>6, <1>10, <1>12, <1>14, <2>2
<1> DEFINE q == Ask("Reload", Min(new), searchQuery)
<1>16. /\ reload => /\ q \in Request /\ q.type = "Reload" /\ q.query = searchQuery
                    /\ q.from \in RowIds' /\ q.from \in batch
                    /\ requests' = (requests \ {r}) \cup {q}
       /\ ~reload => requests' = requests \ {r}
  <2>1. CASE reload
    <3>1. q = Ask("Reload", Min(new), searchQuery)
      OBVIOUS
    <3>2. Min(new) \in Ids \cup {0} /\ searchQuery \in Queries /\ "Reload" \in UpdateType
      BY <1>2, <1>15, <2>1 DEF ViewTyped, UpdateType
    <3> HIDE DEF q
    <3>3. /\ q \in Request /\ q.type = "Reload" /\ q.query = searchQuery
          /\ q.from = Min(new)
      BY <3>1, <3>2 DEF Ask, Request
    <3>4. requests' = (requests \ {r}) \cup {q}
      BY ONLY <1>1, <2>1, <3>1, Zenon DEF Sent, Ask
    <3> QED
      BY <1>15, <2>1, <3>3, <3>4
  <2>2. CASE ~reload
    <3>1. requests' = requests \ {r}
      BY <1>1, <2>2
    <3> QED
      BY <2>2, <3>1
  <2> QED
    BY <2>1, <2>2
<1> HIDE DEF q
<1>17. ViewTyped'
  <2>1. waitingFor' \subseteq UpdateType
    BY <1>1, <1>2 DEF ViewTyped, UpdateType
  <2>2. startReached' \in BOOLEAN /\ endReached' \in BOOLEAN /\ foreign' \in BOOLEAN
    BY <1>1, Zenon
  <2> QED
    BY <1>1, <1>2, <2>1, <2>2 DEF ViewTyped
<1>18. ChatKnown'
  BY <1>1, <1>2, <1>5, <1>6, <1>10, <1>14 DEF ChatKnown
<1>19. RequestsKnown'
  <2>1. /\ requests \subseteq Request /\ IsFiniteSet(requests)
        /\ Cardinality(requests) <= MaxRequests
    BY <1>2 DEF RequestsKnown
  <2> DEFINE rest == requests \ {r}
  <2>2. /\ IsFiniteSet(rest) /\ Cardinality(requests) \in Nat
        /\ Cardinality(rest) = Cardinality(requests) - 1
    BY <2>1, OneLess
  <2> HIDE DEF rest
  <2>3. /\ IsFiniteSet(rest \cup {q}) /\ Cardinality(rest) \in Nat
        /\ Cardinality(rest \cup {q}) \in Nat
        /\ Cardinality(rest \cup {q}) <= Cardinality(rest) + 1
    BY <2>2, OneMore
  <2>4. MaxRequests \in Nat
    BY ReadableAssumption DEF ReadableAssumption
  <2>5. Cardinality(rest) <= MaxRequests /\ Cardinality(rest \cup {q}) <= MaxRequests
    BY <2>1, <2>2, <2>3, <2>4
  <2>6. requests' = rest \cup {q} \/ requests' = rest
    BY <1>16 DEF rest
  <2>7. IsFiniteSet(requests') /\ Cardinality(requests') <= MaxRequests
    BY <2>2, <2>3, <2>5, <2>6
  <2>8. requests' \subseteq Request
    BY <1>16, <2>1
  <2>9. ASSUME NEW p \in requests', p.current
        PROVE  p.query = searchQuery' /\ (p.type # "Initial" => p.from \in RowIds' \cup deleted')
    BY <1>1, <1>2, <1>14, <1>16, <2>9 DEF RequestsKnown
  <2> QED
    BY <2>7, <2>8, <2>9 DEF RequestsKnown
<1>20. Reach' \subseteq Reach \cup add
  <2>1. Anchors' \subseteq Anchors \cup (RowIds \cup add)
    BY <1>14, <1>16 DEF Anchors
  <2> QED
    BY <1>14, <2>1 DEF Reach
<1>21. RowIds' \subseteq Reach' /\ \A n \in Reach' : n \in existing => n \in RowIds'
  <2>1. Anchors' \subseteq RowIds' \cup deleted'
    BY <1>19 DEF RequestsKnown, Anchors
  <2>2. deleted' \subseteq Ids \ existing'
    BY <1>18 DEF ChatKnown
  <2> QED
    BY <1>1, <2>1, <2>2 DEF Reach
<1>22. ~foreign' => ~foreign /\ (r.current \/ (~accepted /\ batch # {}))
  BY <1>1, Zenon
<1>23. FirstAlone'
  <2> SUFFICES ASSUME ~foreign', NEW p \in requests', p.current, p.type = "Initial"
               PROVE  /\ RowIds' = {} /\ ~endReached'
                      /\ \A x \in requests' : x.current => x = p
    BY DEF FirstAlone
  <2>1. p \in requests /\ p # r
    BY <1>16
  <2>2. RowIds = {} /\ ~endReached /\ \A x \in requests : x.current => x = p
    BY <1>2, <1>22, <2>1 DEF FirstAlone
  <2>3. ~r.current
    BY <2>1, <2>2
  <2>4. ~accepted /\ batch # {}
    BY <1>22, <2>3
  <2>5. add = {} /\ ~reload /\ ~notified
    BY <1>10, <1>12, <2>4
  <2>6. ~endReached'
    BY <1>1, <2>2, <2>5, Zenon
  <2> QED
    BY <1>14, <1>16, <2>2, <2>5, <2>6
<1>24. CASE ~accepted /\ batch # {}
  <2>1. add = {} /\ ~notified
    BY <1>10, <1>12, <1>24
  <2>2. endReached' => endReached
    BY <1>1, <2>1, Zenon
  <2>3. /\ RowIds' \subseteq RowIds /\ existing' \cap RowIds \subseteq RowIds'
        /\ Reach' \subseteq Reach /\ existing' \subseteq existing
    BY <1>1, <1>14, <1>20, <2>1
  <2> QED
    BY <1>1, <1>13, <1>17, <1>18, <1>19, <1>22, <1>23, <2>2, <2>3, SmallerList
<1>25. CASE accepted \/ batch = {}
  <2> DEFINE V == P \ skipped
  <2>0. V \subseteq P /\ V \subseteq Nat /\ add \subseteq Nat
    BY <1>5, <1>6, <1>10
  <2> HIDE DEF V
  <2>1. ASSUME ~foreign'
        PROVE  /\ ~foreign /\ r.current /\ r.query = searchQuery
               /\ P = Pool(searchQuery) /\ P = Pool(searchQuery)'
               /\ r.type = "Initial" => RowIds = {} /\ Reach = {} /\ ~endReached
               /\ r.type # "Initial" => /\ r.from \in Reach /\ r.from \in Nat
                                        /\ r.from # 0 /\ (r.from \in P => r.from \in RowIds)
    <3>1. ~foreign /\ r.current
      BY <1>22, <1>25, <2>1
    <3>2. r.query = searchQuery
      BY <1>2, <3>1 DEF RequestsKnown
    <3>3. P = Pool(searchQuery) /\ P = Pool(searchQuery)'
      BY <1>1, <3>2 DEF P, Pool
    <3>4. ASSUME r.type = "Initial"
          PROVE  RowIds = {} /\ Reach = {} /\ ~endReached
      <4>1. /\ RowIds = {} /\ ~endReached
            /\ \A x \in requests : x.current => x = r
        BY <1>2, <3>1, <3>4 DEF FirstAlone
      <4>2. Anchors = {}
        BY <3>4, <4>1 DEF Anchors
      <4> QED
        BY <4>1, <4>2 DEF Reach
    <3>5. ASSUME r.type # "Initial"
          PROVE  /\ r.from \in Reach /\ r.from \in Nat
                 /\ r.from # 0 /\ (r.from \in P => r.from \in RowIds)
      <4>1. r.from \in Reach
        BY <3>1, <3>5 DEF Reach, Anchors
      <4>2. r.from \in Ids
        BY <1>3, <4>1
      <4>3. r.from \in Nat /\ r.from # 0
        BY <4>2, MessagesAssumption DEF MessagesAssumption
      <4> QED
        BY <1>3, <1>6, <4>1, <4>3
    <3> QED
      BY <3>1, <3>2, <3>3, <3>4, <3>5
  <2>2. \A m \in P, n \in add : m <= r.from /\ n < m => m \in add
    BY <1>5, <1>10
  <2>3. ASSUME ~foreign'
        PROVE  /\ RowIds' \cap existing \subseteq P
               /\ Continuous(V, RowIds \cup add, Reach \cup add)
    <3>1. RowIds \cap existing \subseteq P /\ Continuous(V, RowIds, Reach)
      BY <1>2, <2>1, <2>3 DEF ReachNoGaps, V
    <3>2. RowIds' \cap existing \subseteq P
      BY <1>5, <1>10, <1>14, <3>1
    <3>3. CASE r.type = "Initial"
      <4>1. RowIds = {} /\ Reach = {}
        BY <2>1, <2>3, <3>3
      <4>2. ASSUME NEW m \in V, NEW k \in add, NEW n \in add, k < m, m < n
            PROVE  m \in add
        <5>1. accepted /\ add = batch
          BY <1>10, <4>2
        <5>2. m \in Nat /\ m \in P
          BY <2>0
        <5>3. r.from \in Nat
          BY <1>4, RequestFrom
        <5>4. (r.from = 0 \/ m <= r.from) \/ (r.from # 0 /\ r.from < m)
          BY <5>2, <5>3
        <5> QED
          BY <1>5, <4>2, <5>1, <5>2, <5>4
      <4>3. Continuous(V, add, add)
        BY <4>2 DEF Continuous
      <4>4. RowIds \cup add = add /\ Reach \cup add = add
        BY <4>1
      <4> QED
        BY <3>2, <4>3, <4>4
    <3>4. CASE r.type # "Initial"
      <4> DEFINE from == r.from
      <4>1. from \in Reach /\ from # 0 /\ (from \in V => from \in RowIds)
        BY <2>0, <2>1, <2>3, <3>4
      <4>2. Reach \subseteq Nat
        BY <1>3
      <4>3. /\ \A m \in V, n \in add : from < m /\ m < n => m \in add
            /\ \A m \in V, n \in add : m <= from /\ n < m => m \in add
        BY <1>5, <1>10, <2>0, <2>2, <4>1
      <4> HIDE DEF from
      <4>4. Continuous(V, RowIds \cup add, Reach \cup add)
        BY ONLY <2>0, <3>1, <4>1, <4>2, <4>3, SliceContinues
      <4> QED
        BY <3>2, <4>4
    <3> QED
      BY <3>3, <3>4
  <2>4. ASSUME ~foreign'
        PROVE  Continuous(V, RowIds', Reach')
    <3>1. Continuous(V, RowIds \cup add, Reach \cup add)
      BY <2>3, <2>4
    <3>2. V \cap (RowIds \cup add) \subseteq RowIds'
      BY <1>14
    <3> QED
      BY <1>20, <3>1, <3>2, GapsKept
  <2>5. ReachNoGaps'
    <3> SUFFICES ASSUME ~foreign'
                 PROVE  /\ RowIds' \cap existing' \subseteq Pool(searchQuery)'
                        /\ Continuous(V, RowIds', Reach')
      BY <1>1, <2>1 DEF ReachNoGaps, Continuous, V
    <3> QED
      BY <1>1, <2>1, <2>3, <2>4
  <2>6. ASSUME endReached', searchQuery = "", ~foreign'
        PROVE  \A m \in existing \ (RowIds' \cup skipped), n \in Reach' : m < n
    <3>0. SUFFICES \A m \in V \ RowIds', n \in Reach' : m < n
      BY <2>1, <2>6 DEF Pool, V
    <3>1. P = existing /\ r.query = ""
      BY <2>1, <2>6 DEF Pool
    <3>2. CASE endReached
      <4>1. r.from \in Reach /\ r.from \in Nat
        BY <2>1, <2>6, <3>2
      <4>2. \A m \in V \ RowIds, n \in Reach : m < n
        BY <1>2, <2>1, <2>6, <3>1, <3>2 DEF ReachIsEnd, V
      <4>4. \A m \in V \ (RowIds \cup add), n \in Reach \cup add : m < n
        <5> DEFINE from == r.from
        <5>1. /\ from \in Nat /\ from \in Reach
              /\ \A m \in V, n \in add : m <= from /\ n < m => m \in add
          BY <2>0, <2>2, <4>1
        <5> HIDE DEF from
        <5> QED
          BY ONLY <2>0, <4>2, <5>1, EndContinues
      <4> QED
        BY <1>14, <1>20, <4>4
    <3>3. CASE lastMessageId \in RowIds'
      <4> SUFFICES ASSUME existing # {}
                   PROVE  \A m \in V \ RowIds', n \in Reach' : m < n
        BY <2>0, <3>1
      <4>1. lastMessageId \in existing /\ \A m \in existing : m <= lastMessageId
        BY <1>4, LastMessage
      <4> DEFINE last == lastMessageId
                 R == RowIds'
                 K == Reach'
      <4>2. /\ last \in R /\ last \in K /\ \A m \in V : m <= last
            /\ \A n \in K : n \in V => n \in R
        BY <1>21, <2>0, <3>1, <3>3, <4>1
      <4>3. K \subseteq Nat
        BY <1>3, <1>6, <1>10, <1>20
      <4>4. Continuous(V, R, K)
        BY <2>4, <2>6
      <4> HIDE DEF last, R, K
      <4>5. \A m \in V \ R, n \in K : m < n
        BY ONLY <2>0, <4>2, <4>3, <4>4, NewestIsEnd
      <4> QED
        BY <4>5 DEF R, K
    <3>4. CASE nothing /\ r.type \in {"NextSlice", "Initial"}
      <4>1. batch = {}
        BY <3>1, <3>4 DEF nothing, NothingFound
      <4> QED
        BY <1>5, <2>0, <3>1, <3>4, <4>1
    <3>5. \/ endReached \/ lastMessageId \in RowIds'
          \/ nothing /\ r.type \in {"NextSlice", "Initial"}
      BY <1>1, <1>9, <1>14, <2>6, Zenon
    <3> QED
      BY <3>2, <3>3, <3>4, <3>5
  <2>7. ReachIsEnd'
    BY <1>1, <2>6 DEF ReachIsEnd
  <2> QED
    BY <1>13, <1>17, <1>18, <1>19, <1>23, <2>5, <2>7 DEF ViewInv
<1> QED
  BY <1>24, <1>25

LEMMA ViewNext == ViewInv /\ [HistoryNext]_historyVars => ViewInv'
<1> SUFFICES ASSUME ViewInv, [HistoryNext]_historyVars
             PROVE  ViewInv'
  OBVIOUS
<1>1. /\ existing \cup {0} \subseteq Ids \cup {0} /\ "" \in Queries
      /\ existing \subseteq Ids \cup {0}
  BY DEF ViewInv, ChatKnown, Queries
<1>2. ASSUME messages # <<>>
      PROVE  messages[1].id \in RowIds /\ messages[Len(messages)].id \in RowIds
  <2>1. messages \in Seq(Row) /\ IdsOf(messages) = RowIds
    BY ViewFacts DEF ViewInv
  <2>2. /\ Len(messages) \in Nat
        /\ \A i \in 1..Len(messages) : messages[i].id \in RowIds
    BY <2>1, IdsByPosition
  <2>3. 1 \in 1..Len(messages) /\ Len(messages) \in 1..Len(messages)
    BY <1>2, <2>1, <2>2
  <2> QED
    BY <2>2, <2>3
<1>3. CASE \E r \in requests : \E batch \in Answers(r) : handleMessagesReceived(r, batch)
  BY <1>3, ReceivedStep
<1>4. CASE \E r \in requests : RequestFailed(r)
  BY <1>4, RequestFailedStep
<1>5. CASE loadMoreHistory
  <2>1. LoadSlice("PreviousSlice", messages[1].id)
    BY <1>5 DEF loadMoreHistory
  <2>2. messages[1].id \in RowIds
    BY <1>2, <2>1 DEF LoadSlice
  <2>3. "PreviousSlice" \in UpdateType \ {"Initial"}
    BY DEF UpdateType
  <2> QED
    BY <2>1, <2>2, <2>3, LoadSliceStep
<1>6. CASE loadMoreFuture
  <2>1. LoadSlice("NextSlice", messages[Len(messages)].id)
    BY <1>6 DEF loadMoreFuture
  <2>2. messages[Len(messages)].id \in RowIds
    BY <1>2, <2>1 DEF LoadSlice
  <2>3. "NextSlice" \in UpdateType \ {"Initial"}
    BY DEF UpdateType
  <2> QED
    BY <2>1, <2>2, <2>3, LoadSliceStep
<1>7. CASE \E from \in Ids \cup {0}, query \in Queries : ClearAndLoad(from, query)
  BY <1>7, ClearAndLoadStep
<1>8. CASE \E id \in existing : loadHistoryForMessage(id)
  BY <1>1, <1>7, <1>8 DEF loadHistoryForMessage
<1>9. CASE \E from \in existing \cup {0} : loadEnd(from)
  BY <1>1, <1>7, <1>9 DEF loadEnd
<1>10. CASE \E from \in existing \cup {0} : initializeMainModels(from)
  BY <1>1, <1>7, <1>10 DEF initializeMainModels
<1>11. CASE \E from \in existing \cup {0}, query \in Queries : setSearchQuery(query, from)
  <2>1. PICK from \in existing \cup {0}, query \in Queries : setSearchQuery(query, from)
    BY <1>11
  <2> DEFINE start == IF query = "" THEN from ELSE 0
  <2>2. ClearAndLoad(start, query)
    BY <2>1 DEF setSearchQuery
  <2>3. start \in Ids \cup {0}
    BY <1>1
  <2> HIDE DEF start
  <2> QED
    BY <1>7, <2>2, <2>3
<1>12. CASE \E id \in Ids : handleNewMessageReceived(id)
  BY <1>12, NewMessageStep
<1>13. CASE \E id \in Ids : HistoryMessagesDeleted(id)
  BY <1>13, DeletedStep
<1>14. CASE \E old, new \in Ids : HistoryMessageSendSucceeded(old, new)
  BY <1>14, SentHistoryStep
<1>15. CASE UNCHANGED historyVars
  <2>1. /\ messages' = messages /\ messageIndexMap' = messageIndexMap
        /\ albumMessageMap' = albumMessageMap /\ waitingFor' = waitingFor
        /\ existing' = existing /\ deleted' = deleted /\ edited' = edited
        /\ startReached' = startReached /\ endReached' = endReached
        /\ searchQuery' = searchQuery /\ foreign' = foreign /\ requests' = requests
        /\ skipped' = skipped
    BY <1>15 DEF historyVars, vars, listVars, tdVars, reachedVars
  <2>2. ListSound /\ ViewTyped /\ ChatKnown /\ RequestsKnown /\ FirstAlone
    BY DEF ViewInv
  <2>3. RowIds' = RowIds
    BY <2>1 DEF RowIds, IdsOf
  <2>4. ListSound'
    BY <2>1, <2>2 DEF ListSound, IndexMapExact
  <2>5. ViewTyped'
    BY <2>1, <2>2 DEF ViewTyped
  <2>6. ChatKnown'
    BY <2>1, <2>2, <2>3 DEF ChatKnown
  <2>7. RequestsKnown'
    BY <2>1, <2>2, <2>3 DEF RequestsKnown
  <2>8. FirstAlone'
    BY <2>1, <2>2, <2>3 DEF FirstAlone
  <2>9. Reach' = Reach
    BY <2>1, <2>3 DEF Reach, Anchors
  <2> QED
    BY <2>1, <2>3, <2>4, <2>5, <2>6, <2>7, <2>8, <2>9, SmallerList
<1>16. Answer => \/ \E r \in requests : \E batch \in Answers(r) : handleMessagesReceived(r, batch)
                 \/ \E r \in requests : RequestFailed(r)
  BY Zenon DEF Answer
<1>17. Load => \/ loadMoreHistory \/ loadMoreFuture
               \/ \E id \in existing : loadHistoryForMessage(id)
               \/ \E from \in existing \cup {0} : loadEnd(from)
               \/ \E from \in existing \cup {0} : initializeMainModels(from)
               \/ \E from \in existing \cup {0}, query \in Queries : setSearchQuery(query, from)
  BY Zenon DEF Load
<1>18. HistoryNext => \/ Answer \/ Load
                      \/ \E id \in Ids : handleNewMessageReceived(id)
                      \/ \E id \in Ids : HistoryMessagesDeleted(id)
                      \/ \E old, new \in Ids : HistoryMessageSendSucceeded(old, new)
  BY Zenon DEF HistoryNext
<1> QED
  BY ONLY [HistoryNext]_historyVars, <1>3, <1>4, <1>5, <1>6, <1>8, <1>9, <1>10, <1>11, <1>12, <1>13,
          <1>14, <1>15, <1>16, <1>17, <1>18, Zenon

LEMMA ViewInvariance == HistorySpec => []ViewInv
BY ViewInit, ViewNext, PTL DEF HistorySpec

(***************************************************************************)
(* Theorems about the view, for every finite set of identifiers, every     *)
(* search, any number of requests in flight and any size of the slices.    *)
(***************************************************************************)

\* The variables keep their types, and no more requests are in flight than
\* the bound allows, also when an answer asks for more at once.
THEOREM HistoryTypeCorrect == HistorySpec => []HistoryTypeOK
<1>1. ViewInv => HistoryTypeOK
  <2> SUFFICES ASSUME ViewInv PROVE HistoryTypeOK
    OBVIOUS
  <2>1. ListSound /\ ViewTyped /\ ChatKnown /\ RequestsKnown
    BY DEF ViewInv
  <2>2. /\ messages \in Seq(Row) /\ IsIndexOf(messageIndexMap, messages)
        /\ AlbumsExact(messages, albumMessageMap)
    BY <2>1 DEF ListSound, IndexMapExact
  <2>3. IdsOf(messages) \subseteq Ids /\ Len(messages) \in Nat
    BY <2>2, IdsByPosition
  <2>4. /\ DOMAIN messageIndexMap \subseteq Ids
        /\ \A m \in DOMAIN messageIndexMap : messageIndexMap[m] \in 1..Len(messages)
    BY <2>2, IdsDiffer
  <2>5. \A m \in DOMAIN messageIndexMap : messageIndexMap[m] \in Nat
    BY <2>3, <2>4
  <2>6. \A a \in DOMAIN albumMessageMap : a # 0 /\ albumMessageMap[a] \subseteq Ids
    BY <2>2, <2>3 DEF AlbumsExact, Together
  <2>7. TypeOK
    BY <2>1, <2>2, <2>4, <2>5, <2>6 DEF TypeOK, ChatKnown
  <2> QED
    BY <2>1, <2>7 DEF HistoryTypeOK, ViewTyped, RequestsKnown
<1> QED
  BY <1>1, ViewInvariance, PTL

\* handleMessagesReceived: in whatever order the answers of a list come, and
\* whatever is sent and deleted meanwhile, no message is missing between two
\* shown ones but those that handleMessageSendSucceeded moved a row over or did
\* not show, and a search shows what it finds only.
THEOREM NoGapsCorrect == HistorySpec => []NoGaps
<1>1. ViewInv => NoGaps
  BY DEF ViewInv, ReachNoGaps, NoGaps, Continuous, Reach
<1> QED
  BY <1>1, ViewInvariance, PTL

\* handleNewMessageReceived and loadMoreFuture may trust endReached: no newer
\* message is missing but those that handleMessageSendSucceeded left out.
THEOREM EndCorrect == HistorySpec => []EndReachedIsEnd
<1>1. ViewInv => EndReachedIsEnd
  <2> SUFFICES ASSUME ViewInv, endReached, searchQuery = "", messages # <<>>, ~foreign,
                      NEW m \in existing \ (RowIds \cup skipped)
               PROVE  \E n \in RowIds : m < n
    BY DEF EndReachedIsEnd
  <2>1. RowIds # {}
    BY ViewFacts DEF ViewInv
  <2>2. PICK n \in RowIds : TRUE
    BY <2>1
  <2>3. m < n
    BY DEF ViewInv, ReachIsEnd, Reach
  <2> QED
    BY <2>3
<1> QED
  BY <1>1, ViewInvariance, PTL
=============================================================================
