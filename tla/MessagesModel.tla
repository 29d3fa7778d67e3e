---------------------------- MODULE MessagesModel ----------------------------
(***************************************************************************)
(* The list of messages behind every chat view, chat/messagesmodel.cpp.    *)
(* The rows are in the order of their identifiers, oldest first;           *)
(* messageIndexMap caches the position of each message, albumMessageMap    *)
(* the messages of each media album.  The first message of an album shows  *)
(* the whole album, the others are filtered out of the view.               *)
(*                                                                         *)
(* TDLib is the environment: existing are the messages of the chat, edited *)
(* those whose content it has updated.  Positions are 1-based here and     *)
(* 0-based in the code; the range arithmetic of handleMessagesDeleted,     *)
(* which depends on it, is kept 0-based.                                   *)
(***************************************************************************)
EXTENDS Integers, Sequences, FiniteSets, FiniteSetsExt, SequencesExt

CONSTANTS
    Ids,        \* message identifiers (qlonglong)
    AlbumOf,    \* media_album_id of each message, 0: none
    MaxBatch    \* bound on the messages of one update or answer

ASSUME MessagesAssumption ==
    /\ Ids \subseteq Nat \ {0} /\ IsFiniteSet(Ids)
    /\ AlbumOf \in [Ids -> Nat]
    /\ MaxBatch \in Nat \ {0}

VARIABLES
    messages,           \* QList<MessageData*>
    messageIndexMap,    \* QHash<qlonglong, int>
    albumMessageMap,    \* QHash<qlonglong, QVariantList>
    existing,           \* TDLib: the messages of the chat
    deleted,            \* TDLib: identifiers that are not used any more
    edited              \* TDLib: messages with new content

listVars == <<messages, messageIndexMap, albumMessageMap>>
tdVars == <<existing, deleted, edited>>
vars == <<listVars, tdVars>>

Row == [id: Ids, edited: BOOLEAN,
        albumEntryFilter: BOOLEAN, albumMessageIds: SUBSET Ids]

IdsOf(list) == {list[i].id : i \in DOMAIN list}

Init ==
    /\ messages = <<>>
    /\ messageIndexMap = <<>>
    /\ albumMessageMap = <<>>
    /\ existing = {}
    /\ deleted = {}
    /\ edited = {}

-----------------------------------------------------------------------------
(***************************************************************************)
(* Helpers.  s is the state of the model, list, map and albums: the three  *)
(* variables above.                                                        *)
(***************************************************************************)
Model == [list |-> messages, map |-> messageIndexMap, albums |-> albumMessageMap]

SetModel(s) ==
    /\ messages' = s.list
    /\ messageIndexMap' = s.map
    /\ albumMessageMap' = s.albums

\* new MessageData(message, messageId)
MessageData(id) ==
    [id |-> id, edited |-> id \in edited,
     albumEntryFilter |-> FALSE, albumMessageIds |-> {}]

\* messageIndexMap.insert(list.at(i)->messageId, i) for i in from..to
Reindexed(map, list, from, to) ==
    [m \in DOMAIN map \cup {list[i].id : i \in from..to} |->
        LET here == {i \in from..to : list[i].id = m}
        IN  IF here = {} THEN map[m] ELSE Max(here)]

\* updateAlbumMessages for every album of a set: the row of the oldest message
\* shows the album.  An album that has lost all its messages keeps an entry.
updateAlbumMessages(s, touched, checkDeleted) ==
    LET known == touched \cap DOMAIN s.albums
        albums == [a \in DOMAIN s.albums |->
                    IF a \in known /\ checkDeleted
                    THEN s.albums[a] \cap DOMAIN s.map ELSE s.albums[a]]
        Regrouped(row) ==
            LET a == AlbumOf[row.id]
                isMain == row.id = Min(albums[a])
            IN  IF a \in known /\ row.id \in albums[a]
                THEN [row EXCEPT !.albumEntryFilter = ~isMain,
                                 !.albumMessageIds = IF isMain THEN albums[a] ELSE {}]
                ELSE row
    IN  [s EXCEPT !.albums = albums,
                  !.list = [i \in DOMAIN s.list |-> Regrouped(s.list[i])]]

\* Faulty: messages without an album are an album.
AlbumsOfWithNone(ids) == {AlbumOf[m] : m \in ids}

AlbumsOf(ids) == {AlbumOf[m] : m \in ids} \ {0}

\* setMessagesAlbum
setMessagesAlbum(s, new) ==
    LET albums == [a \in DOMAIN s.albums \cup AlbumsOf(new) |->
                    (IF a \in DOMAIN s.albums THEN s.albums[a] ELSE {})
                        \cup {m \in new : AlbumOf[m] = a}]
    IN  updateAlbumMessages([s EXCEPT !.albums = albums], AlbumsOf(new), FALSE)

\* Faulty: the albums are not told about the removed messages.
removeRangeKeepingAlbums(s, first, last) ==
    IF first < 0 \/ first > last THEN s
    ELSE LET gone == {s.list[i + 1].id : i \in first..last}
             list == SubSeq(s.list, 1, first) \o SubSeq(s.list, last + 2, Len(s.list))
             kept == [m \in DOMAIN s.map \ gone |-> s.map[m]]
         IN  [s EXCEPT !.list = list,
                       !.map = Reindexed(kept, list, first + 1, Len(list))]

\* removeRange, on 0-based positions: only the map behind the range is rebuilt.
removeRange(s, first, last) ==
    IF first < 0 \/ first > last THEN s
    ELSE LET gone == {s.list[i + 1].id : i \in first..last}
             list == SubSeq(s.list, 1, first) \o SubSeq(s.list, last + 2, Len(s.list))
             kept == [m \in DOMAIN s.map \ gone |-> s.map[m]]
         IN  updateAlbumMessages(
                [s EXCEPT !.list = list,
                          !.map = Reindexed(kept, list, first + 1, Len(list))],
                AlbumsOf(gone), TRUE)

\* Faulty: when older messages are inserted, only they are put into the map.
insertMessagesNewOnly(s, new) ==
    LET rows == [i \in DOMAIN new |-> MessageData(new[i])]
        appended == s.list = <<>> \/ s.list[Len(s.list)].id < new[1]
        list == IF appended THEN s.list \o rows ELSE rows \o s.list
        from == IF appended THEN Len(s.list) + 1 ELSE 1
    IN  [s EXCEPT !.list = list,
                  !.map = Reindexed(@, list, from, from + Len(new) - 1)]

\* insertMessages: all behind the last row or all before the first, by the
\* first new message; the part of the map behind the new rows is rebuilt.
insertMessages(s, new) ==
    LET rows == [i \in DOMAIN new |-> MessageData(new[i])]
        appended == s.list = <<>> \/ s.list[Len(s.list)].id < new[1]
        list == IF appended THEN s.list \o rows ELSE rows \o s.list
        from == IF appended THEN Len(s.list) + 1 ELSE 1
    IN  [s EXCEPT !.list = list, !.map = Reindexed(@, list, from, Len(list))]

\* std::sort with MessageData::lessThan
InIdOrder(ids) ==
    CHOOSE list \in [1..Cardinality(ids) -> ids] :
        \A i, j \in DOMAIN list : i < j => list[i] < list[j]

\* handleInsertMessages: unknown messages only, in order, with their albums.
handleInsertMessages(s, batch) ==
    LET new == batch \ DOMAIN s.map
    IN  IF new = {} THEN s
        ELSE setMessagesAlbum(insertMessages(s, InIdOrder(new)), new)

\* One round of the loop of handleMessagesDeleted.  count is both the number
\* of deleted messages and the mark for "no position yet".
DeleteStep(s, id, count) ==
    LET position == IF id \in DOMAIN s.map THEN s.map[id] - 1 ELSE -1
        last == IF s.last = count THEN position ELSE s.last
        first == IF s.first = count THEN position ELSE s.first
    IN  CASE position < 0 -> s
          [] position >= 0 /\ position < first - 1 ->
                [removeRange(s, first, last) EXCEPT !.first = position,
                                                    !.last = position]
          [] OTHER -> [s EXCEPT !.first = position, !.last = last]

\* handleMessagesDeleted as a function of the model; from the last identifier
\* to the first.
Deleted(s, ids) ==
    LET count == Len(ids)
        start == [list |-> s.list, map |-> s.map, albums |-> s.albums,
                  first |-> count, last |-> count]
        round[k \in 0..count] ==
            IF k = 0 THEN start ELSE DeleteStep(round[k - 1], ids[count - k + 1], count)
        done == round[count]
    IN  IF done.first # count /\ done.last # count
        THEN removeRange(done, done.first, done.last)
        ELSE done

-----------------------------------------------------------------------------
(***************************************************************************)
(* Actions of the model, as the subclasses and TDLib call them             *)
(***************************************************************************)

\* Messages arrive: an answer with a slice of the history, or a new message.
\* The slice is older or newer than all that is shown.
InsertMessages(batch) ==
    /\ batch # {} /\ batch \cap deleted = {} /\ Cardinality(batch) <= MaxBatch
    /\ \/ \A m \in batch \ DOMAIN messageIndexMap, i \in DOMAIN messages :
            m > messages[i].id
       \/ \A m \in batch \ DOMAIN messageIndexMap, i \in DOMAIN messages :
            m < messages[i].id
    /\ existing' = existing \cup batch
    /\ SetModel(handleInsertMessages(Model, batch))
    /\ UNCHANGED <<deleted, edited>>

handleMessagesDeleted(batch) ==
    /\ batch # {} /\ batch \subseteq existing /\ Cardinality(batch) <= MaxBatch
    /\ existing' = existing \ batch
    /\ deleted' = deleted \cup batch
    /\ edited' = edited \ batch
    /\ SetModel(Deleted(Model, InIdOrder(batch)))

\* A message of ours was sent: it gets its final identifier and goes to the
\* end of the list.
handleMessageSendSucceeded(old, new) ==
    /\ old \in existing /\ new \notin existing \cup deleted /\ old < new
    /\ AlbumOf[old] = 0 /\ AlbumOf[new] = 0
    /\ existing' = (existing \ {old}) \cup {new}
    /\ deleted' = deleted \cup {old}
    /\ edited' = edited \ {old}
    /\ IF old \in DOMAIN messageIndexMap
       THEN LET pos == messageIndexMap[old]
                n == Len(messages)
                kept == [m \in DOMAIN messageIndexMap \ {old} |-> messageIndexMap[m]]
                moved == Append(RemoveAt(messages, pos), MessageData(new))
            IN  /\ messages' = moved
                /\ messageIndexMap' = Reindexed(kept, moved, pos, n)
                /\ UNCHANGED albumMessageMap
       ELSE UNCHANGED listVars

\* handleMessageFieldUpdated, handleMessageReceived: the row is found through
\* the map.  TDLib also updates messages that are not shown.
handleMessageFieldUpdated(id) ==
    /\ id \in existing
    /\ edited' = edited \cup {id}
    /\ messages' = IF id \in DOMAIN messageIndexMap
                   THEN [messages EXCEPT ![messageIndexMap[id]].edited = TRUE]
                   ELSE messages
    /\ UNCHANGED <<messageIndexMap, albumMessageMap, existing, deleted>>

\* clear(): the maps are cleared only with the rows.
clear ==
    /\ messages # <<>>
    /\ messages' = <<>>
    /\ messageIndexMap' = <<>>
    /\ albumMessageMap' = <<>>
    /\ UNCHANGED tdVars

Next ==
    \/ \E batch \in SUBSET Ids :
        \/ InsertMessages(batch)
        \/ handleMessagesDeleted(batch)
    \/ \E old, new \in Ids : handleMessageSendSucceeded(old, new)
    \/ \E id \in Ids : handleMessageFieldUpdated(id)
    \/ clear

Spec == Init /\ [][Next]_vars

-----------------------------------------------------------------------------
(***************************************************************************)
(* Properties                                                              *)
(***************************************************************************)

\* The variables keep their types; 0 is no album.
TypeOK ==
    /\ messages \in Seq(Row)
    /\ DOMAIN messageIndexMap \subseteq Ids
    /\ \A m \in DOMAIN messageIndexMap : messageIndexMap[m] \in Nat
    /\ \A a \in DOMAIN albumMessageMap : a # 0 /\ albumMessageMap[a] \subseteq Ids
    /\ existing \subseteq Ids
    /\ deleted \subseteq Ids \ existing
    /\ edited \subseteq existing

\* messageIndexMap is exact although each insertion, removal and move rebuilds
\* only a part of it: every row is found at its place, and no message is in
\* the list twice.  Every handler indexes messages with it unchecked.
IsIndexOf(map, list) ==
    /\ DOMAIN map = IdsOf(list)
    /\ \A i \in DOMAIN list : map[list[i].id] = i
IndexMapExact == IsIndexOf(messageIndexMap, messages)

\* Every update of a shown message has reached its row and no other.
UpdatesReachTheirRow ==
    \A i \in DOMAIN messages :
        messages[i].id \in existing =>
            messages[i].edited = (messages[i].id \in edited)

\* An album is shown once: by the row of its oldest shown message, with all
\* its messages, however slices, new messages and deletions split it.
AlbumsShownOnce ==
    \A i \in DOMAIN messages :
        LET m == messages[i].id
            together == {n \in IdsOf(messages) : AlbumOf[n] = AlbumOf[m]}
        IN  AlbumOf[m] # 0 =>
                /\ messages[i].albumEntryFilter = (m # Min(together))
                /\ messages[i].albumMessageIds =
                        IF m = Min(together) THEN together ELSE {}

\* handleMessagesDeleted: "After all elements have been processed, there may be
\* one last range to remove.  But only if we found at least one item to
\* remove": what is found is removed, no deleted message stays in the list.
DeletedAreRemoved == IdsOf(messages) \subseteq existing
=============================================================================
