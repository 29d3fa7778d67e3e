--------------------------- MODULE ChatListModel ---------------------------
(***************************************************************************)
(* One chat list of the client (src/chatlistmodel.cpp): the main list, the *)
(* archive or a folder.  The list is a sequence of rows sorted by          *)
(* ListChatData::compareTo; chatIndexMap caches the position of each chat  *)
(* and every handler patches only the "damaged part" of it.                *)
(*                                                                         *)
(* TDLib is the environment.  listed is the set of chats TDLib has told    *)
(* the client are in this list (updateChatAddedToList, or the chat_lists   *)
(* field of updateNewChat) and has not taken back; session follows the     *)
(* authorization states that make TDLibWrapper emit clearContent.          *)
(*                                                                         *)
(* Positions are 1-based here and 0-based in the code.                     *)
(***************************************************************************)
EXTENDS Integers, Sequences, FiniteSets, FiniteSetsExt, SequencesExt

CONSTANTS
    Chats,      \* chat identifiers (qlonglong)
    Orders,     \* values of chatPosition.order
    MaxLoads    \* bound on loadChats requests in flight

ASSUME ChatListAssumption ==
    /\ Chats \subseteq Int
    /\ Orders \subseteq Int
    /\ MaxLoads \in Nat

VARIABLES
    chatList,               \* QList<ListChatData*>
    chatIndexMap,           \* QHash<qlonglong, int>
    loading,                \* a loadChats of this model is unanswered
    refreshTimerEnabled,    \* the QML side wants relative times refreshed
    timerActive,            \* relativeTimeRefreshTimer->isActive()
    listed,                 \* TDLib: the chats in this list
    loads,                  \* TDLib: loadChats requests in flight
    allLoaded,              \* TDLib: it has answered 404, nothing is left
    session                 \* TDLib: state of the session

rowVars == <<chatList, chatIndexMap>>
timerVars == <<refreshTimerEnabled, timerActive>>
loadVars == <<loading, loads, allLoaded>>
vars == <<rowVars, timerVars, loadVars, listed, session>>

Row == [chat: Chats, order: Orders, isPinned: BOOLEAN]

Sessions == {"open", "loggingOut", "closing"}

RowChats == {chatList[i].chat : i \in DOMAIN chatList}

Init ==
    /\ chatList = <<>>
    /\ chatIndexMap = <<>>
    /\ loading = FALSE
    /\ refreshTimerEnabled = FALSE
    /\ timerActive = FALSE
    /\ listed = {}
    /\ loads = 0
    /\ allLoaded = FALSE
    /\ session = "open"

-----------------------------------------------------------------------------
(***************************************************************************)
(* Helpers                                                                 *)
(***************************************************************************)

\* Faulty: chats of equal order, smallest identifier first.
compareToTieReversed(a, b) ==
    IF a.order = b.order
    THEN IF a.chat < b.chat THEN -1 ELSE 1
    ELSE IF a.order < b.order THEN 1 ELSE -1

\* -1: row a is shown above row b.  Never 0.
compareTo(a, b) ==
    IF a.order = b.order
    THEN IF a.chat < b.chat THEN 1 ELSE -1
    ELSE IF a.order < b.order THEN 1 ELSE -1

\* chatIndexMap.insert(list.at(i)->chatId, i) for i = from, ..., to: of two
\* rows of one chat the last one is remembered.
Reindexed(map, list, from, to) ==
    [c \in DOMAIN map \cup {list[i].chat : i \in from..to} |->
        LET here == {i \in from..to : list[i].chat = c}
        IN  IF here = {} THEN map[c] ELSE Max(here)]

\* The first position whose row is below the new one, or the end.
InsertionPos(list, row) ==
    Min({p \in 1..Len(list) + 1 :
            p = Len(list) + 1 \/ compareTo(row, list[p]) < 0})

\* Faulty: a row never moves down.
MovedPosUpOnly(list, i) ==
    Min({p \in 1..i : \A q \in p..i - 1 : compareTo(list[i], list[q]) < 0})

\* Where the row at position i belongs: as far up as the rows above it are
\* below it, and only if it cannot move up, as far down.
MovedPos(list, i) ==
    LET up == Min({p \in 1..i :
                    \A q \in p..i - 1 : compareTo(list[i], list[q]) < 0})
        down == Max({p \in i..Len(list) :
                    \A q \in i + 1..p : compareTo(list[i], list[q]) > 0})
    IN  IF up # i THEN up ELSE down

\* QList::move
Move(list, i, j) == InsertAt(RemoveAt(list, i), j, list[i])

\* Faulty: the map is patched from the old position to the new one, which is
\* nothing when the row moves up.
updateChatOrderOneWay(list, i) ==
    LET j == MovedPos(list, i)
    IN  /\ chatList' = Move(list, i, j)
        /\ chatIndexMap' = Reindexed(chatIndexMap, Move(list, i, j), i, j)

\* updateChatOrder: move the row and patch the map between the two ends.
updateChatOrder(list, i) ==
    LET j == MovedPos(list, i)
        moved == Move(list, i, j)
    IN  /\ chatList' = moved
        /\ chatIndexMap' =
            IF i = j THEN chatIndexMap
            ELSE Reindexed(chatIndexMap, moved, Min({i, j}), Max({i, j}))

\* The timer runs exactly when it is wanted.
tryEnableRefreshTimer(enabled) == timerActive' = enabled

-----------------------------------------------------------------------------
(***************************************************************************)
(* Updates from TDLib, routed to this list by TDLibData                    *)
(***************************************************************************)

handleChatAddedToList(c, order, isPinned) ==
    /\ session # "closing"
    /\ c \notin listed
    /\ listed' = listed \cup {c}
    /\ LET row == [chat |-> c, order |-> order, isPinned |-> isPinned]
           pos == InsertionPos(chatList, row)
       IN  /\ chatList' = InsertAt(chatList, pos, row)
           /\ chatIndexMap' =
                Reindexed(chatIndexMap, chatList', pos, Len(chatList) + 1)
    /\ tryEnableRefreshTimer(refreshTimerEnabled)
    /\ UNCHANGED <<refreshTimerEnabled, loadVars, session>>

handleChatRemovedFromList(c) ==
    /\ session # "closing"
    /\ c \in listed
    /\ listed' = listed \ {c}
    /\ IF c \in DOMAIN chatIndexMap
       THEN LET i == chatIndexMap[c]
                rest == [d \in DOMAIN chatIndexMap \ {c} |-> chatIndexMap[d]]
            IN  /\ chatList' = RemoveAt(chatList, i)
                /\ chatIndexMap' = Reindexed(rest, chatList', i, Len(chatList'))
       ELSE UNCHANGED rowVars
    /\ UNCHANGED <<timerVars, loadVars, session>>

\* TDLib also reports positions of chats that this model does not show.
handleChatPositionUpdated(c, order, isPinned) ==
    /\ session # "closing"
    /\ c \in DOMAIN chatIndexMap
    /\ LET i == chatIndexMap[c]
           row == [chat |-> c, order |-> order, isPinned |-> isPinned]
       IN  updateChatOrder([chatList EXCEPT ![i] = row], i)
    /\ UNCHANGED <<timerVars, loadVars, listed, session>>

\* reset(), called by ChatFoldersModel::reset on clearContent
Reset ==
    /\ chatList' = <<>>
    /\ chatIndexMap' = <<>>
    /\ loading' = FALSE

LoggingOut ==
    /\ session = "open"
    /\ session' = "loggingOut"
    /\ Reset
    /\ UNCHANGED <<timerVars, listed, loads, allLoaded>>

\* Faulty: clearContent is emitted once per logout only.
ClosingWithoutReset ==
    /\ session = "loggingOut"
    /\ session' = "closing"
    /\ UNCHANGED <<rowVars, timerVars, loadVars, listed>>

Closing ==
    /\ session = "loggingOut"
    /\ session' = "closing"
    /\ Reset
    /\ UNCHANGED <<timerVars, listed, loads, allLoaded>>

\* authorizationStateClosed: a new client identifier; the receiver drops
\* whatever is still addressed to the old one.
Closed ==
    /\ session = "closing"
    /\ session' = "open"
    /\ listed' = {}
    /\ loads' = 0
    /\ allLoaded' = FALSE
    /\ UNCHANGED <<rowVars, timerVars, loading>>

-----------------------------------------------------------------------------
(***************************************************************************)
(* Loading more chats                                                      *)
(***************************************************************************)

load ==
    /\ ~loading
    /\ loads < MaxLoads
    /\ loading' = TRUE
    /\ loads' = loads + 1
    /\ UNCHANGED <<rowVars, timerVars, allLoaded, listed, session>>

\* ChatFoldersModel::handleReady asks for the first chunk by itself.
handleReady ==
    /\ session = "open"
    /\ loads < MaxLoads
    /\ loads' = loads + 1
    /\ UNCHANGED <<rowVars, timerVars, loading, allLoaded, listed, session>>

\* Faulty: an ok that answers no load of this list is counted.
handleChatsLoadedByAnyOk ==
    /\ ~allLoaded
    /\ loads' = loads - 1
    /\ loading' = FALSE
    /\ UNCHANGED <<rowVars, timerVars, allLoaded, listed, session>>

\* ok: handleOkReceived, handleChatsLoaded
handleChatsLoaded ==
    /\ loads > 0
    /\ ~allLoaded
    /\ loads' = loads - 1
    /\ loading' = FALSE
    /\ UNCHANGED <<rowVars, timerVars, allLoaded, listed, session>>

\* error 404: handleErrorReceived returns, the model stays in its cooldown
AllChatsLoaded ==
    /\ loads > 0
    /\ loads' = loads - 1
    /\ allLoaded' = TRUE
    /\ UNCHANGED <<rowVars, timerVars, loading, listed, session>>

\* any other error: handleErrorReceived emits errorReceived, which no chat
\* list model listens to
LoadFailed ==
    /\ loads > 0
    /\ loads' = loads - 1
    /\ UNCHANGED <<rowVars, timerVars, loading, allLoaded, listed, session>>

-----------------------------------------------------------------------------

setRefreshTimerEnabled(enabled) ==
    /\ refreshTimerEnabled # enabled
    /\ refreshTimerEnabled' = enabled
    /\ tryEnableRefreshTimer(enabled)
    /\ UNCHANGED <<rowVars, loadVars, listed, session>>

TDLibUpdate ==
    \/ \E c \in Chats, o \in Orders, p \in BOOLEAN :
        \/ handleChatAddedToList(c, o, p)
        \/ handleChatPositionUpdated(c, o, p)
    \/ \E c \in Chats : handleChatRemovedFromList(c)

SessionStep == LoggingOut \/ Closing \/ Closed

LoadReply == handleChatsLoaded \/ AllChatsLoaded \/ LoadFailed

Next ==
    \/ TDLibUpdate
    \/ SessionStep
    \/ load
    \/ handleReady
    \/ LoadReply
    \/ \E e \in BOOLEAN : setRefreshTimerEnabled(e)

Spec == Init /\ [][Next]_vars

-----------------------------------------------------------------------------
(***************************************************************************)
(* Properties                                                              *)
(***************************************************************************)

\* The variables keep their types; chatIndexMap maps chats to positions.
TypeOK ==
    /\ chatList \in Seq(Row)
    /\ DOMAIN chatIndexMap \subseteq Chats
    /\ \A c \in DOMAIN chatIndexMap : chatIndexMap[c] \in Nat
    /\ loading \in BOOLEAN
    /\ refreshTimerEnabled \in BOOLEAN
    /\ timerActive \in BOOLEAN
    /\ listed \subseteq Chats
    /\ loads \in 0..MaxLoads
    /\ allLoaded \in BOOLEAN
    /\ session \in Sessions

\* The "damaged part of the map" that each handler repairs is all that was
\* damaged: the map knows every row, and every chat in it is found at its row.
\* updateChatOrder, handleChatRemovedFromList and handleChatRolesChanged index
\* chatList with it unchecked.
IsIndexOf(map, list) ==
    /\ DOMAIN map = {list[i].chat : i \in DOMAIN list}
    /\ \A i \in DOMAIN list : map[list[i].chat] = i
IndexMapExact == IsIndexOf(chatIndexMap, chatList)

\* Most recent chats first: the insertion and the two-way move of
\* updateChatOrder keep the whole list in compareTo order.
InOrder(list) ==
    \A i, j \in DOMAIN list : i < j => compareTo(list[i], list[j]) < 0
Sorted == InOrder(chatList)

\* While the session is open the rows are exactly the chats TDLib has put in
\* this list, also after a logout and a new login; after the reset
\* of a logout only chats added since then are shown.
RowsAreListed ==
    /\ RowChats \subseteq listed
    /\ session = "open" => RowChats = listed
    /\ session = "closing" => chatList = <<>>

\* The view of the list: the position TDLib gave each chat, and the chats in
\* the order of the rows.
entries ==
    [c \in DOMAIN chatIndexMap |->
        [order |-> chatList[chatIndexMap[c]].order,
         isPinned |-> chatList[chatIndexMap[c]].isPinned]]
view == [i \in DOMAIN chatList |-> chatList[i].chat]
View ==
    INSTANCE ChatListView WITH
        Chats <- Chats, Orders <- Orders, entries <- entries, view <- view

\* The handlers implement the abstract list: after every step the rows are the
\* listed chats in order, and a step that moves rows about changes the entry of
\* no chat but the one it is for.
ImplementsView == View!Spec
=============================================================================
