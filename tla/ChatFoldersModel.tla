-------------------------- MODULE ChatFoldersModel --------------------------
(***************************************************************************)
(* The tabs above the chat lists (src/chatfoldersmodel.cpp): one row for   *)
(* the main list and one for every chat folder.  updateChatFolders brings  *)
(* the whole arrangement; handleChatFoldersUpdated turns the old rows into *)
(* it with single removals, moves and insertions and patches the two       *)
(* caches of positions on the way.  A logout clears the rows twice.        *)
(*                                                                         *)
(* The row of the main list has the identifier 0 (an empty QVariantMap).   *)
(* Positions are 1-based here and 0-based in the code, but positions that  *)
(* come from TDLib are kept as they are.  QList::at and QList::move are    *)
(* undefined outside of the list; broken records that a handler went there *)
(* and nothing follows.                                                    *)
(*                                                                         *)
(* Names that the model of a chat list has too carry the prefix Tabs: one  *)
(* module proves facts about both.                                         *)
(***************************************************************************)
EXTENDS Integers, Sequences, FiniteSets, FiniteSetsExt, SequencesExt

CONSTANTS
    Folders,        \* identifiers of chat folders
    MainPositions   \* values of main_chat_list_position

ASSUME FoldersAssumption ==
    /\ Folders \subseteq Nat \ {0} /\ IsFiniteSet(Folders)
    /\ MainPositions \subseteq Nat

VARIABLES
    chatFolders,            \* QList<ChatFolderData*>
    chatFoldersIndexMap,    \* QHash<int, int>
    mainChatListIndex,      \* int
    chatModels,             \* the keys of chatModels
    tabsRefreshTimerEnabled,
    timerModels,            \* the folders whose model has its timer enabled
    broken,                 \* a row outside of the list was accessed
    told,                   \* TDLib: the arrangement it has sent last
    mainFirst,              \* TDLib: it has always sent the main list first
    tabsSession             \* TDLib: state of the session

tabsRowVars == <<chatFolders, chatFoldersIndexMap, mainChatListIndex>>
tabsTimerVars == <<tabsRefreshTimerEnabled, timerModels>>
toldVars == <<told, mainFirst>>
tabsVars == <<tabsRowVars, chatModels, tabsTimerVars, broken, toldVars, tabsSession>>

Main == 0

TabsSessions == {"open", "loggingOut", "closing"}

\* The lists of folders that TDLib may send: no folder is in them twice.
Arrangements ==
    UNION {{s \in [1..n -> Folders] : IsInjective(s)} :
            n \in 0..Cardinality(Folders)}

NothingTold == [folders |-> <<>>, mainPosition |-> -1]

TabsInit ==
    /\ chatFolders = <<Main>>
    /\ chatFoldersIndexMap = <<>>
    /\ mainChatListIndex = 1
    /\ chatModels = {}
    /\ tabsRefreshTimerEnabled = FALSE
    /\ timerModels = {}
    /\ broken = FALSE
    /\ told = NothingTold
    /\ mainFirst = TRUE
    /\ tabsSession = "open"

-----------------------------------------------------------------------------
(***************************************************************************)
(* Helpers.  s is the state of the rows: the list, the map, the index of   *)
(* the main list, and whether an access left the list.                     *)
(***************************************************************************)

\* chatFoldersIndexMap.insert(chatFolders.at(i)->id(), i) for i in from..to
Inserted(map, rows, from, to) ==
    [f \in DOMAIN map \cup {rows[i] : i \in from..to} |->
        LET here == {i \in from..to : rows[i] = f}
        IN  IF here = {} THEN map[f] ELSE Max(here)]

\* updateChatFolderIndexAt(i) for i in from..to
updateChatFolderIndexes(s, from, to) ==
    LET new == Inserted(s.map, s.rows, from, to)
        moved == {i \in from..to : s.rows[i] = Main}
    IN  [s EXCEPT !.map = [f \in DOMAIN s.map \cup (DOMAIN new \ {Main}) |->
                            IF f = Main THEN s.map[f] ELSE new[f]],
                  !.main = IF moved = {} THEN s.main ELSE Max(moved)]

\* chatFolders.move, then finishMove: the moved row itself is not updated.
MoveRow(s, from, to) ==
    IF from \notin DOMAIN s.rows \/ to \notin DOMAIN s.rows
    THEN [s EXCEPT !.broken = TRUE]
    ELSE LET moved == [s EXCEPT !.rows = InsertAt(RemoveAt(s.rows, from), to, s.rows[from])]
         IN  IF to < from
             THEN updateChatFolderIndexes(moved, to + 1, from)
             ELSE updateChatFolderIndexes(moved, from, to - 1)

\* Faulty: the rows behind the range keep their old positions in the map.
removeRangeOnly(s, first, last) ==
    IF first < 1 \/ first > last \/ s.broken THEN s
    ELSE LET gone == {s.rows[i] : i \in first..last}
         IN  [s EXCEPT !.rows = SubSeq(s.rows, 1, first - 1)
                                    \o SubSeq(s.rows, last + 1, Len(s.rows)),
                       !.map = [f \in DOMAIN s.map \ gone |-> s.map[f]]]

\* removeRange; the rows behind the range are reindexed, the main list's too.
removeRange(s, first, last) ==
    IF first < 1 \/ first > last \/ s.broken THEN s
    ELSE IF last > Len(s.rows) THEN [s EXCEPT !.broken = TRUE]
    ELSE LET gone == {s.rows[i] : i \in first..last}
             kept == [f \in DOMAIN s.map \ gone |-> s.map[f]]
             rows == SubSeq(s.rows, 1, first - 1)
                        \o SubSeq(s.rows, last + 1, Len(s.rows))
         IN  [s EXCEPT !.rows = rows,
                       !.map = Inserted(kept, rows, first, Len(rows))]

\* The loops look for the row of a folder and of the main list; 0: none.
\* Every row is there once, so that the first and the last one found agree.
IndexOf(rows, f) ==
    LET here == {i \in DOMAIN rows : rows[i] = f}
    IN  IF here = {} THEN 0 ELSE Max(here)

\* First loop of handleChatFoldersUpdated, from the last row to the first:
\* round[k] is the state after the last k rows.
RemoveRemoved(s, folders) ==
    LET n == Len(s.rows)
        Round(t, i) == IF t.rows[i] \in {Main} \cup ToSet(folders) THEN t
                       ELSE removeRange(t, i, i)
        round[k \in 0..n] == IF k = 0 THEN s ELSE Round(round[k - 1], n - k + 1)
    IN  round[n]

\* The main list goes to its new place, if the rows reach so far.
MoveMain(s, mainPosition) ==
    LET old == IndexOf(s.rows, Main)
        new == Min({mainPosition, Len(s.rows)}) + 1
    IN  IF old = new THEN s
        ELSE MoveRow([s EXCEPT !.main = new], old, new)

\* Faulty: a folder that has a row already is left where it is.
PlaceFolderIfNew(s, folders, mainPosition, i) ==
    LET target == Min({IF i - 1 >= mainPosition THEN i + 1 ELSE i, Len(s.rows) + 1})
        rows == InsertAt(s.rows, target, folders[i])
    IN  IF s.broken \/ IndexOf(s.rows, folders[i]) # 0 THEN s
        ELSE updateChatFolderIndexes([s EXCEPT !.rows = rows], target, Len(rows))

\* One round of the last loop, for the folder at position i of the new list.
PlaceFolder(s, folders, mainPosition, i) ==
    LET f == folders[i]
        normalizedIndex == IF i - 1 >= mainPosition THEN i + 1 ELSE i
        target == Min({normalizedIndex, Len(s.rows) + 1})
        old == IndexOf(s.rows, f)
    IN  IF s.broken \/ old = normalizedIndex THEN s
        ELSE IF old = 0
        THEN LET rows == InsertAt(s.rows, target, f)
             IN  updateChatFolderIndexes([s EXCEPT !.rows = rows], target, Len(rows))
        ELSE MoveRow([s EXCEPT !.map = Inserted(@, [j \in {target} |-> f], target, target)],
                     old, target)

\* handleChatFoldersUpdated as a function of the rows
Rearranged(s, folders, mainPosition) ==
    LET removed == RemoveRemoved([s EXCEPT !.main = 0], folders)
        placed[k \in 0..Len(folders)] ==
            IF k = 0 THEN MoveMain(removed, mainPosition)
            ELSE PlaceFolder(placed[k - 1], folders, mainPosition, k)
    IN  [placed[Len(folders)] EXCEPT !.main = mainPosition + 1]

Rows == [rows |-> chatFolders, map |-> chatFoldersIndexMap,
         main |-> mainChatListIndex, broken |-> FALSE]

SetRows(s) ==
    /\ chatFolders' = s.rows
    /\ chatFoldersIndexMap' = s.map
    /\ mainChatListIndex' = s.main
    /\ broken' = s.broken

-----------------------------------------------------------------------------
(***************************************************************************)
(* Actions                                                                 *)
(***************************************************************************)

\* Faulty: every row gets a folder's list model, the main list too.
handleChatFoldersUpdatedModelForAll(folders, mainPosition) ==
    /\ tabsSession # "closing"
    /\ SetRows(Rearranged(Rows, folders, mainPosition))
    /\ chatModels' = chatModels \cup ToSet(chatFolders')
    /\ told' = [folders |-> folders, mainPosition |-> mainPosition]
    /\ mainFirst' = (mainFirst /\ mainPosition = 0)
    /\ UNCHANGED <<tabsTimerVars, tabsSession>>

\* Faulty: list models are made when the first chat is added only.
handleChatFoldersUpdatedWithoutModels(folders, mainPosition) ==
    /\ tabsSession # "closing"
    /\ SetRows(Rearranged(Rows, folders, mainPosition))
    /\ told' = [folders |-> folders, mainPosition |-> mainPosition]
    /\ mainFirst' = (mainFirst /\ mainPosition = 0)
    /\ UNCHANGED <<chatModels, tabsTimerVars, tabsSession>>

handleChatFoldersUpdated(folders, mainPosition) ==
    /\ tabsSession # "closing"
    /\ SetRows(Rearranged(Rows, folders, mainPosition))
    /\ chatModels' = chatModels \cup ToSet(folders)
    /\ told' = [folders |-> folders, mainPosition |-> mainPosition]
    /\ mainFirst' = (mainFirst /\ mainPosition = 0)
    /\ UNCHANGED <<tabsTimerVars, tabsSession>>

\* A chat was added to a folder whose list model does not exist yet.
handleChatAddedToFolderList(f) ==
    /\ tabsSession # "closing"
    /\ f \notin chatModels
    /\ chatModels' = chatModels \cup {f}
    /\ UNCHANGED <<tabsRowVars, tabsTimerVars, broken, toldVars, tabsSession>>

TabsSetRefreshTimerEnabled(enabled) ==
    /\ tabsRefreshTimerEnabled # enabled
    /\ tabsRefreshTimerEnabled' = enabled
    /\ timerModels' = IF enabled THEN chatModels ELSE {}
    /\ UNCHANGED <<tabsRowVars, chatModels, broken, toldVars, tabsSession>>

\* Faulty: the second range starts at the main list.
ResetFromMain ==
    LET above == removeRange(Rows, 1, mainChatListIndex - 1)
    IN  SetRows(removeRange(above, mainChatListIndex, Len(above.rows)))

\* reset(): mainChatListIndex is not touched by the first removeRange.
TabsReset ==
    LET above == removeRange(Rows, 1, mainChatListIndex - 1)
        below == removeRange(above, mainChatListIndex + 1, Len(above.rows))
    IN  SetRows(below)

\* LoggingOut, then Closing: TDLibWrapper emits clearContent for each.
ClearContent ==
    /\ \/ tabsSession = "open" /\ tabsSession' = "loggingOut"
       \/ tabsSession = "loggingOut" /\ tabsSession' = "closing"
    /\ TabsReset
    /\ told' = NothingTold
    /\ UNCHANGED <<chatModels, tabsTimerVars, mainFirst>>

TabsClosed ==
    /\ tabsSession = "closing"
    /\ tabsSession' = "open"
    /\ UNCHANGED <<tabsRowVars, chatModels, tabsTimerVars, broken, toldVars>>

TabsNext ==
    /\ ~broken
    /\ \/ \E folders \in Arrangements, p \in MainPositions :
            /\ p <= Len(folders)
            /\ handleChatFoldersUpdated(folders, p)
       \/ \E f \in Folders : handleChatAddedToFolderList(f)
       \/ \E e \in BOOLEAN : TabsSetRefreshTimerEnabled(e)
       \/ ClearContent
       \/ TabsClosed

TabsSpec == TabsInit /\ [][TabsNext]_tabsVars

-----------------------------------------------------------------------------
(***************************************************************************)
(* Properties                                                              *)
(***************************************************************************)

\* The variables keep their types.
TabsTypeOK ==
    /\ chatFolders \in Seq(Folders \cup {Main})
    /\ DOMAIN chatFoldersIndexMap \subseteq Folders \cup {Main}
    /\ \A f \in DOMAIN chatFoldersIndexMap : chatFoldersIndexMap[f] \in Nat
    /\ mainChatListIndex \in Nat
    /\ chatModels \subseteq Folders
    /\ tabsRefreshTimerEnabled \in BOOLEAN
    /\ timerModels \subseteq chatModels
    /\ broken \in BOOLEAN
    /\ told \in [folders: Arrangements, mainPosition: {-1} \cup MainPositions]
    /\ mainFirst \in BOOLEAN
    /\ tabsSession \in TabsSessions

\* The main list has one row, and the other rows are the folders in the order
\* that TDLib sent, whatever they were before and wherever the main list is:
\* the removals, moves and insertions of handleChatFoldersUpdated do not undo
\* each other.
FoldersInOrder ==
    told # NothingTold /\ ~broken =>
        \E m \in DOMAIN chatFolders :
            chatFolders[m] = Main /\ RemoveAt(chatFolders, m) = told.folders

\* The unread badge of a folder is refreshed through chatFoldersIndexMap
\* (handleFolderChatListUnreadChatCountChanged), which every removal, move and
\* insertion patches in part: each folder is found at its row, a removed one
\* is not found.
IndexesExact ==
    ~broken =>
        /\ \A i \in DOMAIN chatFolders :
            chatFolders[i] # Main => /\ chatFolders[i] \in DOMAIN chatFoldersIndexMap
                                     /\ chatFoldersIndexMap[chatFolders[i]] = i
        /\ DOMAIN chatFoldersIndexMap \ {Main} \subseteq ToSet(chatFolders)

\* A row of the list always has a chat list model to show (RoleModel), before
\* and after folders come and go and users log in and out.
RowsHaveModels == ToSet(chatFolders) \ {Main} \subseteq chatModels

\* While the main list comes first, the tabs are what TDLib has sent, with the
\* main list found through mainChatListIndex, also when users log out and in:
\* its tab is never lost, doubled or moved, and no handler leaves the list.
MainTabFirst ==
    mainFirst =>
        /\ ~broken
        /\ chatFolders = <<Main>> \o told.folders
        /\ mainChatListIndex = 1
=============================================================================
