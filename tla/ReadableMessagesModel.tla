----------------------- MODULE ReadableMessagesModel -----------------------
(***************************************************************************)
(* How the view of a chat loads its messages: JumpableMessagesModel,       *)
(* ReadableMessagesModel and the search of ChatMessagesModel, the classes  *)
(* derived from MessagesModel, whose rows and operations they share.       *)
(*                                                                         *)
(* The view asks TDLib for slices of the history and fills the list from   *)
(* the answers, which come in any order and carry no more than the kind of *)
(* request they answer (the extra of getChatHistory).  A jump, a search    *)
(* and a reopened chat clear the list while older requests are in flight.  *)
(*                                                                         *)
(* TDLib is the environment.  It collects an answer from the newest        *)
(* requested message downwards and may stop short, but answers with        *)
(* nothing only where there is nothing.  It sends updateNewMessage and     *)
(* updateChatLastMessage back to back: the last message of the chat is     *)
(* always known.  Any message of the chat may be one of ours that is still *)
(* being sent and gets its final identifier.                               *)
(*                                                                         *)
(* Left out of what the classes inherit are the updates of contents and    *)
(* fields, which change no identifier and no place, and sponsored          *)
(* messages.                                                               *)
(***************************************************************************)
EXTENDS MessagesModel

CONSTANTS
    Matching,       \* query -> the messages it finds
    Few,            \* fewer messages than this: load more at once
    Ahead,          \* newer messages that a NextSlice asks for
    MaxRequests     \* bound on the requests in flight

ASSUME ReadableAssumption ==
    /\ \A q \in DOMAIN Matching : q # "" /\ Matching[q] \subseteq Ids
    /\ Few \in Nat
    /\ Ahead \in Nat \ {0}
    /\ MaxRequests \in Nat \ {0}

VARIABLES
    waitingFor,         \* the update types whose value is true
    startReached,
    endReached,
    searchQuery,        \* "": the history is shown
    requests,           \* TDLib: requests in flight
    foreign,            \* an answer to a request made before the last clear
                        \* was taken for one of this list
    skipped             \* messages that sent ones left out since that clear

reachedVars == <<startReached, endReached>>
historyVars == <<vars, waitingFor, reachedVars, searchQuery, requests, foreign, skipped>>

UpdateType == {"Initial", "PreviousSlice", "NextSlice", "Reload"}
Queries == DOMAIN Matching \cup {""}
Request == [type: UpdateType, from: Ids \cup {0}, query: Queries, current: BOOLEAN]

RowIds == IdsOf(messages)

-----------------------------------------------------------------------------
(***************************************************************************)
(* TDLib's side                                                            *)
(***************************************************************************)

\* What a query finds, and what the history holds.
Pool(query) == IF query = "" THEN existing ELSE existing \cap Matching[query]

\* chatInformation().last_message.id
lastMessageId == IF existing = {} THEN 0 ELSE Max(existing)

\* -offset of the request: how many messages newer than from it asks for.
Newer(r) ==
    CASE r.query # "" \/ r.type = "Reload" -> 0
      [] r.query = "" /\ r.type = "NextSlice" -> Ahead
      [] OTHER -> 1

\* The answers to r that TDLib may give: it does not stop before from.  The
\* limit of a NextSlice leaves room for no more than that.
Answers(r) ==
    LET older == {m \in Pool(r.query) : r.from = 0 \/ m <= r.from}
        newer == {m \in Pool(r.query) \ older :
                    Cardinality({n \in Pool(r.query) \ older : n < m}) < Newer(r)}
        down == IF older = {} \/ (r.query = "" /\ r.type = "NextSlice")
                THEN {older \cap {Max(older \cup {0})}}
                ELSE {{m \in older : m >= c} : c \in older}
    IN  {newer \cup o : o \in down}

\* total_count: of a slice of the history its own size, of a search all hits.
NothingFound(r, batch) == IF r.query = "" THEN batch = {} ELSE Pool(r.query) = {}

-----------------------------------------------------------------------------
(***************************************************************************)
(* The view's side                                                         *)
(***************************************************************************)

waitingForSlice == waitingFor \cap {"PreviousSlice", "NextSlice"} # {}

\* loadMessages
Sent(inFlight, type, from, query) ==
    inFlight \cup {[type |-> type, from |-> from, query |-> query, current |-> TRUE]}

Stale(inFlight) == {[r EXCEPT !.current = FALSE] : r \in inFlight}

\* Faulty: clear() forgets that the end was reached.
ClearAndLoadKeepingEnd(from, query) ==
    /\ Cardinality(requests) < MaxRequests
    /\ messages' = <<>>
    /\ messageIndexMap' = <<>>
    /\ albumMessageMap' = <<>>
    /\ waitingFor' = {}
    /\ startReached' = FALSE
    /\ searchQuery' = query
    /\ foreign' = FALSE
    /\ skipped' = {}
    /\ requests' = Sent(Stale(requests), "Initial", from, query)
    /\ UNCHANGED <<endReached, tdVars>>

\* clear() of the four classes, and the first request for the new content.
\* waitingFor is not set for it.
ClearAndLoad(from, query) ==
    /\ Cardinality(requests) < MaxRequests
    /\ messages' = <<>>
    /\ messageIndexMap' = <<>>
    /\ albumMessageMap' = <<>>
    /\ waitingFor' = {}
    /\ startReached' = FALSE
    /\ endReached' = FALSE
    /\ searchQuery' = query
    /\ foreign' = FALSE
    /\ skipped' = {}
    /\ requests' = Sent(Stale(requests), "Initial", from, query)
    /\ UNCHANGED tdVars

LoadSlice(type, from) ==
    /\ Cardinality(requests) < MaxRequests
    /\ type \notin waitingFor
    /\ messages # <<>>
    /\ waitingFor' = waitingFor \cup {type}
    /\ requests' = Sent(requests, type, from, searchQuery)
    /\ UNCHANGED <<listVars, tdVars, reachedVars, searchQuery, foreign, skipped>>

loadMoreHistory ==
    /\ ~startReached
    /\ LoadSlice("PreviousSlice", messages[1].id)

\* Faulty: newer messages are asked for from behind the last row.
loadMoreFutureOffByOne ==
    /\ searchQuery = ""
    /\ ~endReached
    /\ LoadSlice("NextSlice", messages[Len(messages)].id + 1)

loadMoreFuture ==
    /\ searchQuery = ""
    /\ ~endReached
    /\ LoadSlice("NextSlice", messages[Len(messages)].id)

\* A jump.  Only slices are waited for; a search ends.
loadHistoryForMessage(id) ==
    /\ ~waitingForSlice
    /\ messages # <<>>
    /\ ClearAndLoad(id, "")

\* from is 0 or the last read message of ours.
loadEnd(from) ==
    /\ ~waitingForSlice
    /\ "Reload" \notin waitingFor
    /\ messages # <<>>
    /\ ClearAndLoad(from, "")

setSearchQuery(query, lastRead) ==
    /\ query # searchQuery
    /\ ClearAndLoad(IF query = "" THEN lastRead ELSE 0, query)

\* ChatManager::initializeMainModels: a new model for the same chat, which
\* also gets the answers that the old one was waiting for.
initializeMainModels(from) == ClearAndLoad(from, "")

handleMessagesReceived(r, batch) ==
    LET accepted == batch # {} /\ (r.type \in waitingFor \/ messages = <<>>)
        new == batch \ DOMAIN messageIndexMap
        reload == /\ accepted /\ new # {} /\ r.type # "Reload"
                  /\ Cardinality(new) + Cardinality(batch) < Few
        notified == batch = {} \/ (accepted /\ ~reload)
        s == IF accepted THEN handleInsertMessages(Model, batch)
             ELSE Model
        nothing == NothingFound(r, batch)
    IN  /\ SetModel(s)
        /\ waitingFor' = (waitingFor \ {r.type}) \cup (IF reload THEN {"Reload"} ELSE {})
        /\ requests' = IF reload THEN Sent(requests \ {r}, "Reload", Min(new), searchQuery)
                       ELSE requests \ {r}
        /\ endReached' = \/ endReached
                         \/ /\ notified
                            /\ \/ lastMessageId \in DOMAIN s.map
                               \/ nothing /\ r.type \in {"NextSlice", "Initial"}
        /\ startReached' = \/ startReached
                           \/ notified /\ nothing /\ r.type \in {"PreviousSlice", "Initial"}
        /\ foreign' = (foreign \/ (~r.current /\ (accepted \/ batch = {})))
        /\ UNCHANGED <<tdVars, searchQuery, skipped>>

\* An error answer: errorReceived, which the models do not listen to.
RequestFailed(r) ==
    /\ requests' = requests \ {r}
    /\ UNCHANGED <<listVars, tdVars, waitingFor, reachedVars, searchQuery, foreign, skipped>>

\* Faulty: a new message is always shown.
handleNewMessageReceivedAlways(id) ==
    /\ \A m \in existing \cup deleted : id > m
    /\ existing' = existing \cup {id}
    /\ SetModel(handleInsertMessages(Model, {id}))
    /\ UNCHANGED <<deleted, edited, waitingFor, reachedVars, searchQuery, requests,
                   foreign, skipped>>

\* Shown only when all messages before it are.
handleNewMessageReceived(id) ==
    /\ \A m \in existing \cup deleted : id > m
    /\ existing' = existing \cup {id}
    /\ SetModel(IF searchQuery = "" /\ endReached
                THEN handleInsertMessages(Model, {id})
                ELSE Model)
    /\ UNCHANGED <<deleted, edited, waitingFor, reachedVars, searchQuery, requests,
                   foreign, skipped>>

\* One message at a time; what batches do is the business of MessagesModel.
HistoryMessagesDeleted(id) ==
    /\ id \in existing
    /\ existing' = existing \ {id}
    /\ deleted' = deleted \cup {id}
    /\ SetModel(Deleted(Model, <<id>>))
    /\ UNCHANGED <<edited, waitingFor, reachedVars, searchQuery, requests,
                   foreign, skipped>>

\* What a message of ours leaves out when it gets its final identifier: its row
\* goes to the end also over messages that are not loaded yet; without a row
\* it is not shown, though it may now lie among the rows or behind a list that
\* has reached its end.
LeftOut(old, new) ==
    LET newest == \A m \in existing \cup deleted : new > m
        atEnd == searchQuery = "" /\ endReached
    IN  IF old \in RowIds
        THEN {m \in Pool(searchQuery) \ RowIds : old < m /\ m < new}
        ELSE IF newest /\ ~atEnd THEN {} ELSE {new}

\* The handler of MessagesModel, which the view inherits.  The sent message
\* has the content of the old one: the same queries find it.
HistoryMessageSendSucceeded(old, new) ==
    /\ \A query \in DOMAIN Matching : old \in Matching[query] <=> new \in Matching[query]
    /\ handleMessageSendSucceeded(old, new)
    /\ skipped' = skipped \cup LeftOut(old, new)
    /\ UNCHANGED <<waitingFor, reachedVars, searchQuery, requests, foreign>>

-----------------------------------------------------------------------------

\* A chat is opened at a message, or at its end.
HistoryInit ==
    /\ messages = <<>>
    /\ messageIndexMap = <<>>
    /\ albumMessageMap = <<>>
    /\ existing \in {{m \in Ids : m <= n} : n \in Ids \cup {0}}
    /\ deleted = {}
    /\ edited = {}
    /\ waitingFor = {}
    /\ startReached = FALSE
    /\ endReached = FALSE
    /\ searchQuery = ""
    /\ \E from \in existing \cup {0} : requests = Sent({}, "Initial", from, "")
    /\ foreign = FALSE
    /\ skipped = {}

Answer ==
    \E r \in requests :
        \/ \E batch \in Answers(r) : handleMessagesReceived(r, batch)
        \/ RequestFailed(r)

Load ==
    \/ loadMoreHistory
    \/ loadMoreFuture
    \/ \E id \in existing : loadHistoryForMessage(id)
    \/ \E from \in existing \cup {0} :
        \/ loadEnd(from)
        \/ initializeMainModels(from)
        \/ \E query \in Queries : setSearchQuery(query, from)

HistoryNext ==
    \/ Answer
    \/ Load
    \/ \E id \in Ids :
        \/ handleNewMessageReceived(id)
        \/ HistoryMessagesDeleted(id)
    \/ \E old, new \in Ids : HistoryMessageSendSucceeded(old, new)

HistorySpec == HistoryInit /\ [][HistoryNext]_historyVars

-----------------------------------------------------------------------------
(***************************************************************************)
(* Properties                                                              *)
(***************************************************************************)

\* The variables keep their types.
HistoryTypeOK ==
    /\ TypeOK
    /\ waitingFor \subseteq UpdateType
    /\ startReached \in BOOLEAN
    /\ endReached \in BOOLEAN
    /\ searchQuery \in Queries
    /\ requests \subseteq Request
    /\ Cardinality(requests) <= MaxRequests
    /\ foreign \in BOOLEAN
    /\ skipped \subseteq Ids

\* A list that was filled by the answers to its own requests has no gaps but
\* those that handleMessageSendSucceeded makes, whichever answer comes first
\* and whatever is sent, deleted and found in between: a message of the chat
\* (of the search) that lies between two shown ones is shown, or a sent message
\* left it out.  A search shows nothing else.
NoGaps ==
    ~foreign =>
        /\ RowIds \cap existing \subseteq Pool(searchQuery)
        /\ \A m \in Pool(searchQuery) \ skipped :
            (\E k, n \in RowIds : k < m /\ m < n) => m \in RowIds

\* endReached makes handleNewMessageReceived append and loadMoreFuture stop:
\* when it is set in such a list of the history, nothing newer is missing but
\* what sent messages left out.
EndReachedIsEnd ==
    endReached /\ searchQuery = "" /\ messages # <<>> /\ ~foreign =>
        \A m \in existing \ (RowIds \cup skipped) : \E n \in RowIds : m < n
=============================================================================
